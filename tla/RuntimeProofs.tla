----------------------------- MODULE RuntimeProofs ---------------------------
(***************************************************************************)
(* Theorems about what every turn runs over, for every number of turns,    *)
(* answers, plans, writers, readers, calls and tenants: the turn executor, *)
(* the session event log and the circuit breakers of the message bus.  The *)
(* three share no state; each part has an inductive invariant of its own.  *)
(***************************************************************************)
EXTENDS TurnExecutor, SessionStore, NatsBus, FiniteSetTheorems, WellFoundedInduction, NaturalsInduction, TLAPS

(***************************************************************************)
(* TurnExecutor: an approval authorises one action, waves follow the data  *)
(* flow, and a turn called executed is complete.                           *)
(*                                                                         *)
(* OneActionPerApproval is not inductive: which steps a yes can still pay  *)
(* for is decided when the answer is delivered.  The invariant adds that an*)
(* invocation carries an answer for at most one step (resume refuses a     *)
(* thread with several questions), that a new turn carries none, and that a*)
(* handler that ran belongs to the step the answer is for, until the request*)
(* has ended.                                                              *)
(***************************************************************************)

NotUnderWay == {"idle", "marker", "clear", "resume"}

\* r is a record with the fields of an invocation.
IsRun(r) ==
    r \in [pc : {r.pc}, thread : {r.thread}, for : {r.for}, yes : {r.yes}, says : {r.says},
           asks : {r.asks}, plan : {r.plan}, result : {r.result}, todo : {r.todo},
           waiting : {r.waiting}, answered : {r.answered}, picked : {r.picked},
           wave : {r.wave}, unrouted : {r.unrouted}, status : {r.status}]

OneAnswer(q, r) ==
    /\ \E s : r.answered \subseteq {s}
    /\ q \in Turns => r.answered = {}

RunOK(q, r) ==
    /\ IsRun(r)
    /\ r.thread \in Turns \cup {NoThread}
    /\ IsFiniteSet(r.waiting)
    /\ OneAnswer(q, r)

RunsOK ==
    /\ run = [q \in Requests |-> run[q]]
    /\ \A q \in Requests : RunOK(q, run[q])

CkptOK ==
    /\ ckpt = [t \in Turns |-> ckpt[t]]
    /\ \A t \in Turns : IsFiniteSet(ckpt[t].waiting)

MarkerOK == marker \in Turns \cup {"none", "cleared"}

ActOK(a) ==
    /\ a = <<a[1], a[2]>> /\ a[1] \in Resumes /\ run[a[1]].yes
    /\ run[a[1]].says \in {"approved", "confirmed"}
    /\ run[a[1]].pc \notin NotUnderWay
    /\ run[a[1]].pc = "end" \/ run[a[1]].answered \subseteq {a[2]}

ActsOK ==
    /\ \A a \in acts : ActOK(a)
    /\ \A a, b \in acts : a[1] = b[1] => a = b

IInv == RunsOK /\ CkptOK /\ MarkerOK /\ ActsOK

------------------------------------------------------------------------------
\* What a step of request q may make of its invocation.
Motion(q, r) ==
    /\ RunOK(q, r)
    /\ \/ run[q].pc \in NotUnderWay
       \/ /\ r.yes = run[q].yes /\ r.says = run[q].says
          /\ r.pc \notin NotUnderWay /\ run[q].pc # "end"
          /\ r.pc = "end" \/ r.answered \subseteq run[q].answered

(* A step that only moves one invocation, as Motion allows, keeps the      *)
(* invariant (every handler but the one that runs an action).              *)
LEMMA MotionKeepsInv ==
    ASSUME IInv, NEW q \in Requests, NEW r, Motion(q, r),
           run' = [run EXCEPT ![q] = r], CkptOK', MarkerOK', acts' = acts
    PROVE  IInv'
<1>1. RunsOK'
  <2>1. run' = [p \in Requests |-> IF p = q THEN r ELSE run[p]]
    BY DEF IInv, RunsOK
  <2>2. \A p \in Requests : run'[p] = IF p = q THEN r ELSE run[p]
    BY <2>1
  <2>3. \A p \in Requests : RunOK(p, run'[p])
    BY <2>2 DEF IInv, RunsOK, Motion
  <2>. QED
    BY <2>1, <2>3 DEF RunsOK
<1>2. ActsOK'
  <2>1. \A p \in Requests : run'[p] = IF p = q THEN r ELSE run[p]
    BY DEF IInv, RunsOK
  <2>2. ASSUME NEW a \in acts PROVE ActOK(a)'
    <3>1. ActOK(a)
      BY DEF IInv, ActsOK
    <3>2. a[1] \in Requests
      BY <3>1 DEF ActOK, Requests
    <3>3. CASE a[1] # q
      <4>1. run'[a[1]] = run[a[1]]
        BY <2>1, <3>2, <3>3
      <4>. QED
        BY <3>1, <4>1 DEF ActOK
    <3>4. CASE a[1] = q
      <4>1. run'[q] = r
        BY <2>1
      <4>. QED
        BY <3>1, <3>4, <4>1 DEF ActOK, Motion
    <3>. QED
      BY <3>3, <3>4
  <2>. QED
    BY <2>2 DEF IInv, ActsOK
<1>. QED
  BY <1>1, <1>2 DEF IInv

(* Saving an invocation keeps the checkpoints' questions finite.           *)
LEMMA SaveKeepsCkpt ==
    ASSUME IInv, NEW q, NEW r, IsRun(r), IsFiniteSet(r.waiting), Save(q, r)
    PROVE  CkptOK'
<1>1. ckpt' = [t \in Turns |-> IF t = r.thread THEN Saved(r) ELSE ckpt[t]]
  BY DEF IInv, CkptOK, Save
<1>2. Saved(r).waiting = r.waiting
  BY DEF Saved
<1>3. \A t \in Turns : IsFiniteSet(ckpt'[t].waiting)
  BY <1>1, <1>2 DEF IInv, CkptOK
<1>. QED
  BY <1>1, <1>3 DEF CkptOK

(* A step that saves the invocation it moves keeps the invariant.          *)
LEMMA SaveKeepsInv ==
    ASSUME IInv, NEW q \in Requests, NEW r, Motion(q, r), Save(q, r), MarkerOK', acts' = acts
    PROVE  IInv'
<1>1. CkptOK'
  BY SaveKeepsCkpt DEF Motion, RunOK
<1>2. run' = [run EXCEPT ![q] = r]
  BY DEF Save
<1>. QED
  BY <1>1, <1>2, MotionKeepsInv

LEMMA InitInv == Init => IInv
<1>. SUFFICES ASSUME Init PROVE IInv
  OBVIOUS
<1>1. IsFiniteSet({})
  BY FS_EmptySet
<1>2. \A q : RunOK(q, Idle)
  BY <1>1 DEF RunOK, IsRun, OneAnswer, Idle
<1>3. RunsOK
  BY <1>2 DEF Init, RunsOK
<1>4. CkptOK
  BY <1>1 DEF Init, CkptOK, Saved, Idle
<1>. QED
  BY <1>3, <1>4 DEF Init, IInv, MarkerOK, ActsOK

------------------------------------------------------------------------------
(* Steps of the graph.  Each changes fields that Motion does not restrict. *)

(* A new turn starts without an answer.                                    *)
LEMMA SubmitInv == ASSUME IInv, NEW t \in Turns, Submit(t) PROVE IInv'
<1>1. t \in Requests /\ run[t].pc \in NotUnderWay
  BY DEF Submit, Requests, NotUnderWay
<1>2. IsFiniteSet({})
  BY FS_EmptySet
<1>3. PICK r : Save(t, r) /\ IsRun(r) /\ r.thread = t /\ r.waiting = {} /\ r.answered = {}
  <2>1. CASE \E p \in Plans :
                Save(t, [Idle EXCEPT !.pc = "wave", !.thread = t, !.for = t, !.plan = p.steps,
                                     !.unrouted = p.unrouted])
    <3>1. PICK p \in Plans :
             Save(t, [Idle EXCEPT !.pc = "wave", !.thread = t, !.for = t, !.plan = p.steps,
                                  !.unrouted = p.unrouted])
      BY <2>1
    <3>. DEFINE r == [Idle EXCEPT !.pc = "wave", !.thread = t, !.for = t, !.plan = p.steps,
                                  !.unrouted = p.unrouted]
    <3>2. IsRun(r)
      BY DEF Idle, IsRun
    <3>3. r.thread = t /\ r.waiting = {} /\ r.answered = {}
      BY DEF Idle
    <3>4. Save(t, r)
      BY <3>1
    <3>. HIDE DEF r
    <3>. QED
      BY <3>4, <3>2, <3>3
  <2>2. CASE Save(t, [Idle EXCEPT !.pc = "persist", !.thread = t, !.for = t,
                                  !.status = "clarification"])
    <3>. DEFINE r == [Idle EXCEPT !.pc = "persist", !.thread = t, !.for = t,
                                  !.status = "clarification"]
    <3>1. Save(t, r)
      BY <2>2
    <3>2. IsRun(r)
      BY DEF Idle, IsRun
    <3>3. r.thread = t /\ r.waiting = {} /\ r.answered = {}
      BY DEF Idle
    <3>. HIDE DEF r
    <3>. QED
      BY <3>1, <3>2, <3>3
  <2>. QED
    BY <2>1, <2>2 DEF Submit
<1>4. Motion(t, r)
  BY <1>1, <1>2, <1>3 DEF Motion, RunOK, OneAnswer
<1>. QED
  BY <1>1, <1>3, <1>4, SaveKeepsInv DEF Submit, IInv, MarkerOK

(* A graph step leaves the answer, the verdict and the thread alone.       *)
LEMMA GraphStepInv ==
    ASSUME IInv, NEW q \in Requests, NEW r, Save(q, r), IsRun(r),
           run[q].pc \notin NotUnderWay \cup {"end"}, r.pc \notin NotUnderWay,
           r.thread = run[q].thread, r.yes = run[q].yes, r.says = run[q].says,
           r.answered \subseteq run[q].answered, IsFiniteSet(r.waiting), marker' = marker, acts' = acts
    PROVE  IInv'
<1>1. RunOK(q, run[q])
  BY DEF IInv, RunsOK
<1>2. Motion(q, r)
  BY <1>1 DEF Motion, RunOK, OneAnswer
<1>. QED
  BY <1>2, SaveKeepsInv DEF IInv, MarkerOK

LEMMA WaveInv == ASSUME IInv, NEW q \in Requests, Wave(q) PROVE IInv'
<1>1. IsRun(run[q]) /\ IsFiniteSet(run[q].waiting)
  BY DEF IInv, RunsOK, RunOK
<1>2. run[q].pc \notin NotUnderWay \cup {"end"}
  BY DEF Wave, NotUnderWay
<1>3. PICK r : /\ Save(q, r) /\ IsRun(r) /\ r.pc \in {"aggregate", "steps"}
               /\ r.thread = run[q].thread /\ r.yes = run[q].yes /\ r.says = run[q].says
               /\ r.answered = run[q].answered /\ r.waiting = run[q].waiting
  <2>1. CASE Save(q, [run[q] EXCEPT !.pc = "aggregate"])
    BY <1>1, <2>1 DEF IsRun
  <2>2. CASE Save(q, [run[q] EXCEPT !.pc = "steps", !.todo = Runnable(run[q]), !.wave = @ + 1])
    <3>. DEFINE r == [run[q] EXCEPT !.pc = "steps", !.todo = Runnable(run[q]), !.wave = @ + 1]
    <3>1. Save(q, r)
      BY <2>2
    <3>2. IsRun(r)
      BY <1>1 DEF IsRun
    <3>3. /\ r.pc = "steps" /\ r.thread = run[q].thread /\ r.yes = run[q].yes /\ r.says = run[q].says
          /\ r.answered = run[q].answered /\ r.waiting = run[q].waiting
      BY <1>1 DEF IsRun
    <3>. HIDE DEF r
    <3>. QED
      BY <3>1, <3>2, <3>3
  <2>. QED
    BY <2>1, <2>2 DEF Wave
<1>. QED
  BY <1>1, <1>2, <1>3, GraphStepInv DEF Wave, NotUnderWay

(* A step that ended: its result, its place in the wave and its follow-ups.*)
LEMMA FinishRun ==
    ASSUME IInv, NEW q \in Requests, NEW s, NEW status, NEW generated, run[q].pc = "steps",
           Finish(q, s, status, generated)
    PROVE  \E r : /\ Save(q, r) /\ IsRun(r) /\ r.pc = "steps"
                  /\ r.thread = run[q].thread /\ r.yes = run[q].yes /\ r.says = run[q].says
                  /\ r.answered = run[q].answered /\ r.waiting = run[q].waiting
<1>1. IsRun(run[q])
  BY DEF IInv, RunsOK, RunOK
<1>. DEFINE r == [run[q] EXCEPT !.result = MergeStepResults(@, s, status), !.todo = @ \ {s},
                               !.plan = MergePlan(@, generated)]
<1>2. Save(q, r)
  BY DEF Finish
<1>3. IsRun(r)
  BY <1>1 DEF IsRun
<1>4. /\ r.pc = "steps" /\ r.thread = run[q].thread /\ r.yes = run[q].yes /\ r.says = run[q].says
      /\ r.answered = run[q].answered /\ r.waiting = run[q].waiting
  BY <1>1 DEF IsRun
<1>. HIDE DEF r
<1>. QED
  BY <1>2, <1>3, <1>4

LEMMA FinishInv ==
    ASSUME IInv, NEW q \in Requests, NEW s, NEW status, NEW generated, run[q].pc = "steps",
           Finish(q, s, status, generated), marker' = marker, acts' = acts
    PROVE  IInv'
<1>1. PICK r : /\ Save(q, r) /\ IsRun(r) /\ r.pc = "steps"
               /\ r.thread = run[q].thread /\ r.yes = run[q].yes /\ r.says = run[q].says
               /\ r.answered = run[q].answered /\ r.waiting = run[q].waiting
  BY FinishRun
<1>2. IsFiniteSet(run[q].waiting)
  BY DEF IInv, RunsOK, RunOK
<1>. QED
  BY <1>1, <1>2, GraphStepInv DEF NotUnderWay

(* Steps that end without a handler, and steps that ask.                   *)
LEMMA QuietStepInv ==
    ASSUME IInv, NEW q \in Requests, NEW s, Refuse(q, s) \/ Block(q, s) \/ Ask(q, s) \/ Decline(q, s)
    PROVE  IInv'
<1>0. run[q].pc = "steps"
  BY DEF Refuse, Block, Ask, Decline, InWave
<1>1. CASE Refuse(q, s)
  BY <1>0, <1>1, FinishInv DEF Refuse
<1>2. CASE Block(q, s)
  BY <1>0, <1>2, FinishInv DEF Block
<1>3. CASE Decline(q, s)
  BY <1>0, <1>3, FinishInv DEF Decline
<1>4. CASE Ask(q, s)
  <2>1. IsRun(run[q]) /\ IsFiniteSet(run[q].waiting)
    BY DEF IInv, RunsOK, RunOK
  <2>2. IsFiniteSet(run[q].waiting \cup {s})
    BY <2>1, FS_AddElement
  <2>3. PICK r : /\ Save(q, r) /\ IsRun(r) /\ r.pc = "steps"
                 /\ r.thread = run[q].thread /\ r.yes = run[q].yes /\ r.says = run[q].says
                 /\ r.answered = run[q].answered /\ r.waiting = run[q].waiting \cup {s}
    BY <1>0, <1>4, <2>1 DEF Ask, IsRun
  <2>. QED
    BY <1>0, <1>4, <2>2, <2>3, GraphStepInv DEF Ask, NotUnderWay
<1>. QED
  BY <1>1, <1>2, <1>3, <1>4

(* An action is carried out for the one step the answer is for.            *)
LEMMA ActionInv ==
    ASSUME IInv, NEW q \in Requests, NEW s, run[q].pc = "steps", s \in run[q].answered,
           run[q].yes, run[q].says \in {"approved", "confirmed"},
           NEW status, NEW generated, Finish(q, s, status, generated),
           acts' = acts \cup {<<q, s>>}, marker' = marker
    PROVE  IInv'
<1>2. q \in Resumes /\ run[q].answered = {s}
  BY DEF IInv, RunsOK, RunOK, OneAnswer, Requests
<1>4. PICK r : /\ Save(q, r) /\ IsRun(r) /\ r.pc = "steps"
               /\ r.thread = run[q].thread /\ r.yes = run[q].yes /\ r.says = run[q].says
               /\ r.answered = run[q].answered /\ r.waiting = run[q].waiting
  BY FinishRun
<1>5. RunOK(q, run[q])
  BY DEF IInv, RunsOK
<1>6. RunOK(q, r)
  BY <1>4, <1>5 DEF RunOK, OneAnswer
<1>7. \A p \in Requests : run'[p] = IF p = q THEN r ELSE run[p]
  BY <1>4 DEF IInv, RunsOK, Save
<1>8. RunsOK'
  <2>1. run' = [p \in Requests |-> IF p = q THEN r ELSE run[p]]
    BY <1>4 DEF IInv, RunsOK, Save
  <2>2. \A p \in Requests : RunOK(p, run'[p])
    BY <1>6, <1>7 DEF IInv, RunsOK
  <2>. QED
    BY <2>1, <2>2 DEF RunsOK
<1>9. CkptOK'
  BY <1>4, <1>6, SaveKeepsCkpt DEF RunOK
<1>10. ActOK(<<q, s>>)'
  BY <1>2, <1>4, <1>7 DEF ActOK, NotUnderWay
<1>11. ASSUME NEW a \in acts PROVE ActOK(a)' /\ (a[1] = q => a = <<q, s>>)
  <2>1. ActOK(a)
    BY DEF IInv, ActsOK
  <2>2. CASE a[1] # q
    <3>1. run'[a[1]] = run[a[1]]
      BY <1>7, <2>1, <2>2 DEF ActOK, Requests
    <3>. QED
      BY <2>1, <2>2, <3>1 DEF ActOK
  <2>3. CASE a[1] = q
    <3>1. a[2] = s
      BY <1>2, <2>1, <2>3 DEF ActOK
    <3>2. a = <<q, s>>
      BY <2>1, <2>3, <3>1 DEF ActOK
    <3>. QED
      BY <1>10, <3>2
  <2>. QED
    BY <2>2, <2>3
<1>12. ActsOK'
  BY <1>10, <1>11 DEF IInv, ActsOK
<1>. QED
  BY <1>8, <1>9, <1>12 DEF IInv, MarkerOK

LEMMA WorkInv == ASSUME IInv, NEW q \in Requests, NEW s, Work(q, s) PROVE IInv'
<1>1. run[q].pc = "steps" /\ marker' = marker
  BY DEF Work, InWave
<1>2. PICK status, generated : Finish(q, s, status, generated)
  BY DEF Work
<1>3. CASE run[q].plan[s].kind # "action"
  BY <1>1, <1>2, <1>3, FinishInv DEF Work
<1>4. CASE run[q].plan[s].kind = "action"
  <2>1. s \in run[q].answered /\ run[q].yes /\ run[q].says \in {"approved", "confirmed"}
    BY <1>4 DEF Work, Unanswered, Agreed, Question
  <2>2. acts' = acts \cup {<<q, s>>}
    BY <1>4 DEF Work
  <2>. QED
    BY <1>1, <1>2, <2>1, <2>2, ActionInv
<1>. QED
  BY <1>3, <1>4

(* The catalogue's handler creates the request on the confirmation only.   *)
LEMMA CatalogInv == ASSUME IInv, NEW q \in Requests, NEW s, Catalog(q, s) PROVE IInv'
<1>1. run[q].pc = "steps" /\ marker' = marker /\ run[q].plan[s].kind = "own"
  BY DEF Catalog, InWave
<1>2. CASE /\ \E status \in {"success", "failed"} : Finish(q, s, status, <<>>)
           /\ UNCHANGED acts
  BY <1>1, <1>2, FinishInv
<1>3. CASE /\ Save(q, [run[q] EXCEPT !.waiting = @ \cup {s}, !.answered = @ \ {s},
                                      !.picked = @ \cup {s}])
           /\ UNCHANGED acts
  <2>. DEFINE r == [run[q] EXCEPT !.waiting = @ \cup {s}, !.answered = @ \ {s},
                                  !.picked = @ \cup {s}]
  <2>1. IsRun(run[q]) /\ IsFiniteSet(run[q].waiting)
    BY DEF IInv, RunsOK, RunOK
  <2>2. IsFiniteSet(run[q].waiting \cup {s})
    BY <2>1, FS_AddElement
  <2>3. Save(q, r)
    BY <1>3
  <2>4. IsRun(r)
    BY <2>1 DEF IsRun
  <2>5. /\ r.pc = "steps" /\ r.thread = run[q].thread /\ r.yes = run[q].yes /\ r.says = run[q].says
        /\ r.answered \subseteq run[q].answered /\ r.waiting = run[q].waiting \cup {s}
    BY <1>1, <2>1 DEF IsRun
  <2>. HIDE DEF r
  <2>. QED
    BY <1>1, <1>3, <2>2, <2>3, <2>4, <2>5, GraphStepInv DEF NotUnderWay
<1>4. CASE /\ ~ Unanswered(run[q], s) /\ Agreed(run[q], s) /\ s \in run[q].picked
           /\ \E status \in {"success", "failed"} : Finish(q, s, status, <<>>)
           /\ acts' = acts \cup {<<q, s>>}
  <2>1. s \in run[q].answered /\ run[q].yes /\ run[q].says \in {"approved", "confirmed"}
    BY <1>1, <1>4 DEF Unanswered, Agreed, Question
  <2>. QED
    BY <1>1, <1>4, <2>1, ActionInv
<1>. QED
  BY <1>2, <1>3, <1>4 DEF Catalog

LEMMA EndWaveInv == ASSUME IInv, NEW q \in Requests, EndWave(q) PROVE IInv'
<1>1. IsRun(run[q]) /\ IsFiniteSet(run[q].waiting)
  BY DEF IInv, RunsOK, RunOK
<1>. DEFINE r == [run[q] EXCEPT !.pc = IF run[q].waiting = {} THEN "wave" ELSE "pause"]
<1>2. Save(q, r) /\ run[q].pc = "steps" /\ marker' = marker /\ acts' = acts
  BY DEF EndWave
<1>3. IsRun(r)
  BY <1>1 DEF IsRun
<1>4. /\ r.pc \in {"wave", "pause"} /\ r.thread = run[q].thread /\ r.yes = run[q].yes /\ r.says = run[q].says
      /\ r.answered = run[q].answered /\ r.waiting = run[q].waiting
  BY <1>1 DEF IsRun
<1>. HIDE DEF r
<1>. QED
  BY <1>1, <1>2, <1>3, <1>4, GraphStepInv DEF NotUnderWay

LEMMA AggregateInv == ASSUME IInv, NEW q \in Requests, Aggregate(q) PROVE IInv'
<1>1. IsRun(run[q]) /\ IsFiniteSet(run[q].waiting)
  BY DEF IInv, RunsOK, RunOK
<1>2. PICK status : Save(q, [run[q] EXCEPT !.pc = "persist", !.status = status])
  BY DEF Aggregate
<1>. DEFINE r == [run[q] EXCEPT !.pc = "persist", !.status = status]
<1>3. Save(q, r) /\ run[q].pc = "aggregate" /\ marker' = marker /\ acts' = acts
  BY <1>2 DEF Aggregate
<1>4. IsRun(r)
  BY <1>1 DEF IsRun
<1>5. /\ r.pc = "persist" /\ r.thread = run[q].thread /\ r.yes = run[q].yes /\ r.says = run[q].says
      /\ r.answered = run[q].answered /\ r.waiting = run[q].waiting
  BY <1>1 DEF IsRun
<1>. HIDE DEF r
<1>. QED
  BY <1>1, <1>3, <1>4, <1>5, GraphStepInv DEF NotUnderWay

------------------------------------------------------------------------------
(* The handler's steps                                                     *)

(* An answered request keeps its verdict and its thread, and no answer.    *)
LEMMA EndedOK ==
    ASSUME NEW q, NEW r, NEW status, r.thread \in Turns \cup {NoThread}
    PROVE  /\ RunOK(q, Ended(r, status))
           /\ Ended(r, status).pc = "end" /\ Ended(r, status).yes = r.yes
           /\ Ended(r, status).says = r.says
<1>1. IsFiniteSet({})
  BY FS_EmptySet
<1>. DEFINE e == Ended(r, status)
<1>2. IsRun(e)
  BY DEF Ended, Idle, IsRun
<1>3. /\ e.pc = "end" /\ e.yes = r.yes /\ e.says = r.says /\ e.thread = r.thread
      /\ e.waiting = {} /\ e.answered = {}
  BY DEF Ended, Idle
<1>. HIDE DEF e
<1>4. RunOK(q, e)
  BY <1>1, <1>2, <1>3 DEF RunOK, OneAnswer
<1>. QED
  BY <1>3, <1>4 DEF e

(* A request that ends keeps the invariant.                                *)
LEMMA EndInv ==
    ASSUME IInv, NEW q \in Requests, NEW status, run[q].pc # "end",
           run' = [run EXCEPT ![q] = Ended(run[q], status)], CkptOK', MarkerOK', acts' = acts
    PROVE  IInv'
<1>1. run[q].thread \in Turns \cup {NoThread}
  BY DEF IInv, RunsOK, RunOK
<1>2. Motion(q, Ended(run[q], status))
  BY <1>1, EndedOK DEF Motion, NotUnderWay
<1>. QED
  BY <1>2, MotionKeepsInv

LEMMA PersistInv == ASSUME IInv, NEW q \in Requests, Persist(q) PROVE IInv'
<1>1. /\ run[q].pc = "persist" /\ marker' = marker /\ acts' = acts
      /\ run' = [run EXCEPT ![q] = Ended(run[q], run[q].status)]
  BY DEF Persist
<1>2. RunOK(q, run[q])
  BY DEF IInv, RunsOK
<1>3. CkptOK'
  <2>. DEFINE c == [Saved(run[q]) EXCEPT !.pc = "end"]
  <2>1. ckpt' = [ckpt EXCEPT ![run[q].thread] = c]
    BY DEF Persist
  <2>2. c.waiting = run[q].waiting
    BY DEF Saved
  <2>. HIDE DEF c
  <2>3. ckpt' = [t \in Turns |-> IF t = run[q].thread THEN c ELSE ckpt[t]]
    BY <2>1 DEF IInv, CkptOK
  <2>4. \A t \in Turns : IsFiniteSet(ckpt'[t].waiting)
    BY <1>2, <2>2, <2>3 DEF IInv, CkptOK, RunOK
  <2>. QED
    BY <2>3, <2>4 DEF CkptOK
<1>. QED
  BY <1>1, <1>3, EndInv DEF IInv, MarkerOK

(* While a request is in the graph it has a thread: what Pause writes to   *)
(* the marker may be no thread, and then the marker reads as none.         *)
LEMMA PauseInv == ASSUME IInv, NEW q \in Requests, Pause(q) PROVE IInv'
<1>0. PICK asks : run' = [run EXCEPT ![q] = [Ended(run[q], "interrupted") EXCEPT !.asks = asks]]
  BY DEF Pause
<1>1. /\ run[q].pc = "pause" /\ ckpt' = ckpt /\ acts' = acts
      /\ marker' \in {run[q].thread, marker}
  BY DEF Pause
<1>2. run[q].thread \in Turns \cup {NoThread}
  BY DEF IInv, RunsOK, RunOK
<1>3. MarkerOK'
  BY <1>1, <1>2 DEF IInv, MarkerOK, NoThread
<1>4. CkptOK'
  BY <1>1 DEF IInv, CkptOK
<1>. DEFINE e == Ended(run[q], "interrupted")
            r == [e EXCEPT !.asks = asks]
<1>5. RunOK(q, e) /\ e.pc = "end" /\ e.yes = run[q].yes /\ e.says = run[q].says
  BY <1>2, EndedOK
<1>. HIDE DEF e
<1>6. /\ IsRun(r) /\ r.pc = "end" /\ r.yes = e.yes /\ r.says = e.says /\ r.thread = e.thread
      /\ r.waiting = e.waiting /\ r.answered = e.answered
  BY <1>5 DEF RunOK, IsRun
<1>7. run' = [run EXCEPT ![q] = r]
  BY <1>0 DEF e
<1>. HIDE DEF r
<1>8. Motion(q, r)
  BY <1>1, <1>5, <1>6 DEF Motion, RunOK, OneAnswer, NotUnderWay
<1>. QED
  BY <1>1, <1>3, <1>4, <1>7, <1>8, MotionKeepsInv

LEMMA FailInv == ASSUME IInv, NEW q \in Requests, Fail(q) PROVE IInv'
<1>1. /\ run[q].pc # "end" /\ ckpt' = ckpt /\ marker' = marker /\ acts' = acts
      /\ run' = [run EXCEPT ![q] = Ended(run[q], IF q \in Turns THEN "degraded" ELSE "executed")]
  BY DEF Fail
<1>2. CkptOK' /\ MarkerOK'
  BY <1>1 DEF IInv, CkptOK, MarkerOK
<1>. QED
  BY <1>1, <1>2, EndInv

(* Before the answer is delivered a request has run nothing.               *)
LEMMA FreshInv ==
    ASSUME IInv, NEW q \in Requests, NEW r, run[q].pc \in NotUnderWay, RunOK(q, r),
           run' = [run EXCEPT ![q] = r], ckpt' = ckpt, MarkerOK', acts' = acts
    PROVE  IInv'
<1>1. CkptOK'
  BY DEF IInv, CkptOK
<1>. QED
  BY <1>1, MotionKeepsInv DEF Motion

LEMMA AnswerInv ==
    ASSUME IInv, NEW q \in Resumes, NEW p \in Requests, NEW yes \in BOOLEAN, Answer(q, p, yes)
    PROVE  IInv'
<1>1. IsFiniteSet({})
  BY FS_EmptySet
<1>. DEFINE r == [Idle EXCEPT !.pc = "marker", !.for = run[p].thread, !.yes = yes,
                           !.says = run[p].asks]
<1>2. IsRun(r) /\ r.thread = NoThread /\ r.waiting = {} /\ r.answered = {}
  BY DEF Idle, IsRun
<1>3. /\ run[q].pc \in NotUnderWay /\ run' = [run EXCEPT ![q] = r]
      /\ ckpt' = ckpt /\ marker' = marker /\ acts' = acts /\ q \in Requests
  BY DEF Answer, NotUnderWay, Requests
<1>. HIDE DEF r
<1>4. RunOK(q, r)
  BY <1>1, <1>2 DEF RunOK, OneAnswer
<1>. QED
  BY <1>3, <1>4, FreshInv DEF IInv, MarkerOK

LEMMA GetMarkerInv == ASSUME IInv, NEW q \in Requests, GetMarker(q) PROVE IInv'
<1>1. /\ run[q].pc = "marker" /\ ckpt' = ckpt /\ marker' = marker /\ acts' = acts
  BY DEF GetMarker
<1>2. CkptOK' /\ MarkerOK' /\ run[q].pc \in NotUnderWay
  BY <1>1 DEF IInv, CkptOK, MarkerOK, NotUnderWay
<1>3. RunOK(q, run[q])
  BY DEF IInv, RunsOK
<1>4. CASE marker = "none"
  <2>1. run' = [run EXCEPT ![q] = Ended(run[q], "new_turn")]
    BY <1>4 DEF GetMarker
  <2>. QED
    BY <1>1, <1>2, <2>1, EndInv
<1>5. CASE marker = "cleared"
  <2>. DEFINE r == [run[q] EXCEPT !.pc = "clear"]
  <2>1. run' = [run EXCEPT ![q] = r]
    BY <1>5 DEF GetMarker
  <2>2. IsRun(r)
    BY <1>3 DEF RunOK, IsRun
  <2>3. r.thread = run[q].thread /\ r.waiting = run[q].waiting /\ r.answered = run[q].answered
    BY <1>3 DEF RunOK, IsRun
  <2>. HIDE DEF r
  <2>4. RunOK(q, r)
    BY <1>3, <2>2, <2>3 DEF RunOK, OneAnswer
  <2>. QED
    BY <1>1, <1>2, <2>1, <2>4, FreshInv
<1>6. CASE marker \in Turns /\ marker \notin {"none", "cleared"}
  <2>. DEFINE r == [run[q] EXCEPT !.pc = "clear", !.thread = marker]
  <2>1. run' = [run EXCEPT ![q] = r]
    BY <1>6 DEF GetMarker
  <2>2. IsRun(r)
    BY <1>3 DEF RunOK, IsRun
  <2>3. r.thread = marker /\ r.waiting = run[q].waiting /\ r.answered = run[q].answered
    BY <1>3 DEF RunOK, IsRun
  <2>. HIDE DEF r
  <2>4. RunOK(q, r)
    BY <1>3, <1>6, <2>2, <2>3 DEF RunOK, OneAnswer
  <2>. QED
    BY <1>1, <1>2, <2>1, <2>4, FreshInv
<1>. QED
  BY <1>4, <1>5, <1>6 DEF IInv, MarkerOK

LEMMA ClearMarkerInv == ASSUME IInv, NEW q \in Requests, ClearMarker(q) PROVE IInv'
<1>. DEFINE r == [run[q] EXCEPT !.pc = "resume"]
<1>1. RunOK(q, run[q])
  BY DEF IInv, RunsOK
<1>2. /\ run[q].pc \in NotUnderWay /\ run' = [run EXCEPT ![q] = r]
      /\ ckpt' = ckpt /\ acts' = acts /\ marker' \in {"cleared", marker}
  BY DEF ClearMarker, NotUnderWay
<1>3. IsRun(r)
  BY <1>1 DEF RunOK, IsRun
<1>4. r.thread = run[q].thread /\ r.waiting = run[q].waiting /\ r.answered = run[q].answered
  BY <1>1 DEF RunOK, IsRun
<1>. HIDE DEF r
<1>5. RunOK(q, r)
  BY <1>1, <1>3, <1>4 DEF RunOK, OneAnswer
<1>6. MarkerOK'
  BY <1>2 DEF IInv, MarkerOK
<1>. QED
  BY <1>2, <1>5, <1>6, FreshInv

(* A set with at most one element is contained in a singleton.             *)
LEMMA AtMostOne ==
    ASSUME NEW S, IsFiniteSet(S), ~ (Cardinality(S) > 1)
    PROVE  \E s : S \subseteq {s}
<1>1. Cardinality(S) \in Nat
  BY FS_CardinalityType
<1>2. CASE Cardinality(S) = 0
  BY <1>2, FS_EmptySet
<1>3. CASE Cardinality(S) = 1
  BY <1>3, FS_Singleton
<1>. QED
  BY <1>1, <1>2, <1>3

(* The answer is delivered to the one step that asks, or not at all.       *)
LEMMA ResumeTurnInv == ASSUME IInv, NEW q \in Resumes, ResumeTurn(q) PROVE IInv'
<1>. DEFINE t == run[q].thread
<1>0. q \in Requests /\ q \notin Turns
  BY RequestAssumption DEF Requests
<1>1. RunOK(q, run[q])
  BY <1>0 DEF IInv, RunsOK
<1>2. run[q].pc = "resume" /\ ckpt' = ckpt /\ marker' = marker /\ acts' = acts
  BY DEF ResumeTurn
<1>3. CkptOK' /\ MarkerOK' /\ run[q].pc \in NotUnderWay
  BY <1>2 DEF IInv, CkptOK, MarkerOK, NotUnderWay
<1>4. CASE t = NoThread \/ Cardinality(ckpt[t].waiting) > 1
  <2>1. run' = [run EXCEPT ![q] = Ended(run[q], "executed")]
    BY <1>4 DEF ResumeTurn
  <2>. QED
    BY <1>0, <1>2, <1>3, <2>1, EndInv
<1>5. CASE t # NoThread /\ ~ (Cardinality(ckpt[t].waiting) > 1) /\ ckpt[t].pc = "end"
  <2>1. run' = [run EXCEPT ![q] = Ended(run[q], ckpt[t].status)]
    BY <1>5 DEF ResumeTurn
  <2>. QED
    BY <1>0, <1>2, <1>3, <2>1, EndInv
<1>6. CASE t # NoThread /\ ~ (Cardinality(ckpt[t].waiting) > 1) /\ ckpt[t].pc # "end"
  <2>. DEFINE r == [run[q] EXCEPT !.pc = IF ckpt[t].pc = "pause" THEN "steps" ELSE ckpt[t].pc,
                                  !.plan = ckpt[t].plan, !.result = ckpt[t].result,
                                  !.todo = ckpt[t].todo, !.answered = ckpt[t].waiting,
                                  !.picked = ckpt[t].picked, !.wave = ckpt[t].wave, !.unrouted = ckpt[t].unrouted,
                                  !.status = ckpt[t].status]
  <2>1. run' = [run EXCEPT ![q] = r]
    BY <1>6 DEF ResumeTurn
  <2>2. IsRun(r)
    BY <1>1 DEF RunOK, IsRun
  <2>3. r.thread = t /\ r.waiting = run[q].waiting /\ r.answered = ckpt[t].waiting
    BY <1>1 DEF RunOK, IsRun
  <2>. HIDE DEF r
  <2>4. t \in Turns /\ IsFiniteSet(ckpt[t].waiting)
    BY <1>1, <1>6 DEF RunOK, IInv, CkptOK
  <2>5. \E s : r.answered \subseteq {s}
    BY <1>6, <2>3, <2>4, AtMostOne
  <2>6. RunOK(q, r)
    BY <1>0, <1>1, <2>2, <2>3, <2>4, <2>5 DEF RunOK, OneAnswer
  <2>. QED
    BY <1>0, <1>2, <1>3, <2>1, <2>6, FreshInv
<1>. QED
  BY <1>4, <1>5, <1>6

LEMMA ExpireMarkerInv == ASSUME IInv, ExpireMarker PROVE IInv'
  BY DEF ExpireMarker, IInv, RunsOK, CkptOK, MarkerOK, ActsOK, ActOK

LEMMA StutterInv == ASSUME IInv, UNCHANGED vars PROVE IInv'
  BY DEF vars, IInv, RunsOK, CkptOK, MarkerOK, ActsOK, ActOK

LEMMA HandleInv == ASSUME IInv, NEW q \in Requests, Handle(q) PROVE IInv'
<1>1. CASE Step(q)
  <2>1. PICK s \in run[q].todo :
           \/ Refuse(q, s) \/ Block(q, s) \/ Ask(q, s)
           \/ Decline(q, s) \/ Work(q, s) \/ Catalog(q, s)
    BY <1>1 DEF Step
  <2>. QED
    BY <2>1, QuietStepInv, WorkInv, CatalogInv
<1>2. CASE Deliver(q)
  BY <1>2, GetMarkerInv, ClearMarkerInv, ResumeTurnInv DEF Deliver
<1>3. CASE Wave(q) \/ EndWave(q) \/ Aggregate(q) \/ Persist(q) \/ Pause(q)
  BY <1>3, WaveInv, EndWaveInv, AggregateInv, PersistInv, PauseInv
<1>. QED
  BY <1>1, <1>2, <1>3 DEF Handle

LEMMA NextInv == IInv /\ [Next]_vars => IInv'
<1>. SUFFICES ASSUME IInv, [Next]_vars PROVE IInv'
  OBVIOUS
<1>1. CASE UNCHANGED vars
  BY <1>1, StutterInv
<1>2. CASE \E t \in Turns : Submit(t)
  BY <1>2, SubmitInv
<1>3. CASE \E q \in Resumes, p \in Requests, yes \in BOOLEAN : Answer(q, p, yes)
  BY <1>3, AnswerInv
<1>4. CASE \E q \in Requests : Handle(q) \/ Fail(q)
  BY <1>4, HandleInv, FailInv
<1>5. CASE ExpireMarker
  BY <1>5, ExpireMarkerInv
<1>. QED
  BY <1>1, <1>2, <1>3, <1>4, <1>5 DEF Next

------------------------------------------------------------------------------
(* An action is only carried out in a resume whose user said yes to the    *)
(* executor's gate or to the catalogue's confirmation, and one yes never   *)
(* pays for a second action: for all turns, answers, plans and follow-ups, *)
(* however the resumes of a thread are interleaved.                        *)
THEOREM ApprovalSafe == Spec => []OneActionPerApproval
<1>1. IInv => OneActionPerApproval
  BY DEF IInv, ActsOK, ActOK, OneActionPerApproval
<1>. QED
  BY <1>1, InitInv, NextInv, PTL DEF Spec
------------------------------------------------------------------------------
(* The data flow of a plan.                                                *)
(*                                                                         *)
(* StepsAfterDeps and ExecutedIsComplete are about the invocations, which  *)
(* go on from what a checkpoint kept: both are sound, or neither stays so. *)
(* Sound adds what the wave promises, that the steps left in it are        *)
(* planned, have no result and depend on steps that have one.              *)

Complete(r) == \A s \in DOMAIN r.plan : s \in Done(r) /\ r.result[s] \in {"success", "canned"}

ResultsSound(r) ==
    /\ Done(r) \subseteq DOMAIN r.plan
    /\ \A s \in Done(r) : /\ r.result[s] \in Statuses /\ r.plan[s].deps \subseteq Done(r)
                          /\ r.result[s] = "success" => Bound(r, s)

WaveSound(r) ==
    \A s \in r.todo : s \in DOMAIN r.plan \ Done(r) /\ r.plan[s].deps \subseteq Done(r)

Sound(r) ==
    /\ ResultsSound(r)
    /\ WaveSound(r)
    /\ r.pc = "persist" /\ r.status = "executed" => Complete(r)

FlowOK ==
    /\ \A q \in Requests : Sound(run[q])
    /\ \A t \in Turns : Sound(ckpt[t])

(* Soundness is about the plan, the results, the wave and the verdict.     *)
LEMMA SameFrame ==
    ASSUME NEW r, NEW c, Sound(c), r.plan = c.plan, r.result = c.result, r.todo = c.todo,
           r.pc # "persist" \/ (r.pc = c.pc /\ r.status = c.status)
    PROVE  Sound(r)
  BY DEF Sound, ResultsSound, WaveSound, Complete, Done, Bound

(* A turn without steps is sound until somebody calls it executed.         *)
LEMMA EmptyIsSound ==
    ASSUME NEW r, r.plan = <<>>, r.result = <<>>, r.todo = {},
           r.pc # "persist" \/ r.status # "executed"
    PROVE  Sound(r)
  BY DEF Sound, ResultsSound, WaveSound, Done

LEMMA EndedIsSound == ASSUME NEW r, NEW status PROVE Sound(Ended(r, status))
<1>. DEFINE e == Ended(r, status)
<1>1. e.plan = <<>> /\ e.result = <<>> /\ e.todo = {} /\ e.pc = "end"
  BY DEF Ended, Idle
<1>. HIDE DEF e
<1>2. Sound(e)
  BY <1>1, EmptyIsSound
<1>. QED
  BY <1>2 DEF e

LEMMA SavedIsSound == ASSUME NEW r, Sound(r) PROVE Sound(Saved(r))
<1>. DEFINE c == Saved(r)
<1>1. c.plan = r.plan /\ c.result = r.result /\ c.todo = r.todo /\ c.pc = r.pc
      /\ c.status = r.status
  BY DEF Saved
<1>. HIDE DEF c
<1>2. Sound(c)
  BY <1>1, SameFrame
<1>. QED
  BY <1>2 DEF c

LEMMA SaveFlow ==
    ASSUME IInv, FlowOK, NEW q \in Requests, NEW r, Sound(r), Save(q, r)
    PROVE  FlowOK'
<1>1. \A p \in Requests : run'[p] = IF p = q THEN r ELSE run[p]
  BY DEF IInv, RunsOK, Save
<1>2. \A t \in Turns : ckpt'[t] = IF t = r.thread THEN Saved(r) ELSE ckpt[t]
  BY DEF IInv, CkptOK, Save
<1>3. \A p \in Requests : Sound(run'[p])
  BY <1>1 DEF FlowOK
<1>4. \A t \in Turns : Sound(ckpt'[t])
  BY <1>2, SavedIsSound DEF FlowOK
<1>. QED
  BY <1>3, <1>4 DEF FlowOK

LEMMA MoveFlow ==
    ASSUME IInv, FlowOK, NEW q \in Requests, NEW r, Sound(r), run' = [run EXCEPT ![q] = r],
           ckpt' = ckpt
    PROVE  FlowOK'
<1>1. \A p \in Requests : run'[p] = IF p = q THEN r ELSE run[p]
  BY DEF IInv, RunsOK
<1>2. \A p \in Requests : Sound(run'[p])
  BY <1>1 DEF FlowOK
<1>. QED
  BY <1>2 DEF FlowOK

LEMMA InitFlow == Init => FlowOK
<1>1. Idle.plan = <<>> /\ Idle.result = <<>> /\ Idle.todo = {} /\ Idle.pc = "idle"
  BY DEF Idle
<1>2. Sound(Idle)
  BY <1>1, EmptyIsSound
<1>3. Sound(Saved(Idle))
  BY <1>2, SavedIsSound
<1>. QED
  BY <1>2, <1>3 DEF Init, FlowOK

(* The result of a step is added to the others, its follow-ups to the plan.*)
LEMMA FinishFlow ==
    ASSUME IInv, FlowOK, NEW q \in Requests, NEW s \in run[q].todo, NEW status \in Statuses,
           NEW generated, run[q].pc = "steps", Finish(q, s, status, generated),
           status = "success" => Bound(run[q], s)
    PROVE  FlowOK'
<1>. DEFINE p == run[q]
            r == [p EXCEPT !.result = MergeStepResults(@, s, status),
                           !.todo = @ \ {s},
                           !.plan = MergePlan(@, generated)]
<1>1. IsRun(p) /\ Sound(p)
  BY DEF IInv, RunsOK, RunOK, FlowOK
<1>2. Save(q, r)
  BY DEF Finish
<1>3. /\ r.pc = "steps" /\ r.todo = p.todo \ {s}
      /\ r.result = MergeStepResults(p.result, s, status) /\ r.plan = MergePlan(p.plan, generated)
  BY <1>1 DEF IsRun
<1>. HIDE DEF r
<1>4. /\ DOMAIN r.result = DOMAIN p.result \cup {s}
      /\ r.result[s] = status
      /\ \A d \in DOMAIN p.result : d # s => r.result[d] = p.result[d]
  BY <1>3 DEF MergeStepResults
<1>5. /\ DOMAIN p.plan \subseteq DOMAIN r.plan
      /\ \A d \in DOMAIN p.plan : r.plan[d] = p.plan[d]
  BY <1>3 DEF MergePlan
<1>6. s \in DOMAIN p.plan \ DOMAIN p.result /\ p.plan[s].deps \subseteq DOMAIN p.result
  BY <1>1 DEF Sound, WaveSound, Done
<1>. HIDE DEF p
<1>7. ResultsSound(r)
  <2>1. ASSUME NEW d \in Done(r)
        PROVE  /\ d \in DOMAIN r.plan /\ r.result[d] \in Statuses
               /\ r.plan[d].deps \subseteq Done(r)
               /\ r.result[d] = "success" => Bound(r, d)
    <3>1. CASE d = s
      BY <1>4, <1>5, <1>6, <3>1 DEF Done, Bound, p
    <3>2. CASE d # s
      <4>1. d \in DOMAIN p.result
        BY <1>4, <3>2 DEF Done
      <4>. QED
        BY <1>1, <1>4, <1>5, <1>6, <3>2, <4>1 DEF Sound, ResultsSound, Done, Bound
    <3>. QED
      BY <3>1, <3>2
  <2>. QED
    BY <2>1 DEF ResultsSound
<1>8. WaveSound(r)
  BY <1>1, <1>3, <1>4, <1>5 DEF Sound, WaveSound, Done
<1>9. Sound(r)
  BY <1>3, <1>7, <1>8 DEF Sound
<1>. QED
  BY <1>2, <1>9, SaveFlow

LEMMA SubmitFlow == ASSUME IInv, FlowOK, NEW t \in Turns, Submit(t) PROVE FlowOK'
<1>0. t \in Requests
  BY DEF Requests
<1>1. ASSUME NEW p \in Plans,
             Save(t, [Idle EXCEPT !.pc = "wave", !.thread = t, !.for = t, !.plan = p.steps,
                                  !.unrouted = p.unrouted])
      PROVE  FlowOK'
  <2>. DEFINE r == [Idle EXCEPT !.pc = "wave", !.thread = t, !.for = t, !.plan = p.steps,
                                !.unrouted = p.unrouted]
  <2>1. r.result = <<>> /\ r.todo = {} /\ r.pc = "wave"
    BY DEF Idle
  <2>2. Save(t, r)
    BY <1>1
  <2>. HIDE DEF r
  <2>3. Sound(r)
    BY <2>1 DEF Sound, ResultsSound, WaveSound, Done
  <2>. QED
    BY <1>0, <2>2, <2>3, SaveFlow
<1>2. CASE Save(t, [Idle EXCEPT !.pc = "persist", !.thread = t, !.for = t,
                                !.status = "clarification"])
  <2>. DEFINE r == [Idle EXCEPT !.pc = "persist", !.thread = t, !.for = t,
                                !.status = "clarification"]
  <2>1. r.plan = <<>> /\ r.result = <<>> /\ r.todo = {} /\ r.status = "clarification"
    BY DEF Idle
  <2>2. Save(t, r)
    BY <1>2
  <2>. HIDE DEF r
  <2>3. Sound(r)
    BY <2>1, EmptyIsSound
  <2>. QED
    BY <1>0, <2>2, <2>3, SaveFlow
<1>. QED
  BY <1>1, <1>2 DEF Submit

(* The next wave is made of steps whose dependencies have results.         *)
LEMMA WaveFlow == ASSUME IInv, FlowOK, NEW q \in Requests, Wave(q) PROVE FlowOK'
<1>1. IsRun(run[q]) /\ Sound(run[q])
  BY DEF IInv, RunsOK, RunOK, FlowOK
<1>2. CASE Save(q, [run[q] EXCEPT !.pc = "aggregate"])
  <2>. DEFINE r == [run[q] EXCEPT !.pc = "aggregate"]
  <2>1. /\ r.plan = run[q].plan /\ r.result = run[q].result /\ r.todo = run[q].todo
        /\ r.pc = "aggregate"
    BY <1>1 DEF IsRun
  <2>2. Save(q, r)
    BY <1>2
  <2>. HIDE DEF r
  <2>3. Sound(r)
    BY <1>1, <2>1, SameFrame
  <2>. QED
    BY <2>2, <2>3, SaveFlow
<1>3. CASE Save(q, [run[q] EXCEPT !.pc = "steps", !.todo = Runnable(run[q]), !.wave = @ + 1])
  <2>. DEFINE r == [run[q] EXCEPT !.pc = "steps", !.todo = Runnable(run[q]), !.wave = @ + 1]
  <2>1. /\ r.plan = run[q].plan /\ r.result = run[q].result /\ r.todo = Runnable(run[q])
        /\ r.pc = "steps"
    BY <1>1 DEF IsRun
  <2>2. Save(q, r)
    BY <1>3
  <2>. HIDE DEF r
  <2>3. ResultsSound(r)
    BY <1>1, <2>1 DEF Sound, ResultsSound, Done, Bound
  <2>4. WaveSound(r)
    BY <2>1 DEF WaveSound, Runnable, Done
  <2>5. Sound(r)
    BY <2>1, <2>3, <2>4 DEF Sound
  <2>. QED
    BY <2>2, <2>5, SaveFlow
<1>. QED
  BY <1>2, <1>3 DEF Wave

LEMMA StepFlow ==
    ASSUME IInv, FlowOK, NEW q \in Requests, NEW s \in run[q].todo,
           \/ Refuse(q, s) \/ Block(q, s) \/ Ask(q, s)
           \/ Decline(q, s) \/ Work(q, s) \/ Catalog(q, s)
    PROVE  FlowOK'
<1>0. run[q].pc = "steps"
  BY DEF Refuse, Block, Ask, Decline, Work, Catalog, InWave
<1>1. CASE Refuse(q, s)
  <2>1. PICK status \in Refusals : Finish(q, s, status, <<>>)
    BY <1>1 DEF Refuse
  <2>2. status \in Statuses /\ status # "success"
    BY RefusalAssumption DEF Statuses
  <2>. QED
    BY <1>0, <2>1, <2>2, FinishFlow
<1>2. CASE Block(q, s)
  BY <1>0, <1>2, FinishFlow DEF Block, Statuses
<1>3. CASE Decline(q, s)
  BY <1>0, <1>3, FinishFlow DEF Decline, Statuses
<1>4. CASE Work(q, s)
  <2>1. Bound(run[q], s)
    BY <1>4 DEF Work
  <2>2. PICK status, generated : status \in Statuses /\ Finish(q, s, status, generated)
    BY <1>4 DEF Work, Statuses
  <2>. QED
    BY <1>0, <2>1, <2>2, FinishFlow
<1>5. IsRun(run[q]) /\ Sound(run[q])
  BY DEF IInv, RunsOK, RunOK, FlowOK
<1>6. CASE Ask(q, s)
  <2>. DEFINE r == [run[q] EXCEPT !.waiting = @ \cup {s}]
  <2>1. /\ r.plan = run[q].plan /\ r.result = run[q].result /\ r.todo = run[q].todo
        /\ r.pc = run[q].pc /\ r.status = run[q].status
    BY <1>5 DEF IsRun
  <2>2. Save(q, r)
    BY <1>6 DEF Ask
  <2>. HIDE DEF r
  <2>3. Sound(r)
    BY <1>5, <2>1, SameFrame
  <2>. QED
    BY <2>2, <2>3, SaveFlow
<1>7. CASE Catalog(q, s)
  <2>1. CASE \E status \in {"success", "failed"} : Finish(q, s, status, <<>>)
    BY <1>0, <1>7, <2>1, FinishFlow DEF Catalog, Statuses
  <2>2. CASE Save(q, [run[q] EXCEPT !.waiting = @ \cup {s}, !.answered = @ \ {s},
                                    !.picked = @ \cup {s}])
    <3>. DEFINE r == [run[q] EXCEPT !.waiting = @ \cup {s}, !.answered = @ \ {s},
                                    !.picked = @ \cup {s}]
    <3>1. /\ r.plan = run[q].plan /\ r.result = run[q].result /\ r.todo = run[q].todo
          /\ r.pc = run[q].pc /\ r.status = run[q].status
      BY <1>5 DEF IsRun
    <3>2. Save(q, r)
      BY <2>2
    <3>. HIDE DEF r
    <3>3. Sound(r)
      BY <1>5, <3>1, SameFrame
    <3>. QED
      BY <3>2, <3>3, SaveFlow
  <2>. QED
    BY <1>7, <2>1, <2>2 DEF Catalog
<1>. QED
  BY <1>1, <1>2, <1>3, <1>4, <1>6, <1>7

LEMMA EndWaveFlow == ASSUME IInv, FlowOK, NEW q \in Requests, EndWave(q) PROVE FlowOK'
<1>. DEFINE r == [run[q] EXCEPT !.pc = IF run[q].waiting = {} THEN "wave" ELSE "pause"]
<1>1. IsRun(run[q]) /\ Sound(run[q])
  BY DEF IInv, RunsOK, RunOK, FlowOK
<1>2. /\ r.plan = run[q].plan /\ r.result = run[q].result /\ r.todo = run[q].todo
      /\ r.pc # "persist"
  BY <1>1 DEF IsRun
<1>3. Save(q, r)
  BY DEF EndWave
<1>. HIDE DEF r
<1>4. Sound(r)
  BY <1>1, <1>2, SameFrame
<1>. QED
  BY <1>3, <1>4, SaveFlow

(* aggregate says executed only of results that all are good, and counts a *)
(* step without a result as blocked.                                       *)
LEMMA ExecutedIsGood ==
    ASSUME NEW results, NEW unrouted, OverallStatus(results, unrouted) = "executed"
    PROVE  results \cap {"failed", "denied", "blocked"} = {}
  BY DEF OverallStatus

LEMMA AggregateFlow == ASSUME IInv, FlowOK, NEW q \in Requests, Aggregate(q) PROVE FlowOK'
<1>. DEFINE p == run[q]
            Reported(s) == IF s \in Done(p) THEN p.result[s] ELSE "blocked"
            reports == {Reported(s) : s \in DOMAIN p.plan}
            verdict == OverallStatus(reports, p.unrouted)
            r == [p EXCEPT !.pc = "persist", !.status = verdict]
<1>1. IsRun(p) /\ Sound(p)
  BY DEF IInv, RunsOK, RunOK, FlowOK
<1>2. Save(q, r)
  BY DEF Aggregate
<1>3. verdict = "executed" => reports \cap {"failed", "denied", "blocked"} = {}
  BY ExecutedIsGood
<1>4. verdict = "executed" => Complete(p)
  <2>. SUFFICES ASSUME verdict = "executed", NEW s \in DOMAIN p.plan
                PROVE  s \in Done(p) /\ p.result[s] \in {"success", "canned"}
    BY DEF Complete
  <2>1. Reported(s) \notin {"failed", "denied", "blocked"}
    BY <1>3
  <2>2. s \in Done(p)
    BY <2>1
  <2>3. p.result[s] \in Statuses
    BY <1>1, <2>2 DEF Sound, ResultsSound
  <2>. QED
    BY <2>1, <2>2, <2>3 DEF Statuses
<1>. HIDE DEF verdict
<1>5. /\ r.plan = p.plan /\ r.result = p.result /\ r.todo = p.todo
      /\ r.status = verdict
  BY <1>1 DEF IsRun
<1>. HIDE DEF r, p
<1>6. Sound(r)
  BY <1>1, <1>4, <1>5 DEF Sound, ResultsSound, WaveSound, Complete, Done, Bound
<1>. QED
  BY <1>2, <1>6, SaveFlow

LEMMA PersistFlow == ASSUME IInv, FlowOK, NEW q \in Requests, Persist(q) PROVE FlowOK'
<1>. DEFINE c == [Saved(run[q]) EXCEPT !.pc = "end"]
<1>1. Sound(run[q])
  BY DEF FlowOK
<1>2. /\ c.plan = run[q].plan /\ c.result = run[q].result /\ c.todo = run[q].todo
      /\ c.pc = "end"
  BY DEF Saved
<1>3. /\ run' = [run EXCEPT ![q] = Ended(run[q], run[q].status)]
      /\ ckpt' = [ckpt EXCEPT ![run[q].thread] = c]
  BY DEF Persist
<1>. HIDE DEF c
<1>4. Sound(c) /\ Sound(Ended(run[q], run[q].status))
  BY <1>1, <1>2, SameFrame, EndedIsSound
<1>5. \A p \in Requests : Sound(run'[p])
  BY <1>3, <1>4 DEF IInv, RunsOK, FlowOK
<1>6. \A t \in Turns : Sound(ckpt'[t])
  BY <1>3, <1>4 DEF IInv, CkptOK, FlowOK
<1>. QED
  BY <1>5, <1>6 DEF FlowOK

LEMMA EndFlow ==
    ASSUME IInv, FlowOK, NEW q \in Requests, Pause(q) \/ Fail(q)
    PROVE  FlowOK'
<1>1. CASE Fail(q)
  BY <1>1, EndedIsSound, MoveFlow DEF Fail
<1>2. CASE Pause(q)
  <2>1. PICK asks : run' = [run EXCEPT ![q] = [Ended(run[q], "interrupted") EXCEPT !.asks = asks]]
    BY <1>2 DEF Pause
  <2>. DEFINE r == [Ended(run[q], "interrupted") EXCEPT !.asks = asks]
  <2>2. r.plan = <<>> /\ r.result = <<>> /\ r.todo = {} /\ r.pc = "end"
    BY DEF Ended, Idle
  <2>3. run' = [run EXCEPT ![q] = r] /\ ckpt' = ckpt
    BY <1>2, <2>1 DEF Pause
  <2>. HIDE DEF r
  <2>4. Sound(r)
    BY <2>2, EmptyIsSound
  <2>. QED
    BY <2>3, <2>4, MoveFlow
<1>. QED
  BY <1>1, <1>2

LEMMA AnswerFlow ==
    ASSUME IInv, FlowOK, NEW q \in Resumes, NEW p \in Requests, NEW yes \in BOOLEAN, Answer(q, p, yes)
    PROVE  FlowOK'
<1>. DEFINE r == [Idle EXCEPT !.pc = "marker", !.for = run[p].thread, !.yes = yes,
                           !.says = run[p].asks]
<1>1. r.plan = <<>> /\ r.result = <<>> /\ r.todo = {} /\ r.pc = "marker"
  BY DEF Idle
<1>2. run' = [run EXCEPT ![q] = r] /\ ckpt' = ckpt /\ q \in Requests
  BY DEF Answer, Requests
<1>. HIDE DEF r
<1>3. Sound(r)
  BY <1>1, EmptyIsSound
<1>. QED
  BY <1>2, <1>3, MoveFlow

LEMMA MarkerFlow ==
    ASSUME IInv, FlowOK, NEW q \in Requests, GetMarker(q) \/ ClearMarker(q)
    PROVE  FlowOK'
<1>1. IsRun(run[q]) /\ Sound(run[q])
  BY DEF IInv, RunsOK, RunOK, FlowOK
<1>2. \/ run' = [run EXCEPT ![q] = Ended(run[q], "new_turn")]
      \/ run' = [run EXCEPT ![q] = [run[q] EXCEPT !.pc = "clear"]]
      \/ run' = [run EXCEPT ![q] = [run[q] EXCEPT !.pc = "clear", !.thread = marker]]
      \/ run' = [run EXCEPT ![q] = [run[q] EXCEPT !.pc = "resume"]]
  BY <1>1 DEF GetMarker, ClearMarker
<1>3. ckpt' = ckpt
  BY DEF GetMarker, ClearMarker
<1>4. ASSUME NEW r, run' = [run EXCEPT ![q] = r], r.pc \in {"clear", "resume"},
             r.plan = run[q].plan, r.result = run[q].result, r.todo = run[q].todo
      PROVE  FlowOK'
  BY <1>1, <1>3, <1>4, SameFrame, MoveFlow
<1>5. CASE run' = [run EXCEPT ![q] = Ended(run[q], "new_turn")]
  BY <1>3, <1>5, EndedIsSound, MoveFlow
<1>6. CASE run' = [run EXCEPT ![q] = [run[q] EXCEPT !.pc = "clear"]]
  BY <1>1, <1>4, <1>6 DEF IsRun
<1>7. CASE run' = [run EXCEPT ![q] = [run[q] EXCEPT !.pc = "clear", !.thread = marker]]
  BY <1>1, <1>4, <1>7 DEF IsRun
<1>8. CASE run' = [run EXCEPT ![q] = [run[q] EXCEPT !.pc = "resume"]]
  BY <1>1, <1>4, <1>8 DEF IsRun
<1>. QED
  BY <1>2, <1>5, <1>6, <1>7, <1>8

(* A resumed invocation takes over what the checkpoint kept.               *)
LEMMA ResumeTurnFlow == ASSUME IInv, FlowOK, NEW q \in Resumes, ResumeTurn(q) PROVE FlowOK'
<1>. DEFINE t == run[q].thread
<1>0. q \in Requests
  BY DEF Requests
<1>1. IsRun(run[q]) /\ t \in Turns \cup {NoThread} /\ ckpt' = ckpt
  BY <1>0 DEF IInv, RunsOK, RunOK, ResumeTurn
<1>2. CASE \E status : run' = [run EXCEPT ![q] = Ended(run[q], status)]
  BY <1>0, <1>1, <1>2, EndedIsSound, MoveFlow
<1>3. CASE t \in Turns /\ run' = [run EXCEPT ![q] =
                [run[q] EXCEPT !.pc = IF ckpt[t].pc = "pause" THEN "steps" ELSE ckpt[t].pc,
                               !.plan = ckpt[t].plan, !.result = ckpt[t].result,
                               !.todo = ckpt[t].todo, !.answered = ckpt[t].waiting,
                               !.picked = ckpt[t].picked, !.wave = ckpt[t].wave, !.unrouted = ckpt[t].unrouted,
                               !.status = ckpt[t].status]]
  <2>. DEFINE r == [run[q] EXCEPT !.pc = IF ckpt[t].pc = "pause" THEN "steps" ELSE ckpt[t].pc,
                                  !.plan = ckpt[t].plan, !.result = ckpt[t].result,
                                  !.todo = ckpt[t].todo, !.answered = ckpt[t].waiting,
                                  !.picked = ckpt[t].picked, !.wave = ckpt[t].wave, !.unrouted = ckpt[t].unrouted,
                                  !.status = ckpt[t].status]
  <2>1. run' = [run EXCEPT ![q] = r]
    BY <1>3
  <2>2. /\ r.plan = ckpt[t].plan /\ r.result = ckpt[t].result /\ r.todo = ckpt[t].todo
        /\ r.pc = (IF ckpt[t].pc = "pause" THEN "steps" ELSE ckpt[t].pc)
        /\ r.status = ckpt[t].status
    BY <1>1 DEF IsRun
  <2>. HIDE DEF r
  <2>3. Sound(ckpt[t])
    BY <1>3 DEF FlowOK
  <2>4. Sound(r)
    BY <2>2, <2>3, SameFrame
  <2>. QED
    BY <1>0, <1>1, <2>1, <2>4, MoveFlow
<1>4. CASE t = NoThread \/ Cardinality(ckpt[t].waiting) > 1 \/ ckpt[t].pc = "end"
  BY <1>2, <1>4 DEF ResumeTurn
<1>5. CASE ~ (t = NoThread \/ Cardinality(ckpt[t].waiting) > 1 \/ ckpt[t].pc = "end")
  BY <1>1, <1>3, <1>5 DEF ResumeTurn
<1>. QED
  BY <1>4, <1>5

LEMMA NextFlow == IInv /\ FlowOK /\ [Next]_vars => FlowOK'
<1>. SUFFICES ASSUME IInv, FlowOK, [Next]_vars PROVE FlowOK'
  OBVIOUS
<1>1. CASE UNCHANGED vars \/ ExpireMarker
  BY <1>1 DEF vars, ExpireMarker, FlowOK
<1>2. CASE \E t \in Turns : Submit(t)
  BY <1>2, SubmitFlow
<1>3. CASE \E q \in Resumes, p \in Requests, yes \in BOOLEAN : Answer(q, p, yes)
  BY <1>3, AnswerFlow
<1>4. ASSUME NEW q \in Requests, Handle(q) \/ Fail(q) PROVE FlowOK'
  <2>1. CASE Step(q)
    BY <2>1, StepFlow DEF Step
  <2>2. CASE Deliver(q)
    BY <2>2, MarkerFlow, ResumeTurnFlow DEF Deliver
  <2>3. CASE Wave(q) \/ EndWave(q) \/ Aggregate(q) \/ Persist(q) \/ Pause(q) \/ Fail(q)
    BY <2>3, WaveFlow, EndWaveFlow, AggregateFlow, PersistFlow, EndFlow
  <2>. QED
    BY <1>4, <2>1, <2>2, <2>3 DEF Handle
<1>. QED
  BY <1>1, <1>2, <1>3, <1>4 DEF Next

(* Checkpoints and invocations stay sound, whichever requests share a      *)
(* thread.                                                                 *)
THEOREM FlowInvariant == Spec => [](IInv /\ FlowOK)
  BY InitInv, InitFlow, NextInv, NextFlow, PTL DEF Spec

(* A step has a result only when all it depends on has one, and its        *)
(* handler ran only on outputs that exist: for every plan, for follow-ups  *)
(* that any handler returns, and across any number of pauses and resumes.  *)
THEOREM WavesFollowData == Spec => []StepsAfterDeps
<1>1. FlowOK => StepsAfterDeps
  BY DEF FlowOK, Sound, ResultsSound, StepsAfterDeps
<1>. QED
  BY <1>1, FlowInvariant, PTL

(* A turn that aggregate calls executed did all its steps, also when it    *)
(* was resumed from a checkpoint between aggregate and persist.            *)
THEOREM ExecutedMeansDone == Spec => []ExecutedIsComplete
<1>1. FlowOK => ExecutedIsComplete
  BY DEF FlowOK, Sound, Complete, ExecutedIsComplete
<1>. QED
  BY <1>1, FlowInvariant, PTL

-----------------------------------------------------------------------------
(***************************************************************************)
(* SessionStore: the Postgres log keeps what was acknowledged, nothing is  *)
(* shown that the log did not take, and nothing is shown out of order.     *)
(* Every copy of the log in flight has stored events only, in order.       *)
(***************************************************************************)

Events == Writers \X Nat

InOrder(s) ==
  \A i, j \in 1 .. Len(s) : i < j /\ s[i][1] = s[j][1] => s[i][2] <= s[j][2]

(* The shapes the induction needs. *)
StoreTypeOK ==
  /\ cold \in Seq(Events)
  /\ hot \in Seq(Events)
  /\ stored \in SUBSET Events
  /\ acked \in SUBSET Events
  /\ writer \in [Writers -> [pc : {"cold", "exists", "push", "failed"}, n : Nat]]
  /\ reader \in [Readers -> [pc : {"idle", "range", "cold", "replace"}, got : Seq(Events)]]
  /\ pruner \in [pc : {"idle", "rewrite"}, kept : Seq(Events)]

Good(s) == Elems(s) \subseteq stored /\ InOrder(s)

(* Every copy of the log, the one the retention job holds included, has    *)
(* stored events only, in order.                                           *)
CopiesOK ==
  /\ Good(cold) /\ Good(hot) /\ Good(pruner.kept)
  /\ \A r \in Readers : Good(reader[r].got)

(* A writer past its cold append has stored the event it pushes next, and  *)
(* stored nothing later.                                                   *)
WritersOK ==
  /\ \A e \in stored : e[2] <= writer[e[1]].n + 1
  /\ \A w \in Writers : writer[w].pc \in {"exists", "push"} => Event(w) \in stored

(* Only the Dragonfly log is rewritten from a copy; in the Postgres log the*)
(* acknowledged events are kept, and the ones about to be acknowledged.    *)
RecordOK ==
  /\ pruner.pc = "rewrite" => backend = "dragonfly"
  /\ backend = "postgres" =>
       /\ acked \subseteq Elems(cold) \cup aged
       /\ \A w \in Writers : writer[w].pc \in {"exists", "push"} => Event(w) \in Elems(cold) \cup aged

StoreInv == StoreTypeOK /\ CopiesOK /\ WritersOK /\ RecordOK

-----------------------------------------------------------------------------
(* Lemmas about sequences *)

(* A set of naturals has a least element: induction in the form the        *)
(* provers can use.                                                        *)
LEMMA Least ==
  ASSUME NEW T, T \subseteq Nat, T # {}
  PROVE  \E x \in T : \A y \in T : x <= y
<1> DEFINE R == OpToRel(<, Nat)
<1>1. IsWellFoundedOn(R, Nat)
  BY NatLessThanWellFounded
<1>2. \A x, y \in Nat : y < x => <<y, x>> \in R
  BY DEF OpToRel
<1> HIDE DEF R
<1>3. \E x \in T : \A y \in T : ~ (<<y, x>> \in R)
  BY <1>1, WFMin
<1>4. PICK x \in T : \A y \in T : ~ (<<y, x>> \in R)
  BY <1>3
<1>5. ASSUME NEW y \in T PROVE x <= y
  <2>1. x \in Nat /\ y \in Nat
    OBVIOUS
  <2>2. ~ (y < x)
    BY <1>2, <1>4, <2>1
  <2> QED BY <2>1, <2>2
<1> QED BY <1>5

(* The positions of a set of indices: the k-th one exists, and later       *)
(* positions have higher rank.                                             *)
LEMMA Ranks ==
  ASSUME NEW n \in Nat, NEW K \in SUBSET (1 .. n)
  PROVE  LET rank(i) == Cardinality({j \in K : j <= i}) IN
         /\ Cardinality(K) \in Nat
         /\ \A i \in 0 .. n : rank(i) \in Nat
         /\ \A i \in K : rank(i) \in 1 .. Cardinality(K)
         /\ \A k \in 1 .. Cardinality(K) : \E i \in K : rank(i) = k
         /\ \A i, j \in K : i < j => rank(i) < rank(j)
<1> DEFINE upto(i) == {j \in K : j <= i}
           rank(i) == Cardinality(upto(i))
<1>0. \A j \in K : j \in Int /\ 1 <= j /\ j <= n
  OBVIOUS
<1>1. IsFiniteSet(K) /\ Cardinality(K) \in Nat
  <2>1. IsFiniteSet(1 .. n)
    BY FS_Interval
  <2>2. IsFiniteSet(K)
    BY <2>1, FS_Subset
  <2> QED BY <2>2, FS_CardinalityType
<1>2. \A i \in 0 .. n : IsFiniteSet(upto(i)) /\ rank(i) \in Nat /\ rank(i) <= Cardinality(K)
  BY <1>1, FS_Subset, FS_CardinalityType
<1>3. \A i \in 1 .. n : i \in K => rank(i) = rank(i - 1) + 1
  <2> SUFFICES ASSUME NEW i \in 1 .. n, i \in K PROVE rank(i) = rank(i - 1) + 1
    OBVIOUS
  <2>a. \A j \in K : j <= i <=> (j <= i - 1 \/ j = i)
    BY <1>0
  <2>b. ~ (i <= i - 1) /\ i <= i /\ i - 1 \in 0 .. n
    OBVIOUS
  <2>1. upto(i) = upto(i - 1) \cup {i} /\ i \notin upto(i - 1) /\ i - 1 \in 0 .. n
    <3>1. ASSUME NEW j PROVE j \in upto(i) <=> j \in upto(i - 1) \cup {i}
      BY <2>a, <2>b
    <3> QED BY <3>1, <2>b
  <2>2. IsFiniteSet(upto(i - 1)) /\ rank(i - 1) \in Nat
    BY <1>2, <2>1
  <2> HIDE DEF upto
  <2> QED BY <2>1, <2>2, FS_AddElement
<1>4. \A i \in 1 .. n : i \notin K => rank(i) = rank(i - 1)
  <2> SUFFICES ASSUME NEW i \in 1 .. n, i \notin K PROVE upto(i) = upto(i - 1)
    OBVIOUS
  <2>1. \A j \in K : j <= i <=> j <= i - 1
    BY <1>0
  <2> QED BY <2>1
<1>5. \A i, j \in 0 .. n : i <= j => rank(i) <= rank(j)
  <2> SUFFICES ASSUME NEW i \in 0 .. n, NEW j \in 0 .. n, i <= j PROVE rank(i) <= rank(j)
    OBVIOUS
  <2>a. \A l \in K : l <= i => l <= j
    BY <1>0
  <2>1. upto(i) \in SUBSET upto(j) /\ IsFiniteSet(upto(j))
    BY <1>2, <2>a
  <2> HIDE DEF upto
  <2> QED BY <2>1, FS_Subset
<1>6. rank(0) = 0 /\ rank(n) = Cardinality(K)
  <2>a. \A j \in K : ~ (j <= 0) /\ j <= n
    BY <1>0
  <2>1. upto(0) = {} /\ upto(n) = K
    BY <2>a
  <2> HIDE DEF upto
  <2> QED BY <2>1, FS_EmptySet
<1> HIDE DEF upto, rank
<1>7. \A i \in K : rank(i) \in 1 .. Cardinality(K)
  <2> SUFFICES ASSUME NEW i \in K PROVE rank(i) \in 1 .. Cardinality(K)
    OBVIOUS
  <2>1. i \in 1 .. n /\ i - 1 \in 0 .. n /\ i \in 0 .. n
    OBVIOUS
  <2> QED BY <1>1, <1>2, <1>3, <2>1
<1>8. \A i, j \in K : i < j => rank(i) < rank(j)
  <2> SUFFICES ASSUME NEW i \in K, NEW j \in K, i < j PROVE rank(i) < rank(j)
    OBVIOUS
  <2>1. j \in 1 .. n /\ j - 1 \in 0 .. n /\ i \in 0 .. n /\ i <= j - 1
    OBVIOUS
  <2> QED BY <1>2, <1>3, <1>5, <2>1
<1>9. ASSUME NEW k \in 1 .. Cardinality(K) PROVE \E i \in K : rank(i) = k
  <2> DEFINE T == {i \in 0 .. n : rank(i) >= k}
  <2>1. T \subseteq Nat /\ n \in T
    BY <1>1, <1>6
  <2>2. PICK i \in T : \A y \in T : i <= y
    BY <2>1, Least
  <2>3. i \in 1 .. n /\ i - 1 \in 0 .. n /\ i - 1 \notin T
    BY <1>1, <1>6, <2>2
  <2>4. rank(i) \in Nat /\ rank(i - 1) \in Nat /\ rank(i) >= k /\ rank(i - 1) < k
    BY <1>1, <1>2, <2>2, <2>3
  <2> HIDE DEF T
  <2>5. i \in K
    BY <1>1, <1>4, <2>3, <2>4
  <2>6. rank(i) = rank(i - 1) + 1
    BY <1>3, <2>3, <2>5
  <2> QED BY <1>1, <2>4, <2>5, <2>6
<1>10. \A i \in 0 .. n : rank(i) \in Nat
  BY <1>2
<1> QED BY <1>1, <1>7, <1>8, <1>9, <1>10 DEF rank, upto

(* The retention filter: Kept drops the aged events and nothing else, and  *)
(* keeps the order.                                                        *)
LEMMA KeptFacts ==
  ASSUME NEW s \in Seq(Events)
  PROVE  /\ Kept(s) \in Seq(Events)
         /\ Elems(Kept(s)) = Elems(s) \ aged
         /\ InOrder(s) => InOrder(Kept(s))
<1> DEFINE K == {i \in 1 .. Len(s) : s[i] \notin aged}
           rank(i) == Cardinality({j \in K : j <= i})
           nth(k) == CHOOSE i \in K : rank(i) = k
           m == Cardinality(K)
<1>1. Len(s) \in Nat /\ K \in SUBSET (1 .. Len(s))
  OBVIOUS
<1>2. /\ m \in Nat
      /\ \A i \in K : rank(i) \in 1 .. m
      /\ \A k \in 1 .. m : \E i \in K : rank(i) = k
      /\ \A i, j \in K : i < j => rank(i) < rank(j)
  <2> HIDE DEF K
  <2> QED BY <1>1, Ranks
<1>3. Kept(s) = [k \in 1 .. m |-> s[nth(k)]]
  BY DEF Kept
<1>4. \A i \in K : i \in Int /\ i \in 1 .. Len(s) /\ s[i] \in Events /\ s[i] \notin aged
  OBVIOUS
<1>5. \A i \in 1 .. Len(s) : s[i] \notin aged => i \in K
  OBVIOUS
<1> HIDE DEF K, rank, m
<1>6. \A k \in 1 .. m : nth(k) \in K /\ rank(nth(k)) = k
  BY <1>2
<1> HIDE DEF nth
<1>7. \A k, l \in 1 .. m : k < l => nth(k) < nth(l)
  <2> SUFFICES ASSUME NEW k \in 1 .. m, NEW l \in 1 .. m, k < l PROVE nth(k) < nth(l)
    OBVIOUS
  <2>1. nth(k) \in K /\ nth(l) \in K /\ rank(nth(k)) = k /\ rank(nth(l)) = l
    BY <1>6
  <2>2. nth(k) \in Int /\ nth(l) \in Int
    BY <1>4, <2>1
  <2>3. CASE nth(k) = nth(l)
    BY <2>1, <2>3
  <2>4. CASE nth(l) < nth(k)
    BY <1>2, <2>1, <2>4
  <2> QED BY <2>2, <2>3, <2>4
<1>8. \A i \in K : rank(i) \in 1 .. m /\ nth(rank(i)) = i
  <2> SUFFICES ASSUME NEW i \in K PROVE nth(rank(i)) = i
    BY <1>2
  <2>1. rank(i) \in 1 .. m /\ nth(rank(i)) \in K /\ rank(nth(rank(i))) = rank(i)
    BY <1>2, <1>6
  <2>2. rank(i) \in Int /\ nth(rank(i)) \in Int /\ i \in Int
    BY <1>2, <1>4, <2>1
  <2>3. ~ (nth(rank(i)) < i) /\ ~ (i < nth(rank(i)))
    BY <1>2, <2>1, <2>2
  <2> QED BY <2>2, <2>3
<1>9. Kept(s) \in Seq(Events) /\ Len(Kept(s)) = m /\ \A k \in 1 .. m : Kept(s)[k] = s[nth(k)]
  BY <1>2, <1>3, <1>4, <1>6
<1>10. Elems(Kept(s)) = Elems(s) \ aged
  <2>1. ASSUME NEW e \in Elems(Kept(s)) PROVE e \in Elems(s) \ aged
    BY <1>4, <1>6, <1>9 DEF Elems
  <2>2. ASSUME NEW e \in Elems(s) \ aged PROVE e \in Elems(Kept(s))
    <3>1. PICK i \in 1 .. Len(s) : e = s[i]
      BY DEF Elems
    <3>2. i \in K
      BY <1>5, <3>1
    <3>3. rank(i) \in 1 .. m /\ Kept(s)[rank(i)] = e
      BY <1>8, <1>9, <3>1, <3>2
    <3> QED BY <1>9, <3>3 DEF Elems
  <2> QED BY <2>1, <2>2
<1>11. ASSUME InOrder(s) PROVE InOrder(Kept(s))
  <2> SUFFICES ASSUME NEW k \in 1 .. m, NEW l \in 1 .. m, k < l, s[nth(k)][1] = s[nth(l)][1]
               PROVE  s[nth(k)][2] <= s[nth(l)][2]
    BY <1>9 DEF InOrder
  <2> QED BY <1>4, <1>6, <1>7, <1>11 DEF InOrder
<1> QED BY <1>9, <1>10, <1>11

(* LTRIM keeps an end of the list. *)
LEMMA NewestFacts ==
  ASSUME NEW s \in Seq(Events), NEW n \in Nat
  PROVE  /\ Newest(s, n) \in Seq(Events)
         /\ Elems(Newest(s, n)) \subseteq Elems(s)
         /\ InOrder(s) => InOrder(Newest(s, n))
<1> DEFINE b == IF Len(s) > n THEN Len(s) - n + 1 ELSE 1
           t == SubSeq(s, b, Len(s))
<1>1. Newest(s, n) = t
  BY DEF Newest
<1>2. Len(s) \in Nat /\ b \in 1 .. Len(s) + 1
  OBVIOUS
<1> HIDE DEF b
<1>3. t \in Seq(Events) /\ Len(t) = Len(s) - b + 1 /\ \A i \in 1 .. Len(t) : t[i] = s[b + i - 1]
  BY <1>2
<1>4. \A i \in 1 .. Len(t) : b + i - 1 \in 1 .. Len(s)
  BY <1>2, <1>3
<1> HIDE DEF t
<1>5. Elems(t) \subseteq Elems(s)
  BY <1>3, <1>4 DEF Elems
<1>6. ASSUME InOrder(s), NEW i \in 1 .. Len(t), NEW j \in 1 .. Len(t), i < j, t[i][1] = t[j][1]
      PROVE  t[i][2] <= t[j][2]
  <2>1. b + i - 1 \in 1 .. Len(s) /\ b + j - 1 \in 1 .. Len(s) /\ b + i - 1 < b + j - 1
    BY <1>2, <1>3, <1>4, <1>6
  <2> QED BY <1>3, <1>6, <2>1 DEF InOrder
<1> QED BY <1>1, <1>3, <1>5, <1>6 DEF InOrder

(* RPUSH puts the event last. *)
LEMMA AppendFacts ==
  ASSUME NEW s \in Seq(Events), NEW e \in Events
  PROVE  /\ Append(s, e) \in Seq(Events)
         /\ Elems(Append(s, e)) = Elems(s) \cup {e}
         /\ InOrder(s) /\ (\A f \in Elems(s) : f[1] = e[1] => f[2] <= e[2]) => InOrder(Append(s, e))
<1>1. /\ Append(s, e) \in Seq(Events) /\ Len(Append(s, e)) = Len(s) + 1 /\ Len(s) \in Nat
      /\ \A i \in 1 .. Len(s) : Append(s, e)[i] = s[i] /\ s[i] \in Elems(s)
      /\ Append(s, e)[Len(s) + 1] = e
  BY DEF Elems
<1>2. Elems(Append(s, e)) = Elems(s) \cup {e}
  <2>1. ASSUME NEW f \in Elems(Append(s, e)) PROVE f \in Elems(s) \cup {e}
    BY <1>1 DEF Elems
  <2>2. ASSUME NEW f \in Elems(s) \cup {e} PROVE f \in Elems(Append(s, e))
    <3>1. CASE f = e
      BY <1>1, <3>1 DEF Elems
    <3>2. CASE f \in Elems(s)
      BY <1>1, <3>2 DEF Elems
    <3> QED BY <3>1, <3>2
  <2> QED BY <2>1, <2>2
<1>3. ASSUME InOrder(s), \A f \in Elems(s) : f[1] = e[1] => f[2] <= e[2],
             NEW i \in 1 .. Len(s) + 1, NEW j \in 1 .. Len(s) + 1, i < j,
             Append(s, e)[i][1] = Append(s, e)[j][1]
      PROVE  Append(s, e)[i][2] <= Append(s, e)[j][2]
  <2>1. i \in 1 .. Len(s)
    BY <1>1, <1>3
  <2>2. CASE j = Len(s) + 1
    BY <1>1, <1>3, <2>1, <2>2
  <2>3. CASE j \in 1 .. Len(s)
    BY <1>1, <1>3, <2>1, <2>3 DEF InOrder
  <2> QED BY <1>1, <2>2, <2>3
<1> QED BY <1>1, <1>2, <1>3 DEF InOrder

-----------------------------------------------------------------------------
(* One lemma per action *)

(* The cold append stores the writer's next event, its highest, last; the  *)
(* cap of the Dragonfly log drops old ones.                                *)
LEMMA ColdAppendKeeps ==
  ASSUME StoreInv, NEW w \in Writers, ColdAppend(w)
  PROVE  StoreInv'
<1> DEFINE e == Event(w)
           s == Append(cold, e)
<1>1. /\ writer[w].pc = "cold" /\ writer[w].n \in Nat /\ e = <<w, writer[w].n + 1>>
      /\ e \in Events /\ e[1] = w /\ e[2] = writer[w].n + 1
  BY DEF StoreInv, StoreTypeOK, ColdAppend, Event, Events
<1>2. cold \in Seq(Events) /\ Elems(cold) \subseteq stored /\ InOrder(cold)
  BY DEF StoreInv, StoreTypeOK, CopiesOK, Good
<1>3. \A f \in stored : f[1] = w => f[2] <= e[2]
  BY <1>1 DEF StoreInv, WritersOK
<1>4. s \in Seq(Events) /\ Elems(s) = Elems(cold) \cup {e} /\ InOrder(s)
  BY <1>1, <1>2, <1>3, AppendFacts
<1>5. /\ cold' \in Seq(Events) /\ Elems(cold') \subseteq Elems(s) /\ InOrder(cold')
      /\ backend = "postgres" => cold' = s
  <2> HIDE DEF s
  <2>1. Newest(s, LogCap) \in Seq(Events) /\ Elems(Newest(s, LogCap)) \subseteq Elems(s) /\ InOrder(Newest(s, LogCap))
    BY <1>4, NewestFacts, SizeAssumption
  <2>2. cold' = Newest(s, LogCap) \/ cold' = s
    BY DEF ColdAppend, s
  <2>3. backend = "postgres" => cold' = s
    BY DEF ColdAppend, s
  <2> QED BY <1>4, <2>1, <2>2, <2>3
<1>6. /\ stored' = stored \cup {e}
      /\ writer' = [writer EXCEPT ![w].pc = "exists"]
      /\ UNCHANGED <<backend, hot, aged, acked, reader, pruner>>
  BY DEF ColdAppend, Goto
<1>7. /\ writer' \in [Writers -> [pc : {"cold", "exists", "push", "failed"}, n : Nat]]
      /\ \A v \in Writers : writer'[v].n = writer[v].n /\ Event(v)' = Event(v)
      /\ \A v \in Writers : v # w => writer'[v] = writer[v]
  BY <1>6 DEF StoreInv, StoreTypeOK, Event
<1>8. StoreTypeOK'
  BY <1>1, <1>5, <1>6, <1>7 DEF StoreInv, StoreTypeOK
<1>9. CopiesOK'
  BY <1>2, <1>4, <1>5, <1>6 DEF StoreInv, CopiesOK, Good
<1>10. WritersOK'
  <2>1. \A f \in stored' : f[2] <= writer'[f[1]].n + 1
    <3> SUFFICES ASSUME NEW f \in stored' PROVE f[2] <= writer'[f[1]].n + 1
      OBVIOUS
    <3>1. CASE f = e
      BY <1>1, <1>7, <3>1
    <3>2. CASE f \in stored
      <4>1. f[1] \in Writers
        BY <3>2 DEF StoreInv, StoreTypeOK, Events
      <4> QED BY <1>7, <3>2, <4>1 DEF StoreInv, WritersOK
    <3> QED BY <1>6, <3>1, <3>2
  <2>2. \A v \in Writers : writer'[v].pc \in {"exists", "push"} => Event(v)' \in stored'
    BY <1>6, <1>7 DEF StoreInv, WritersOK
  <2> QED BY <2>1, <2>2 DEF WritersOK
<1>11. RecordOK'
  <2>1. pruner'.pc = "rewrite" => backend' = "dragonfly"
    BY <1>6 DEF StoreInv, RecordOK
  <2>2. ASSUME backend = "postgres"
        PROVE  /\ acked' \subseteq Elems(cold') \cup aged'
               /\ \A v \in Writers : writer'[v].pc \in {"exists", "push"} => Event(v)' \in Elems(cold') \cup aged'
    <3>1. Elems(cold') = Elems(cold) \cup {e}
      BY <1>4, <1>5, <2>2
    <3>2. acked' \subseteq Elems(cold') \cup aged'
      BY <1>6, <2>2, <3>1 DEF StoreInv, RecordOK
    <3>3. \A v \in Writers : writer'[v].pc \in {"exists", "push"} => Event(v)' \in Elems(cold') \cup aged'
      BY <1>6, <1>7, <2>2, <3>1 DEF StoreInv, RecordOK
    <3> QED BY <3>2, <3>3
  <2> QED BY <1>6, <2>1, <2>2 DEF RecordOK
<1> QED BY <1>8, <1>9, <1>10, <1>11 DEF StoreInv

(* An append that returns acknowledges an event the log has taken. *)
LEMMA ReturnKeeps ==
  ASSUME StoreInv, NEW w \in Writers, Return(w), writer[w].pc \in {"exists", "push"},
         hot' \in Seq(Events), Good(hot)',
         UNCHANGED <<backend, cold, aged, stored, reader, pruner>>
  PROVE  StoreInv'
<1>1. writer[w].n \in Nat /\ Event(w) \in stored /\ Event(w) \in Events
  BY DEF StoreInv, StoreTypeOK, WritersOK
<1>2. /\ writer' \in [Writers -> [pc : {"cold", "exists", "push", "failed"}, n : Nat]]
      /\ writer'[w].pc = "cold" /\ writer'[w].n = writer[w].n + 1
      /\ \A v \in Writers : v # w => writer'[v] = writer[v] /\ Event(v)' = Event(v)
  BY <1>1 DEF StoreInv, StoreTypeOK, Return, Event
<1>3. acked' = acked \cup {Event(w)}
  BY DEF Return
<1>4. StoreTypeOK'
  BY <1>1, <1>2, <1>3 DEF StoreInv, StoreTypeOK
<1>5. CopiesOK'
  BY DEF StoreInv, CopiesOK, Good
<1>6. WritersOK'
  <2>1. ASSUME NEW f \in stored PROVE f[2] <= writer'[f[1]].n + 1
    <3>1. f[1] \in Writers /\ f[2] \in Nat /\ writer[f[1]].n \in Nat /\ f[2] <= writer[f[1]].n + 1
      BY DEF StoreInv, StoreTypeOK, WritersOK, Events
    <3> QED BY <1>2, <3>1
  <2> QED BY <1>2, <2>1 DEF StoreInv, WritersOK
<1>7. RecordOK'
  BY <1>2, <1>3 DEF StoreInv, RecordOK
<1> QED BY <1>4, <1>5, <1>6, <1>7 DEF StoreInv

(* A failed append, or one on its way to the window, changes no event. *)
LEMMA GotoKeeps ==
  ASSUME StoreInv, NEW w \in Writers, NEW l \in {"push", "failed"}, Goto(w, l),
         l = "push" => writer[w].pc = "exists",
         UNCHANGED <<backend, cold, hot, aged, stored, acked, reader, pruner>>
  PROVE  StoreInv'
<1>1. /\ writer' \in [Writers -> [pc : {"cold", "exists", "push", "failed"}, n : Nat]]
      /\ \A v \in Writers : writer'[v].n = writer[v].n /\ Event(v)' = Event(v)
      /\ \A v \in Writers : writer'[v].pc \in {"exists", "push"} => writer[v].pc \in {"exists", "push"}
  BY DEF StoreInv, StoreTypeOK, Goto, Event
<1>2. StoreTypeOK'
  BY <1>1 DEF StoreInv, StoreTypeOK
<1>3. CopiesOK' /\ RecordOK'
  BY <1>1 DEF StoreInv, CopiesOK, Good, RecordOK
<1>4. \A f \in stored : f[1] \in Writers
  BY DEF StoreInv, StoreTypeOK, Events
<1>5. WritersOK'
  BY <1>1, <1>4 DEF StoreInv, WritersOK
<1> QED BY <1>2, <1>3, <1>5 DEF StoreInv

(* The window is extended at its end, with an event that was stored.       *)
LEMMA HotPushKeeps ==
  ASSUME StoreInv, NEW w \in Writers, HotPush(w)
  PROVE  StoreInv'
<1> DEFINE e == Event(w)
           s == Append(hot, e)
<1>1. /\ writer[w].pc = "push" /\ writer[w].n \in Nat /\ e \in stored
      /\ e \in Events /\ e[1] = w /\ e[2] = writer[w].n + 1
  BY DEF StoreInv, StoreTypeOK, WritersOK, HotPush, Event, Events
<1>2. hot \in Seq(Events) /\ Elems(hot) \subseteq stored /\ InOrder(hot)
  BY DEF StoreInv, StoreTypeOK, CopiesOK, Good
<1>3. \A f \in stored : f[1] = w => f[2] <= e[2]
  BY <1>1 DEF StoreInv, WritersOK
<1>4. s \in Seq(Events) /\ Elems(s) \subseteq stored /\ InOrder(s)
  BY <1>1, <1>2, <1>3, AppendFacts
<1>5. hot' = Newest(s, MaxWindow) /\ MaxWindow \in Nat
  BY SizeAssumption DEF HotPush
<1> HIDE DEF s
<1>6. hot' \in Seq(Events) /\ Elems(hot') \subseteq stored /\ InOrder(hot')
  BY <1>4, <1>5, NewestFacts
<1> QED BY <1>1, <1>6, ReturnKeeps DEF HotPush, Good

(* A writer's step. *)
LEMMA AppendEventKeeps ==
  ASSUME StoreInv, NEW w \in Writers, AppendEvent(w)
  PROVE  StoreInv'
<1>1. CASE HotExists(w)
  <2>1. hot' \in Seq(Events) /\ Good(hot)'
    BY <1>1 DEF StoreInv, StoreTypeOK, CopiesOK, Good, HotExists
  <2> QED BY <1>1, <2>1, ReturnKeeps, GotoKeeps DEF HotExists
<1>2. CASE AppendFails(w)
  BY <1>2, GotoKeeps DEF AppendFails
<1> QED BY <1>1, <1>2, ColdAppendKeeps, HotPushKeeps DEF AppendEvent

(* Steps that touch no writer keep the invariant when the copies they make *)
(* are good and the Postgres log loses only aged events.                   *)
LEMMA CopyKeeps ==
  ASSUME StoreInv, StoreTypeOK', CopiesOK', UNCHANGED <<backend, stored, acked, writer>>,
         aged \subseteq aged',
         pruner'.pc = "rewrite" => backend = "dragonfly",
         backend = "postgres" => Elems(cold) \subseteq Elems(cold') \cup aged'
  PROVE  StoreInv'
<1>1. \A w \in Writers : Event(w)' = Event(w)
  BY DEF Event
<1>2. WritersOK'
  BY <1>1 DEF StoreInv, WritersOK
<1>3. RecordOK'
  BY <1>1 DEF StoreInv, RecordOK
<1> QED BY <1>2, <1>3 DEF StoreInv

(* A reader's step: what it gets, and puts back, is a copy of the end of   *)
(* the log as it was.                                                      *)
LEMMA RecentKeeps ==
  ASSUME StoreInv, NEW r \in Readers, Recent(r)
  PROVE  StoreInv'
<1>1. /\ \A q \in Readers : reader[q].got \in Seq(Events) /\ Good(reader[q].got)
      /\ hot \in Seq(Events) /\ Good(hot) /\ cold \in Seq(Events) /\ Good(cold)
  BY DEF StoreInv, StoreTypeOK, CopiesOK
<1>2. <<>> \in Seq(Events) /\ Good(<<>>)
  BY DEF Good, Elems, InOrder
<1>3. Newest(cold, MaxWindow) \in Seq(Events) /\ Good(Newest(cold, MaxWindow))
  BY <1>1, NewestFacts, SizeAssumption DEF Good
<1>4. PICK l \in {"idle", "range", "cold", "replace"}, s \in Seq(Events) :
        Good(s) /\ Read(r, l, s) /\ (hot' = hot \/ hot' = s)
  <2>1. CASE WindowExists(r)
    BY <1>2, <2>1 DEF WindowExists
  <2>2. CASE WindowRange(r)
    BY <1>1, <2>2 DEF WindowRange
  <2>3. CASE ReadCold(r)
    BY <1>3, <2>3 DEF ReadCold
  <2>4. CASE Replace(r)
    BY <1>1, <2>4 DEF Replace
  <2> QED BY <2>1, <2>2, <2>3, <2>4 DEF Recent
<1>5. UNCHANGED <<backend, cold, aged, stored, acked, writer, pruner>>
  BY DEF Recent, WindowExists, WindowRange, ReadCold, Replace
<1>6. StoreTypeOK'
  BY <1>1, <1>4, <1>5 DEF StoreInv, StoreTypeOK, Read
<1>7. CopiesOK'
  <2>1. \A q \in Readers : reader'[q].got = reader[q].got \/ reader'[q].got = s
    BY <1>4 DEF StoreInv, StoreTypeOK, Read
  <2> QED BY <1>1, <1>4, <1>5, <2>1 DEF StoreInv, CopiesOK, Good
<1> QED BY <1>5, <1>6, <1>7, CopyKeeps DEF StoreInv, RecordOK

(* The retention job, time and the window's expiry: one DELETE removes aged*)
(* events only, and a copy that the job writes back later is a log in      *)
(* order, if perhaps an old one.                                           *)
LEMMA UpkeepKeeps ==
  ASSUME StoreInv, \/ PruneRows \/ PruneRead \/ PruneRewrite \/ ExpireWindow
                   \/ \E e \in MayAge : Age(e)
  PROVE  StoreInv'
<1>1. /\ cold \in Seq(Events) /\ Good(cold) /\ Good(pruner.kept) /\ pruner.kept \in Seq(Events)
      /\ pruner.pc = "rewrite" => backend = "dragonfly"
  BY DEF StoreInv, StoreTypeOK, CopiesOK, RecordOK
<1>2. Kept(cold) \in Seq(Events) /\ Good(Kept(cold)) /\ Elems(Kept(cold)) = Elems(cold) \ aged
  BY <1>1, KeptFacts DEF Good
<1>3. <<>> \in Seq(Events) /\ Good(<<>>)
  BY DEF Good, Elems, InOrder
<1>4. CASE PruneRows
  <2>1. StoreTypeOK' /\ CopiesOK'
    BY <1>2, <1>4 DEF StoreInv, StoreTypeOK, CopiesOK, Good, PruneRows
  <2> QED BY <1>1, <1>2, <1>4, <2>1, CopyKeeps DEF PruneRows
<1>5. CASE PruneRead
  <2>1. StoreTypeOK' /\ CopiesOK'
    BY <1>2, <1>5 DEF StoreInv, StoreTypeOK, CopiesOK, Good, PruneRead
  <2> QED BY <1>5, <2>1, CopyKeeps DEF PruneRead
<1>6. CASE PruneRewrite
  <2>1. StoreTypeOK' /\ CopiesOK'
    BY <1>1, <1>3, <1>6 DEF StoreInv, StoreTypeOK, CopiesOK, Good, PruneRewrite
  <2> QED BY <1>1, <1>6, <2>1, CopyKeeps DEF PruneRewrite
<1>7. CASE ExpireWindow
  <2>1. StoreTypeOK' /\ CopiesOK'
    BY <1>3, <1>7 DEF StoreInv, StoreTypeOK, CopiesOK, Good, ExpireWindow
  <2> QED BY <1>1, <1>7, <2>1, CopyKeeps DEF ExpireWindow
<1>8. CASE \E e \in MayAge : Age(e)
  <2>1. StoreTypeOK' /\ CopiesOK'
    BY <1>8 DEF StoreInv, StoreTypeOK, CopiesOK, Good, Age
  <2> QED BY <1>1, <1>8, <2>1, CopyKeeps DEF Age
<1> QED BY <1>4, <1>5, <1>6, <1>7, <1>8

-----------------------------------------------------------------------------
(* The store's invariant holds in every reachable state, under any         *)
(* interleaving of writers, readers, retention, expiry and failures.       *)
THEOREM StoreInvariant == StoreSpec => []StoreInv
<1>1. StoreInit => StoreInv
  <2> SUFFICES ASSUME StoreInit PROVE StoreInv
    OBVIOUS
  <2>1. <<>> \in Seq(Events) /\ Good(<<>>) /\ Elems(<<>>) = {}
    BY DEF Good, Elems, InOrder
  <2>2. StoreTypeOK
    BY <2>1 DEF StoreInit, StoreTypeOK
  <2>3. CopiesOK /\ WritersOK /\ RecordOK
    BY <2>1 DEF StoreInit, CopiesOK, WritersOK, RecordOK
  <2> QED BY <2>2, <2>3 DEF StoreInv
<1>2. StoreInv /\ [StoreNext]_storeVars => StoreInv'
  <2> SUFFICES ASSUME StoreInv, [StoreNext]_storeVars PROVE StoreInv'
    OBVIOUS
  <2>1. CASE UNCHANGED storeVars
    BY <2>1 DEF StoreInv, StoreTypeOK, CopiesOK, Good, WritersOK, RecordOK, Event, storeVars
  <2> QED BY <2>1, AppendEventKeeps, RecentKeeps, UpkeepKeeps DEF StoreNext
<1> QED BY <1>1, <1>2, PTL DEF StoreSpec

(* The Postgres log is the system of record: an event whose append returned*)
(* stays in it until it is past the retention horizon.                     *)
THEOREM LogKeepsAcked == StoreSpec => []AckedIsKept
<1>1. StoreInv => AckedIsKept
  BY DEF StoreInv, RecordOK, AckedIsKept
<1> QED BY <1>1, StoreInvariant, PTL

(* Durable first: whatever the window holds or a reader is served, the cold*)
(* log took before.                                                        *)
THEOREM DurableFirst == StoreSpec => []StoredBeforeShown
<1>1. StoreInv => StoredBeforeShown
  BY DEF StoreInv, CopiesOK, Good, StoredBeforeShown
<1> QED BY <1>1, StoreInvariant, PTL

(* An answer is never shown before its question, in the log, in the window *)
(* or in what is served.                                                   *)
THEOREM HistoryInOrder == StoreSpec => []ShownInOrder
<1>1. StoreInv => ShownInOrder
  BY DEF StoreInv, CopiesOK, Good, InOrder, ShownInOrder
<1> QED BY <1>1, StoreInvariant, PTL

-----------------------------------------------------------------------------
(***************************************************************************)
(* NatsBus: an open breaker is owed to its own tenant's calls.             *)
(*                                                                         *)
(* OwnFailuresOpen speaks of a breaker that is open; how it came to open is*)
(* in the events of its window, so the invariant counts those: the failures*)
(* in a window are never more than the failures the calls of that tenant   *)
(* have recorded (WindowIsOwn), pruning and reopening included, and a call *)
(* records at most one failure per attempt (OneFailurePerAttempt), which   *)
(* keeps the recorded numbers within the attempts there are.               *)
(***************************************************************************)

(* The shapes the induction needs. *)
BusEvents == [at : Int, ok : BOOLEAN]
Breakers == [state : States, openedAt : Int, window : Seq(BusEvents)]

CallPCs == {"idle", "attempt", "wait", "backoff", "done"}
CallStates == [pc : CallPCs, attempt : Nat,
               result : {"none", "reply", "unavailable", "error", "degraded"}]

BusTypeOK ==
  /\ call \in [Calls -> CallStates]
  /\ breaker \in [Tenants -> Breakers]
  /\ failures \in [Calls -> 0..MaxAttempts]
  /\ now \in Int

(* A call has recorded at most one failure per attempt it has begun, and   *)
(* sleeps only when an attempt is left.                                    *)
OneFailurePerAttempt == \A c \in Calls :
  /\ call[c].attempt < MaxAttempts
  /\ call[c].pc = "idle" => failures[c] = 0 /\ call[c].attempt = 0
  /\ call[c].pc \in {"attempt", "wait"} => failures[c] <= call[c].attempt
  /\ call[c].pc = "backoff" => failures[c] <= call[c].attempt + 1
                               /\ call[c].attempt + 1 < MaxAttempts

(* The failures in a breaker's window are among those its own tenant's     *)
(* calls have recorded.                                                    *)
WindowIsOwn == \A k \in Tenants :
  /\ IsFiniteSet(FailuresOf(k))
  /\ Failed(breaker[k].window) <= Cardinality(FailuresOf(k))

BusInv == BusTypeOK /\ OneFailurePerAttempt /\ WindowIsOwn /\ OwnFailuresOpen

-----------------------------------------------------------------------------
LEMMA BusNumbers ==
  /\ MaxAttempts \in Nat \ {0} /\ MinRequests \in Nat /\ FailurePercent \in Nat
  /\ FailurePercent * MinRequests \in Nat
<1>1. MaxAttempts \in Nat \ {0} /\ MinRequests \in Nat /\ FailurePercent \in Nat
  BY BusAssumption
<1> QED BY <1>1

(* Every non-empty set of naturals has a least element. *)
LEMMA LeastOf ==
  ASSUME NEW T, T \subseteq Nat, T # {}
  PROVE  \E x \in T : \A y \in T : x <= y
<1> DEFINE R == OpToRel(<, Nat)
<1>1. IsWellFoundedOn(R, Nat)
  BY NatLessThanWellFounded
<1>2. \A x, y \in Nat : y < x => <<y, x>> \in R
  BY DEF OpToRel
<1> HIDE DEF R
<1>3. PICK x \in T : \A y \in T : ~ (<<y, x>> \in R)
  BY <1>1, WFMin
<1>4. ASSUME NEW y \in T PROVE x <= y
  <2>1. x \in Nat /\ y \in Nat
    OBVIOUS
  <2>2. ~ (y < x)
    BY <1>2, <1>3, <2>1
  <2> QED BY <2>1, <2>2
<1> QED BY <1>4

(* The popleft loop ends: it stops at the first event inside the window. *)
LEMMA PoppedFacts ==
  ASSUME NEW w \in Seq(BusEvents)
  PROVE  /\ Popped(w) \in 0..Len(w)
         /\ \A i \in 1..Popped(w) : Stale(w[i])
<1> DEFINE stops(n) == /\ \A i \in 1..n : Stale(w[i])
                       /\ n < Len(w) => ~Stale(w[n + 1])
           T == {n \in 0..Len(w) : n < Len(w) => ~Stale(w[n + 1])}
<1>1. Len(w) \in Nat
  OBVIOUS
<1>2. T \subseteq Nat /\ Len(w) \in T
  BY <1>1
<1>3. PICK n \in T : \A m \in T : n <= m
  <2> HIDE DEF T
  <2> QED BY <1>2, LeastOf
<1>4. ASSUME NEW i \in 1..n PROVE Stale(w[i])
  <2>1. i - 1 \in 0..Len(w) /\ i - 1 < n /\ i - 1 < Len(w) /\ (i - 1) + 1 = i
    BY <1>1, <1>3
  <2>2. i - 1 \notin T
    <3> HIDE DEF T
    <3> QED BY <1>3, <1>2, <2>1
  <2> QED BY <2>1, <2>2
<1>5. \E m \in 0..Len(w) : stops(m)
  BY <1>3, <1>4
<1>6. Popped(w) = CHOOSE m \in 0..Len(w) : stops(m)
  BY DEF Popped
<1> HIDE DEF T
<1>7. Popped(w) \in 0..Len(w) /\ stops(Popped(w))
  <2> HIDE DEF stops
  <2> QED BY <1>5, <1>6
<1> QED BY <1>7

(* What is left of a window after the loop is one, with no more failures. *)
LEMMA PrunedFacts ==
  ASSUME NEW w \in Seq(BusEvents)
  PROVE  /\ Pruned(w) \in Seq(BusEvents)
         /\ Failed(Pruned(w)) \in Nat
         /\ Failed(Pruned(w)) <= Failed(w)
<1> DEFINE n == Popped(w)
           p == Pruned(w)
           A == {i \in 1..Len(p) : ~p[i].ok}
           B == {i \in 1..Len(w) : ~w[i].ok}
           f == [i \in A |-> n + i]
<1>1. n \in 0..Len(w) /\ Len(w) \in Nat
  BY PoppedFacts
<1>2. p = SubSeq(w, n + 1, Len(w))
  BY DEF Pruned
<1> HIDE DEF n
<1>3. p \in Seq(BusEvents) /\ Len(p) = Len(w) - n
  BY <1>1, <1>2
<1>4. \A i \in 1..Len(p) : p[i] = w[n + i] /\ n + i \in 1..Len(w)
  BY <1>1, <1>2, <1>3
<1> HIDE DEF p
<1>5. IsFiniteSet(B) /\ IsFiniteSet(A)
  <2>1. IsFiniteSet(1..Len(w)) /\ IsFiniteSet(1..Len(p))
    BY <1>1, <1>3, FS_Interval
  <2> QED BY <2>1, FS_Subset
<1>6. f \in Injection(A, B)
  <2>1. f \in [A -> B]
    BY <1>4
  <2>2. \A a, b \in A : f[a] = f[b] => a = b
    BY <1>1, <1>3
  <2> QED BY <2>1, <2>2 DEF Injection, IsInjective
<1>7. Cardinality(A) <= Cardinality(B)
  <2> HIDE DEF A, B, f
  <2> QED BY <1>5, <1>6, FS_Injection
<1>8. Cardinality(A) \in Nat
  <2> HIDE DEF A, B
  <2> QED BY <1>5, FS_CardinalityType
<1>9. Failed(p) = Cardinality(A) /\ Failed(w) = Cardinality(B)
  BY DEF Failed
<1> HIDE DEF A, B, f
<1> QED BY <1>3, <1>7, <1>8, <1>9 DEF p

(* One more event is at most one more failure, and none when it succeeded. *)
LEMMA AppendFailed ==
  ASSUME NEW w \in Seq(BusEvents), NEW e \in BusEvents
  PROVE  /\ Append(w, e) \in Seq(BusEvents)
         /\ Failed(w) \in Nat /\ Failed(Append(w, e)) \in Nat
         /\ e.ok => Failed(Append(w, e)) = Failed(w)
         /\ ~e.ok => Failed(Append(w, e)) = Failed(w) + 1
<1> DEFINE v == Append(w, e)
           A == {i \in 1..Len(w) : ~w[i].ok}
           B == {i \in 1..Len(v) : ~v[i].ok}
<1>1. /\ v \in Seq(BusEvents) /\ Len(w) \in Nat /\ Len(v) = Len(w) + 1
      /\ v[Len(w) + 1] = e /\ \A i \in 1..Len(w) : v[i] = w[i]
  OBVIOUS
<1> HIDE DEF v
<1>2. IsFiniteSet(A) /\ Len(w) + 1 \notin A
  <2>1. IsFiniteSet(1..Len(w))
    BY <1>1, FS_Interval
  <2> QED BY <1>1, <2>1, FS_Subset
<1>3. e.ok => B = A
  BY <1>1
<1>4. ~e.ok => B = A \cup {Len(w) + 1}
  BY <1>1
<1>5. Failed(w) = Cardinality(A) /\ Failed(v) = Cardinality(B)
  BY DEF Failed
<1> HIDE DEF A, B
<1>6. Cardinality(A) \in Nat
  BY <1>2, FS_CardinalityType
<1>7. ~e.ok => Cardinality(B) = Cardinality(A) + 1
  BY <1>2, <1>4, FS_AddElement
<1> QED BY <1>1, <1>3, <1>5, <1>6, <1>7 DEF v

(* The failures of a window are counted. *)
LEMMA FailedIsNat ==
  ASSUME NEW w \in Seq(BusEvents)
  PROVE  Failed(w) \in Nat
<1>1. IsFiniteSet({i \in 1..Len(w) : ~w[i].ok})
  <2>1. IsFiniteSet(1..Len(w))
    BY FS_Interval
  <2> QED BY <2>1, FS_Subset
<1> QED BY <1>1, FS_CardinalityType DEF Failed

(* CircuitBreaker.record keeps the shapes, adds at most its own failure to *)
(* the window, and leaves a closed breaker open only when the window holds *)
(* the threshold of failures.                                              *)
LEMMA RecordFacts ==
  ASSUME NEW b \in Breakers,
         NEW ok \in BOOLEAN, now \in Int
  PROVE  /\ Record(b, ok) \in Breakers
         /\ Failed(b.window) \in Nat
         /\ Failed(Record(b, ok).window) \in Nat
         /\ ok => Failed(Record(b, ok).window) <= Failed(b.window)
         /\ Failed(Record(b, ok).window) <= Failed(b.window) + 1
         /\ b.state = "closed" /\ Record(b, ok).state # "closed" =>
              Failed(Record(b, ok).window) * 100 >= FailurePercent * MinRequests
<1> DEFINE e == [at |-> now, ok |-> ok]
           v == Append(b.window, e)
           w == Pruned(v)
           r == Record(b, ok)
<1>1. b.window \in Seq(BusEvents) /\ b.state \in States /\ b.openedAt \in Int /\ e \in BusEvents
      /\ e.ok = ok
  BY DEF BusEvents, Breakers
<1> HIDE DEF e
<1>2. /\ v \in Seq(BusEvents) /\ Failed(b.window) \in Nat /\ Failed(v) \in Nat
      /\ ok => Failed(v) = Failed(b.window)
      /\ ~ok => Failed(v) = Failed(b.window) + 1
  BY <1>1, AppendFailed
<1> HIDE DEF v
<1>3. w \in Seq(BusEvents) /\ Failed(w) \in Nat /\ Failed(w) <= Failed(v)
  BY <1>2, PrunedFacts
<1> HIDE DEF w
<1>4. r.window = w
  BY DEF Record, w, v, e
<1>5. r.state \in States /\ r.openedAt \in Int /\ r \in Breakers
  BY <1>1, <1>3 DEF Record, w, v, e, States, Breakers
<1>6. ASSUME b.state = "closed", r.state # "closed"
      PROVE  TooManyFailures(w)
  BY <1>6 DEF Record, w, v, e
<1>7. ASSUME TooManyFailures(w)
      PROVE  Failed(w) * 100 >= FailurePercent * MinRequests
  <2>1. Len(w) \in Nat /\ MinRequests \in Nat /\ FailurePercent \in Nat
    BY <1>3, BusNumbers
  <2>2. Len(w) >= MinRequests /\ Failed(w) * 100 >= FailurePercent * Len(w)
    BY <1>7 DEF TooManyFailures
  <2>3. FailurePercent * Len(w) >= FailurePercent * MinRequests
    BY <2>1, <2>2
  <2>4. FailurePercent * Len(w) \in Nat /\ FailurePercent * MinRequests \in Nat
    BY <2>1
  <2> QED BY <1>3, <2>2, <2>3, <2>4
<1> HIDE DEF r
<1>8. ok => Failed(r.window) <= Failed(b.window)
  BY <1>2, <1>3, <1>4
<1>9. Failed(r.window) <= Failed(b.window) + 1
  BY <1>2, <1>3, <1>4
<1> QED BY <1>2, <1>3, <1>4, <1>5, <1>6, <1>7, <1>8, <1>9 DEF r

(* before_call keeps the window and closes nothing and opens nothing. *)
LEMMA BeforeCallFacts ==
  ASSUME NEW b \in Breakers
  PROVE  /\ BeforeCall(b) \in Breakers
         /\ BeforeCall(b).window = b.window
         /\ BeforeCall(b).state = "closed" <=> b.state = "closed"
BY DEF BeforeCall, States, Breakers

(* A step that changes the breaker of one tenant, and counts failures for  *)
(* no other tenant, keeps both invariants when the new window holds only   *)
(* counted failures and a breaker that leaves "closed" has its threshold.  *)
LEMMA BreakerStep ==
  ASSUME BusInv, NEW k \in Tenants, NEW r \in Breakers,
         breaker' = [breaker EXCEPT ![k] = r],
         \A j \in Tenants \ {k} : FailuresOf(j)' = FailuresOf(j),
         IsFiniteSet(FailuresOf(k)'),
         FailuresOf(k) \subseteq FailuresOf(k)',
         Failed(r.window) \in Nat,
         Failed(r.window) <= Cardinality(FailuresOf(k)'),
         breaker[k].state = "closed" /\ r.state # "closed" =>
           Failed(r.window) * 100 >= FailurePercent * MinRequests
  PROVE  breaker' \in [Tenants -> Breakers] /\ WindowIsOwn' /\ OwnFailuresOpen'
<1>1. breaker \in [Tenants -> Breakers]
  BY DEF BusInv, BusTypeOK
<1>2. breaker' \in [Tenants -> Breakers] /\ breaker'[k] = r
      /\ \A j \in Tenants \ {k} : breaker'[j] = breaker[j]
  BY <1>1
<1>3. WindowIsOwn'
  <2>1. ASSUME NEW j \in Tenants \ {k}
        PROVE  IsFiniteSet(FailuresOf(j)') /\ Failed(breaker'[j].window) <= Cardinality(FailuresOf(j)')
    <3>1. FailuresOf(j)' = FailuresOf(j) /\ breaker'[j] = breaker[j]
      BY <1>2, <2>1
    <3>2. IsFiniteSet(FailuresOf(j)) /\ Failed(breaker[j].window) <= Cardinality(FailuresOf(j))
      BY DEF BusInv, WindowIsOwn
    <3> QED BY <3>1, <3>2
  <2>2. IsFiniteSet(FailuresOf(k)') /\ Failed(breaker'[k].window) <= Cardinality(FailuresOf(k)')
    BY <1>2
  <2>3. \A j \in Tenants :
          IsFiniteSet(FailuresOf(j)') /\ Failed(breaker'[j].window) <= Cardinality(FailuresOf(j)')
    BY <2>1, <2>2
  <2> QED BY <2>3 DEF WindowIsOwn, Failed
<1>4. ASSUME NEW j \in Tenants, breaker'[j].state # "closed"
      PROVE  Cardinality(FailuresOf(j)') * 100 >= FailurePercent * MinRequests
  <2>1. CASE j # k
    <3>1. FailuresOf(j)' = FailuresOf(j) /\ breaker[j].state # "closed"
      BY <1>2, <1>4, <2>1
    <3>2. Cardinality(FailuresOf(j)) * 100 >= FailurePercent * MinRequests
      BY <3>1 DEF BusInv, OwnFailuresOpen
    <3> QED BY <3>1, <3>2
  <2>2. CASE j = k
    <3>0. FailurePercent * MinRequests \in Nat
      BY BusNumbers
    <3>1. Cardinality(FailuresOf(k)') \in Nat
      BY FS_CardinalityType
    <3>2. CASE breaker[k].state = "closed"
      <4>1. Failed(r.window) * 100 >= FailurePercent * MinRequests
        BY <1>2, <1>4, <2>2, <3>2
      <4>2. Failed(r.window) <= Cardinality(FailuresOf(k)')
        OBVIOUS
      <4> QED BY <2>2, <3>0, <3>1, <4>1, <4>2
    <3>3. CASE breaker[k].state # "closed"
      <4>1. Cardinality(FailuresOf(k)) * 100 >= FailurePercent * MinRequests
        BY <3>3 DEF BusInv, OwnFailuresOpen
      <4>2. Cardinality(FailuresOf(k)) <= Cardinality(FailuresOf(k)')
            /\ Cardinality(FailuresOf(k)) \in Nat
        BY FS_Subset, FS_CardinalityType
      <4> QED BY <2>2, <3>0, <3>1, <4>1, <4>2
    <3> QED BY <3>2, <3>3
  <2> QED BY <2>1, <2>2
<1>5. OwnFailuresOpen'
  BY <1>4 DEF OwnFailuresOpen
<1> QED BY <1>2, <1>3, <1>5

(* A breaker touched without a failure to count: an answer, or a call that *)
(* is let through.                                                         *)
LEMMA UncountedStep ==
  ASSUME BusInv, NEW k \in Tenants, NEW r \in Breakers,
         breaker' = [breaker EXCEPT ![k] = r], UNCHANGED failures,
         Failed(r.window) \in Nat,
         Failed(r.window) <= Failed(breaker[k].window),
         breaker[k].state = "closed" /\ r.state # "closed" =>
           Failed(r.window) * 100 >= FailurePercent * MinRequests
  PROVE  breaker' \in [Tenants -> Breakers] /\ WindowIsOwn' /\ OwnFailuresOpen'
<1>1. \A j \in Tenants : FailuresOf(j)' = FailuresOf(j)
  BY DEF FailuresOf
<1>2. IsFiniteSet(FailuresOf(k)) /\ Failed(breaker[k].window) <= Cardinality(FailuresOf(k))
  BY DEF BusInv, WindowIsOwn
<1>3. Failed(breaker[k].window) \in Nat /\ Cardinality(FailuresOf(k)) \in Nat
  <2>1. breaker[k].window \in Seq(BusEvents)
    BY DEF BusInv, BusTypeOK, Breakers
  <2>2. Failed(breaker[k].window) \in Nat
    BY <2>1, FailedIsNat
  <2> QED BY <1>2, <2>2, FS_CardinalityType
<1>4. Failed(r.window) <= Cardinality(FailuresOf(k)')
  BY <1>1, <1>2, <1>3
<1>5. IsFiniteSet(FailuresOf(k)') /\ FailuresOf(k) \subseteq FailuresOf(k)'
  BY <1>1, <1>2
<1> QED BY <1>1, <1>4, <1>5, BreakerStep

(* A failure of a call, counted and recorded in its tenant's breaker. *)
LEMMA CountedStep ==
  ASSUME BusInv, NEW c \in Calls, NEW b \in Breakers,
         b.window = breaker[BreakerKey(c)].window,
         b.state = "closed" <=> breaker[BreakerKey(c)].state = "closed",
         failures[c] < MaxAttempts,
         failures' = [failures EXCEPT ![c] = @ + 1],
         breaker' = [breaker EXCEPT ![BreakerKey(c)] = Record(b, FALSE)]
  PROVE  /\ breaker' \in [Tenants -> Breakers] /\ failures' \in [Calls -> 0..MaxAttempts]
         /\ WindowIsOwn' /\ OwnFailuresOpen'
<1> DEFINE k == BreakerKey(c)
           r == Record(b, FALSE)
           x == <<c, failures[c] + 1>>
<1>0. k \in Tenants /\ TenantOf[c] = k /\ MaxAttempts \in Nat /\ TenantOf \in [Calls -> Tenants]
  BY BusNumbers, BusAssumption DEF BreakerKey
<1>1. failures \in [Calls -> 0..MaxAttempts] /\ now \in Int
  BY DEF BusInv, BusTypeOK
<1>2. failures' \in [Calls -> 0..MaxAttempts] /\ failures'[c] = failures[c] + 1
      /\ \A d \in Calls \ {c} : failures'[d] = failures[d]
  BY <1>0, <1>1
<1>3. r \in Breakers /\ Failed(r.window) \in Nat /\ Failed(b.window) \in Nat
      /\ Failed(r.window) <= Failed(b.window) + 1
      /\ (b.state = "closed" /\ r.state # "closed" =>
             Failed(r.window) * 100 >= FailurePercent * MinRequests)
  BY <1>1, RecordFacts
<1> HIDE DEF r
<1>4. FailuresOf(k)' = FailuresOf(k) \cup {x}
  BY <1>0, <1>1, <1>2 DEF FailuresOf
<1>5. x \notin FailuresOf(k)
  BY <1>1 DEF FailuresOf
<1>6. ASSUME NEW j \in Tenants \ {k} PROVE FailuresOf(j)' = FailuresOf(j)
  BY <1>0, <1>2, <1>6 DEF FailuresOf
<1>7. IsFiniteSet(FailuresOf(k)) /\ Failed(breaker[k].window) <= Cardinality(FailuresOf(k))
  BY <1>0 DEF BusInv, WindowIsOwn
<1>8. /\ IsFiniteSet(FailuresOf(k) \cup {x})
      /\ Cardinality(FailuresOf(k) \cup {x}) = Cardinality(FailuresOf(k)) + 1
      /\ Cardinality(FailuresOf(k)) \in Nat
  BY <1>5, <1>7, FS_AddElement, FS_CardinalityType
<1>9. Failed(r.window) <= Cardinality(FailuresOf(k)')
  BY <1>3, <1>4, <1>0, <1>2, <1>7, <1>8
<1>10. IsFiniteSet(FailuresOf(k)') /\ FailuresOf(k) \subseteq FailuresOf(k)'
  BY <1>4, <1>8
<1>11. breaker' = [breaker EXCEPT ![k] = r]
  BY DEF r
<1>12. breaker[k].state = "closed" /\ r.state # "closed" =>
             Failed(r.window) * 100 >= FailurePercent * MinRequests
  BY <1>3
<1> HIDE DEF k, x
<1>13. breaker' \in [Tenants -> Breakers] /\ WindowIsOwn' /\ OwnFailuresOpen'
  BY <1>0, <1>3, <1>6, <1>9, <1>10, <1>11, <1>12, BreakerStep
<1> QED BY <1>2, <1>13

-----------------------------------------------------------------------------
LEMMA BusInitInv == BusInit => BusInv
<1> SUFFICES ASSUME BusInit PROVE BusInv
  OBVIOUS
<1>0. MaxAttempts \in Nat \ {0}
  BY BusNumbers
<1>1. BusTypeOK
  <2>1. NotCalled \in CallStates
    BY DEF NotCalled, CallStates, CallPCs
  <2>2. Fresh \in Breakers
    BY DEF Fresh, Breakers, States
  <2> QED BY <1>0, <2>1, <2>2 DEF BusInit, BusTypeOK
<1>2. OneFailurePerAttempt
  BY <1>0 DEF BusInit, OneFailurePerAttempt, NotCalled
<1>3. \A k \in Tenants : FailuresOf(k) = {}
  BY DEF BusInit, FailuresOf
<1>4. \A k \in Tenants : breaker[k] = Fresh
  BY DEF BusInit
<1>5. Failed(Fresh.window) = 0
  <2>1. {i \in 1..Len(Fresh.window) : ~Fresh.window[i].ok} = {}
    BY DEF Fresh
  <2> QED BY <2>1, FS_EmptySet DEF Failed
<1>6. WindowIsOwn
  BY <1>3, <1>4, <1>5, FS_EmptySet DEF WindowIsOwn
<1>7. OwnFailuresOpen
  BY <1>4 DEF OwnFailuresOpen, Fresh
<1> QED BY <1>1, <1>2, <1>6, <1>7 DEF BusInv

(* What a step of one call must keep: its own bookkeeping; the call of     *)
(* another and its failures stay as they are.                              *)
LEMMA BusOthers ==
  ASSUME BusInv, NEW c \in Calls, NEW v,
         call' = [call EXCEPT ![c] = v],
         \A d \in Calls \ {c} : failures'[d] = failures[d],
         v \in CallStates,
         v.attempt < MaxAttempts,
         v.pc = "idle" => failures'[c] = 0 /\ v.attempt = 0,
         v.pc \in {"attempt", "wait"} => failures'[c] <= v.attempt,
         v.pc = "backoff" => failures'[c] <= v.attempt + 1 /\ v.attempt + 1 < MaxAttempts
  PROVE  /\ call' \in [Calls -> CallStates]
         /\ OneFailurePerAttempt'
<1>1. call \in [Calls -> CallStates]
  BY DEF BusInv, BusTypeOK
<1>2. call' \in [Calls -> CallStates] /\ call'[c] = v
      /\ \A d \in Calls \ {c} : call'[d] = call[d]
  BY <1>1
<1>3. OneFailurePerAttempt
  BY DEF BusInv
<1>4. OneFailurePerAttempt'
  BY <1>2, <1>3 DEF OneFailurePerAttempt
<1> QED BY <1>2, <1>4

(* A step that leaves the breakers and the failures alone. *)
LEMMA BreakersKept ==
  ASSUME BusInv, UNCHANGED <<breaker, failures>>
  PROVE  breaker' \in [Tenants -> Breakers] /\ failures' \in [Calls -> 0..MaxAttempts]
         /\ WindowIsOwn' /\ OwnFailuresOpen'
<1>1. \A k \in Tenants : FailuresOf(k)' = FailuresOf(k)
  BY DEF FailuresOf
<1>2. WindowIsOwn'
  BY <1>1 DEF BusInv, WindowIsOwn, Failed
<1>3. OwnFailuresOpen'
  BY <1>1 DEF BusInv, OwnFailuresOpen
<1> QED BY <1>2, <1>3 DEF BusInv, BusTypeOK

(* _retry_or_exhaust: the failure of an attempt, counted and recorded. *)
LEMMA RetryKeeps ==
  ASSUME BusInv, NEW c \in Calls, NEW b \in Breakers,
         b.window = breaker[BreakerKey(c)].window,
         b.state = "closed" <=> breaker[BreakerKey(c)].state = "closed",
         call[c].pc \in {"attempt", "wait"}, RetryOrExhaust(c, b), UNCHANGED now
  PROVE  BusInv'
<1>0. MaxAttempts \in Nat \ {0}
  BY BusNumbers
<1>1. /\ call \in [Calls -> CallStates]
      /\ failures \in [Calls -> 0..MaxAttempts]
  BY DEF BusInv, BusTypeOK
<1>2. failures[c] <= call[c].attempt /\ call[c].attempt < MaxAttempts /\ call[c].attempt \in Nat
  BY <1>1 DEF BusInv, OneFailurePerAttempt, CallStates
<1>3. failures[c] < MaxAttempts
  BY <1>0, <1>1, <1>2
<1>4. /\ failures' = [failures EXCEPT ![c] = @ + 1]
      /\ breaker' = [breaker EXCEPT ![BreakerKey(c)] = Record(b, FALSE)]
  BY DEF RetryOrExhaust
<1>5. /\ breaker' \in [Tenants -> Breakers] /\ failures' \in [Calls -> 0..MaxAttempts]
      /\ WindowIsOwn' /\ OwnFailuresOpen'
  BY <1>3, <1>4, CountedStep
<1>6. failures'[c] = failures[c] + 1 /\ \A d \in Calls \ {c} : failures'[d] = failures[d]
  BY <1>1, <1>4
<1>7. ASSUME call[c].attempt >= MaxAttempts - 1
      PROVE  call' \in [Calls -> CallStates] /\ OneFailurePerAttempt'
  <2> DEFINE v == [call[c] EXCEPT !.pc = "done", !.result = "unavailable"]
  <2>1. call' = [call EXCEPT ![c] = v]
    BY <1>1, <1>7 DEF RetryOrExhaust, End
  <2>2. v \in CallStates /\ v.pc = "done"
        /\ v.attempt = call[c].attempt
    BY <1>1 DEF CallStates, CallPCs
  <2> HIDE DEF v
  <2> QED BY <1>2, <1>6, <2>1, <2>2, BusOthers
<1>8. ASSUME ~(call[c].attempt >= MaxAttempts - 1)
      PROVE  call' \in [Calls -> CallStates] /\ OneFailurePerAttempt'
  <2> DEFINE v == [call[c] EXCEPT !.pc = "backoff"]
  <2>1. call' = [call EXCEPT ![c] = v]
    BY <1>1, <1>8 DEF RetryOrExhaust
  <2>2. v \in CallStates /\ v.pc = "backoff"
        /\ v.attempt = call[c].attempt
    BY <1>1 DEF CallStates, CallPCs
  <2>3. failures'[c] <= v.attempt + 1 /\ v.attempt + 1 < MaxAttempts
    BY <1>0, <1>1, <1>2, <1>6, <1>8, <2>2
  <2> HIDE DEF v
  <2> QED BY <1>2, <1>6, <2>1, <2>2, <2>3, BusOthers
<1>9. call' \in [Calls -> CallStates] /\ OneFailurePerAttempt'
  BY <1>7, <1>8
<1>10. now' \in Int
  BY DEF BusInv, BusTypeOK
<1> QED BY <1>5, <1>9, <1>10 DEF BusInv, BusTypeOK

(* A step of one call that touches no breaker and counts no failure. *)
LEMMA QuietStep ==
  ASSUME BusInv, NEW c \in Calls, NEW v \in CallStates,
         call' = [call EXCEPT ![c] = v], UNCHANGED <<breaker, failures, now>>,
         v.attempt < MaxAttempts, v.pc # "idle",
         v.pc \in {"attempt", "wait"} => failures[c] <= v.attempt,
         v.pc # "backoff"
  PROVE  BusInv'
<1>1. call' \in [Calls -> CallStates] /\ OneFailurePerAttempt'
  BY BusOthers
<1>2. breaker' \in [Tenants -> Breakers] /\ failures' \in [Calls -> 0..MaxAttempts]
      /\ WindowIsOwn' /\ OwnFailuresOpen'
  BY BreakersKept
<1>3. now' \in Int
  BY DEF BusInv, BusTypeOK
<1> QED BY <1>1, <1>2, <1>3 DEF BusInv, BusTypeOK

(* A step of the worker, of the link or of the clock. *)
LEMMA OutsideStep ==
  ASSUME BusInv, UNCHANGED <<call, breaker, failures>>, now' \in Int
  PROVE  BusInv'
<1>1. breaker' \in [Tenants -> Breakers] /\ failures' \in [Calls -> 0..MaxAttempts]
      /\ WindowIsOwn' /\ OwnFailuresOpen'
  BY BreakersKept
<1>2. call' \in [Calls -> CallStates] /\ OneFailurePerAttempt'
  BY DEF BusInv, BusTypeOK, OneFailurePerAttempt
<1> QED BY <1>1, <1>2 DEF BusInv, BusTypeOK

LEMMA BusStep == BusInv /\ [BusNext]_busVars => BusInv'
<1> SUFFICES ASSUME BusInv, [BusNext]_busVars PROVE BusInv'
  OBVIOUS
<1>0. MaxAttempts \in Nat \ {0} /\ TenantOf \in [Calls -> Tenants]
  BY BusNumbers, BusAssumption
<1>1. /\ call \in [Calls -> CallStates] /\ breaker \in [Tenants -> Breakers]
      /\ failures \in [Calls -> 0..MaxAttempts] /\ now \in Int
  BY DEF BusInv, BusTypeOK
<1>2. ASSUME NEW c \in Calls
      PROVE  /\ call[c] \in CallStates /\ call[c].attempt \in Nat /\ failures[c] \in Nat
             /\ call[c].attempt < MaxAttempts
             /\ call[c].pc \in {"idle", "attempt", "wait"} => failures[c] <= call[c].attempt
             /\ call[c].pc = "backoff" => failures[c] <= call[c].attempt + 1
                                          /\ call[c].attempt + 1 < MaxAttempts
             /\ BreakerKey(c) \in Tenants /\ breaker[BreakerKey(c)] \in Breakers
  BY <1>0, <1>1 DEF BusInv, OneFailurePerAttempt, CallStates, BreakerKey
<1>3. ASSUME NEW c \in Calls, Invoke(c) PROVE BusInv'
  <2> DEFINE v == [call[c] EXCEPT !.pc = "attempt"]
  <2>1. call' = [call EXCEPT ![c] = v] /\ UNCHANGED <<breaker, failures, now>> /\ call[c].pc = "idle"
    BY <1>3 DEF Invoke
  <2>2. v \in CallStates /\ v.pc = "attempt" /\ v.attempt = call[c].attempt
    BY <1>2 DEF CallStates, CallPCs
  <2> HIDE DEF v
  <2> QED BY <1>2, <2>1, <2>2, QuietStep
<1>4. ASSUME NEW c \in Calls, FailFast(c) PROVE BusInv'
  <2> DEFINE v == [call[c] EXCEPT !.pc = "done", !.result = "unavailable"]
  <2>1. call' = [call EXCEPT ![c] = v] /\ UNCHANGED <<breaker, failures, now>>
    BY <1>1, <1>4 DEF FailFast, End
  <2>2. v \in CallStates /\ v.pc = "done" /\ v.attempt = call[c].attempt
    BY <1>2 DEF CallStates, CallPCs
  <2> HIDE DEF v
  <2> QED BY <1>2, <2>1, <2>2, QuietStep
<1>5. ASSUME NEW c \in Calls, NotSent(c) PROVE BusInv'
  <2> DEFINE b == BeforeCall(breaker[BreakerKey(c)])
  <2>1. b \in Breakers /\ b.window = breaker[BreakerKey(c)].window
        /\ (b.state = "closed" <=> breaker[BreakerKey(c)].state = "closed")
    BY <1>2, BeforeCallFacts
  <2>2. call[c].pc \in {"attempt", "wait"} /\ RetryOrExhaust(c, b) /\ UNCHANGED now
    BY <1>5 DEF NotSent
  <2> HIDE DEF b
  <2> QED BY <2>1, <2>2, RetryKeeps
<1>6. ASSUME NEW c \in Calls, Send(c) PROVE BusInv'
  <2> DEFINE v == [call[c] EXCEPT !.pc = "wait"]
             k == BreakerKey(c)
             r == BeforeCall(breaker[k])
  <2>1. /\ call' = [call EXCEPT ![c] = v] /\ UNCHANGED <<failures, now>>
        /\ breaker' = [breaker EXCEPT ![k] = r] /\ call[c].pc = "attempt"
    BY <1>6 DEF Send
  <2>2. v \in CallStates /\ v.pc = "wait" /\ v.attempt = call[c].attempt
    BY <1>2 DEF CallStates, CallPCs
  <2>3. r \in Breakers /\ r.window = breaker[k].window
        /\ (r.state = "closed" <=> breaker[k].state = "closed") /\ k \in Tenants
        /\ breaker[k].window \in Seq(BusEvents)
    BY <1>2, BeforeCallFacts DEF Breakers
  <2> HIDE DEF v, r, k
  <2>4. Failed(r.window) \in Nat /\ Failed(r.window) <= Failed(breaker[k].window)
    BY <2>3, FailedIsNat
  <2>5. breaker' \in [Tenants -> Breakers] /\ WindowIsOwn' /\ OwnFailuresOpen'
    BY <2>1, <2>3, <2>4, UncountedStep
  <2>6. call' \in [Calls -> CallStates] /\ OneFailurePerAttempt'
    BY <1>2, <2>1, <2>2, BusOthers
  <2> QED BY <1>1, <2>1, <2>5, <2>6 DEF BusInv, BusTypeOK
<1>7. ASSUME NEW c \in Calls, Reply(c) PROVE BusInv'
  <2> DEFINE v == [call[c] EXCEPT !.pc = "done", !.result = "reply"]
             k == BreakerKey(c)
             r == Record(breaker[k], TRUE)
  <2>1. /\ call' = [call EXCEPT ![c] = v] /\ UNCHANGED <<failures, now>>
        /\ breaker' = [breaker EXCEPT ![k] = r]
    BY <1>1, <1>7 DEF Reply, End
  <2>2. v \in CallStates /\ v.pc = "done" /\ v.attempt = call[c].attempt
    BY <1>2 DEF CallStates, CallPCs
  <2>3. /\ r \in Breakers /\ k \in Tenants /\ Failed(r.window) \in Nat
        /\ Failed(r.window) <= Failed(breaker[k].window)
        /\ (breaker[k].state = "closed" /\ r.state # "closed" =>
              Failed(r.window) * 100 >= FailurePercent * MinRequests)
    BY <1>1, <1>2, RecordFacts
  <2> HIDE DEF v, r, k
  <2>5. breaker' \in [Tenants -> Breakers] /\ WindowIsOwn' /\ OwnFailuresOpen'
    BY <2>1, <2>3, UncountedStep
  <2>6. call' \in [Calls -> CallStates] /\ OneFailurePerAttempt'
    BY <1>2, <2>1, <2>2, BusOthers
  <2> QED BY <1>1, <2>1, <2>5, <2>6 DEF BusInv, BusTypeOK
<1>8. ASSUME NEW c \in Calls, RequestTimeout(c) PROVE BusInv'
  <2>1. call[c].pc \in {"attempt", "wait"} /\ RetryOrExhaust(c, breaker[BreakerKey(c)]) /\ UNCHANGED now
    BY <1>8 DEF RequestTimeout
  <2> QED BY <1>2, <2>1, RetryKeeps
<1>9. ASSUME NEW c \in Calls, RequestRaises(c) PROVE BusInv'
  <2> DEFINE v == [call[c] EXCEPT !.pc = "done", !.result = "error"]
  <2>1. /\ call' = [call EXCEPT ![c] = v] /\ UNCHANGED now /\ call[c].pc = "wait"
        /\ failures' = [failures EXCEPT ![c] = @ + 1]
        /\ breaker' = [breaker EXCEPT ![BreakerKey(c)] = Record(breaker[BreakerKey(c)], FALSE)]
    BY <1>1, <1>9 DEF RequestRaises, End
  <2>2. v \in CallStates /\ v.pc = "done" /\ v.attempt = call[c].attempt
    BY <1>2 DEF CallStates, CallPCs
  <2> HIDE DEF v
  <2>3. failures[c] < MaxAttempts
    BY <1>0, <1>2, <2>1
  <2>4. /\ breaker' \in [Tenants -> Breakers] /\ failures' \in [Calls -> 0..MaxAttempts]
        /\ WindowIsOwn' /\ OwnFailuresOpen'
    BY <1>2, <2>1, <2>3, CountedStep
  <2>5. \A d \in Calls \ {c} : failures'[d] = failures[d]
    BY <1>1, <2>1
  <2>6. call' \in [Calls -> CallStates] /\ OneFailurePerAttempt'
    BY <1>2, <2>1, <2>2, <2>5, BusOthers
  <2> QED BY <1>1, <2>1, <2>4, <2>6 DEF BusInv, BusTypeOK
<1>10. ASSUME NEW c \in Calls, Sleep(c) PROVE BusInv'
  <2> DEFINE v == [call[c] EXCEPT !.pc = "attempt", !.attempt = @ + 1]
  <2>1. /\ call' = [call EXCEPT ![c] = v] /\ UNCHANGED <<breaker, failures, now>>
        /\ call[c].pc = "backoff"
    BY <1>1, <1>10 DEF Sleep
  <2> DEFINE n == call[c].attempt + 1
  <2>3. n \in Nat /\ call[c] \in CallStates /\ v = [call[c] EXCEPT !.pc = "attempt", !.attempt = n]
    BY <1>2
  <2> HIDE DEF n
  <2>4. v \in CallStates /\ v.pc = "attempt" /\ v.attempt = n
    <3> HIDE DEF v
    <3> QED BY <2>3 DEF CallStates, CallPCs
  <2>2. v \in CallStates /\ v.pc = "attempt" /\ v.attempt = call[c].attempt + 1
    BY <2>4 DEF n
  <2> HIDE DEF v
  <2> QED BY <1>2, <2>1, <2>2, QuietStep
<1>11. ASSUME NEW c \in Calls, OuterTimeout(c) PROVE BusInv'
  <2> DEFINE v == [call[c] EXCEPT !.pc = "done", !.result = "degraded"]
  <2>1. call' = [call EXCEPT ![c] = v] /\ UNCHANGED <<breaker, failures, now>>
    BY <1>1, <1>11 DEF OuterTimeout, End
  <2>2. v \in CallStates /\ v.pc = "done" /\ v.attempt = call[c].attempt
    BY <1>2 DEF CallStates, CallPCs
  <2> HIDE DEF v
  <2> QED BY <1>2, <2>1, <2>2, QuietStep
<1>12. ASSUME NEW c \in Calls, NEW a \in Attempts, WorkerTakes(c, a) \/ WorkerReplies(c, a)
       PROVE  BusInv'
  <2>1. UNCHANGED <<call, breaker, failures, now>>
    BY <1>12 DEF WorkerTakes, WorkerReplies
  <2> QED BY <1>1, <2>1, OutsideStep
<1>13. ASSUME WorkerStart \/ WorkerStop \/ LinkChanges \/ Tick PROVE BusInv'
  <2>1. UNCHANGED <<call, breaker, failures>> /\ now' \in Int
    BY <1>1, <1>13 DEF WorkerStart, WorkerStop, LinkChanges, Tick
  <2> QED BY <2>1, OutsideStep
<1>14. ASSUME UNCHANGED busVars PROVE BusInv'
  <2>1. UNCHANGED <<call, breaker, failures, now>>
    BY <1>14 DEF busVars
  <2> QED BY <1>1, <2>1, OutsideStep
<1> QED BY <1>3, <1>4, <1>5, <1>6, <1>7, <1>8, <1>9, <1>10, <1>11, <1>12, <1>13, <1>14
        DEF BusNext, Caller

(* "A noisy tenant cannot trip the breaker for every other tenant": for    *)
(* any calls, tenants, thresholds, windows and cooldowns, a breaker is not *)
(* closed only when the calls of its own tenant have failed often enough,  *)
(* however retries, timeouts, probes and late replies interleave.          *)
THEOREM OwnFailuresOpenTheorem == BusSpec => []OwnFailuresOpen
<1>1. BusSpec => []BusInv
  BY BusInitInv, BusStep, PTL DEF BusSpec
<1>2. BusInv => OwnFailuresOpen
  BY DEF BusInv
<1> QED BY <1>1, <1>2, PTL

(* The window of a breaker never counts more failures than the calls of    *)
(* its own tenant have recorded, and no call records more failures than    *)
(* NATS_RETRY_MAX_ATTEMPTS allows.                                         *)
THEOREM WindowIsOwnTheorem == BusSpec => [](WindowIsOwn /\ OneFailurePerAttempt)
<1>1. BusSpec => []BusInv
  BY BusInitInv, BusStep, PTL DEF BusSpec
<1>2. BusInv => WindowIsOwn /\ OneFailurePerAttempt
  BY DEF BusInv
<1> QED BY <1>1, <1>2, PTL
=============================================================================
