------------------------ MODULE ServiceRequestProofs ------------------------
(***************************************************************************)
(* Theorems about ServiceRequest: for any number of calls, users and       *)
(* decisions in flight the gate fails closed, releases what it withheld at *)
(* most once, and never lets an execution find an empty plan.              *)
(***************************************************************************)
EXTENDS ServiceRequest, TLAPS

Gated == GateEnabled /\ policy.required

DecPCs == {"idle", "update", "withdraw", "apply", "release"}
DecRecords ==
  [pc : DecPCs, row : (Callers \cup {Nobody}) \X (Users \cup {Nobody}), by : Users \cup {Nobody},
   yes : BOOLEAN, locked : SUBSET Rows, todo : SUBSET Rows]
RowRecords ==
  [state : {"none", "pending", "approved", "rejected", "withdrawn"}, by : Users \cup {Nobody}]
RitmRecords == [state : RitmStates, approval : {"none", "requested", "approved", "rejected"}]

(* The shapes the induction needs. *)
GateTypeOK ==
  /\ policy \in Policies
  /\ pc \in [Callers -> PCs]
  /\ target \in [Callers -> Callers \cup {Nobody}]
  /\ sr \in [Callers -> {"none", "requested", "pending_approval", "approved", "rejected"}]
  /\ ritm \in [Callers -> RitmRecords]
  /\ planned \in [Callers -> 0 .. PlanSize]
  /\ row \in [Rows -> RowRecords]
  /\ events \in [Callers -> Nat]
  /\ released \in [Callers -> Nat]
  /\ started \in SUBSET Callers
  /\ running \in SUBSET started
  /\ dec \in [Deciders -> DecRecords]
  /\ budget \in Nat

(* The RITMs with all their task rows.                                     *)
Complete == {r \in Callers : ritm[r].state # "none" /\ planned[r] = PlanSize}

(* What a call knows at each point: it names a RITM only once one exists,  *)
(* passes the gate only with the task rows written, and reaches the        *)
(* dispatch only where no approval is required.                            *)
IntakeOK ==
  \A c \in Callers :
       /\ pc[c] \in {"request", "dup", "key", "insert"} =>
            target[c] = Nobody /\ ritm[c].state = "none"
       /\ pc[c] \in {"tasks", "gate", "hold", "dispatch"} => target[c] \in Callers
       /\ pc[c] \in {"gate", "hold", "dispatch"} => target[c] \in Complete
       /\ pc[c] = "dispatch" => ~ Gated
       /\ target[c] \in Callers => ritm[target[c]].state # "none"

(* An approval row exists only behind the gate, for somebody the policy    *)
(* lets decide, and is approved only by that user.                         *)
RowsOK ==
  \A x \in Rows : row[x].state # "none" =>
    /\ Gated /\ x[2] \in ResolveApprovers
    /\ pc[x[1]] = "end" /\ target[x[1]] \in Complete
    /\ row[x].state = "approved" => row[x].by = x[2]

(* A deciding transaction holds the lock of its own row, what it has locked*)
(* is pending and nobody else's, and a decision that was committed for     *)
(* release stands.                                                         *)
DecidersOK ==
  /\ \A d \in Deciders :
       /\ dec[d].pc # "idle" => /\ dec[d].row \in Rows
                                /\ row[dec[d].row].state # "none"
                                /\ dec[d].by = dec[d].row[2]
       /\ dec[d].pc \in {"withdraw", "apply"} => dec[d].row \in dec[d].locked
       /\ dec[d].pc = "release" => row[dec[d].row].state = "approved"
       /\ \A x \in dec[d].locked : row[x].state = "pending"
  /\ \A d, e \in Deciders : d # e => dec[d].locked \cap dec[e].locked = {}

Left(r) == ritm[r].state \notin {"none", "requested"}
ApprovedRow(r) == \E x \in Rows : row[x].state = "approved" /\ target[x[1]] = r

(* The right to release: a RITM leaves "requested" once, so at most one    *)
(* decider ever holds the release of it, before it was dispatched.  Nothing*)
(* is accepted, started or running that was not released.                  *)
ReleaseOK ==
  /\ \A r \in Callers :
       /\ released[r] > 0 => r \in Complete
       /\ events[r] > 0 \/ r \in started => released[r] > 0
       /\ Gated /\ released[r] > 0 => released[r] = 1 /\ Left(r) /\ ApprovedRow(r)
  /\ \A d \in Deciders : dec[d].pc = "release" => released[RitmOf(d)] = 0 /\ Left(RitmOf(d))
  /\ \A d, e \in Deciders :
       dec[d].pc = "release" /\ dec[e].pc = "release" /\ RitmOf(d) = RitmOf(e) => d = e

GateInv == GateTypeOK /\ IntakeOK /\ RowsOK /\ DecidersOK /\ ReleaseOK

-----------------------------------------------------------------------------
(* A decision in flight is about a row of a call that named a planned RITM.*)
LEMMA InFlight ==
  ASSUME GateInv, NEW d \in Deciders, dec[d].pc # "idle"
  PROVE  /\ dec[d].row \in Rows /\ dec[d].row[1] \in Callers /\ dec[d].row[2] \in Users
         /\ dec[d].by = dec[d].row[2]
         /\ RitmOf(d) \in Complete /\ RitmOf(d) \in Callers
         /\ Gated /\ pc[dec[d].row[1]] = "end"
<1>1. dec[d].row \in Rows /\ row[dec[d].row].state # "none" /\ dec[d].by = dec[d].row[2]
  BY DEF GateInv, DecidersOK
<1>2. dec[d].row[1] \in Callers /\ dec[d].row[2] \in Users
  BY <1>1 DEF Rows
<1> QED BY <1>1, <1>2 DEF GateInv, Complete, GateTypeOK, RowsOK, RitmOf

(* An idle decider is well formed. *)
LEMMA IdleType == Idle \in DecRecords
BY DEF Idle, DecRecords, DecPCs

(* The SR insert touches neither RITMs nor rows. *)
LEMMA InsertRequestKeeps ==
  ASSUME GateInv, NEW c \in Callers, InsertRequest(c)
  PROVE  GateInv'
<1>1. GateTypeOK'
  BY DEF GateInv, GateTypeOK, InsertRequest, Goto, PCs
<1>2. IntakeOK'
  BY DEF GateInv, Complete, IntakeOK, Gated, InsertRequest, Goto
<1>3. RowsOK'
  BY DEF GateInv, Complete, RowsOK, Gated, InsertRequest, Goto, ResolveApprovers, Eligible
<1>4. DecidersOK'
  BY DEF GateInv, DecidersOK, InsertRequest
<1>5. ReleaseOK'
  BY DEF GateInv, Complete, ReleaseOK, Left, ApprovedRow, RitmOf, Gated, InsertRequest
<1> QED BY <1>1, <1>2, <1>3, <1>4, <1>5 DEF GateInv

(* The open-duplicate query only decides where the call goes on. *)
LEMMA FindOpenDuplicateKeeps ==
  ASSUME GateInv, NEW c \in Callers, FindOpenDuplicate(c)
  PROVE  GateInv'
<1>1. GateTypeOK'
  BY DEF GateInv, GateTypeOK, FindOpenDuplicate, Goto, PCs
<1>2. IntakeOK'
  BY DEF GateInv, Complete, IntakeOK, Gated, FindOpenDuplicate, Goto
<1>3. RowsOK'
  BY DEF GateInv, Complete, RowsOK, Gated, FindOpenDuplicate, Goto, ResolveApprovers, Eligible
<1>4. DecidersOK'
  BY DEF GateInv, DecidersOK, FindOpenDuplicate
<1>5. ReleaseOK'
  BY DEF GateInv, Complete, ReleaseOK, Left, ApprovedRow, RitmOf, Gated, FindOpenDuplicate
<1> QED BY <1>1, <1>2, <1>3, <1>4, <1>5 DEF GateInv

(* The idempotency short-circuit points the call at a RITM that exists. *)
LEMMA CheckKeyKeeps ==
  ASSUME GateInv, NEW c \in Callers, CheckKey(c)
  PROVE  GateInv'
<1>1. GateTypeOK'
  <2>1. target' \in [Callers -> Callers \cup {Nobody}] /\ pc' \in [Callers -> PCs]
    BY DEF GateInv, GateTypeOK, CheckKey, Goto, PCs
  <2> QED BY <2>1 DEF GateInv, GateTypeOK, CheckKey
<1>2. IntakeOK'
  BY DEF GateInv, Complete, GateTypeOK, IntakeOK, Gated, CheckKey, SameKey, Goto
<1>3. RowsOK'
  BY DEF GateInv, Complete, GateTypeOK, RowsOK, Gated, CheckKey, Goto, Rows, ResolveApprovers, Eligible
<1>4. DecidersOK'
  BY DEF GateInv, DecidersOK, CheckKey
<1>5. ReleaseOK'
  <2>1. \A x \in Rows : row[x].state # "none" => x[1] # c /\ target'[x[1]] = target[x[1]]
    BY DEF GateInv, Complete, GateTypeOK, RowsOK, CheckKey, Rows
  <2>2. \A r \in Callers : ApprovedRow(r) => ApprovedRow(r)'
    BY <2>1 DEF ApprovedRow, CheckKey
  <2>3. \A d \in Deciders : dec[d].pc # "idle" => RitmOf(d)' = RitmOf(d)
    BY <2>1 DEF GateInv, DecidersOK, RitmOf, CheckKey
  <2> QED BY <2>2, <2>3 DEF GateInv, Complete, ReleaseOK, Left, Gated, CheckKey
<1> QED BY <1>1, <1>2, <1>3, <1>4, <1>5 DEF GateInv

(* The INSERT makes the call's own RITM, which nothing referred to before. *)
LEMMA InsertRitmKeeps ==
  ASSUME GateInv, NEW c \in Callers, InsertRitm(c)
  PROVE  GateInv'
<1>1. GateTypeOK'
  <2>1. ritm' \in [Callers -> RitmRecords]
    <3>1. \A x \in RitmRecords : [x EXCEPT !.state = "requested"] \in RitmRecords
      BY DEF RitmRecords, RitmStates
    <3>2. ritm[c] \in RitmRecords
      BY DEF GateInv, GateTypeOK
    <3>3. ritm' = ritm \/ ritm' = [ritm EXCEPT ![c] = [ritm[c] EXCEPT !.state = "requested"]]
      BY DEF InsertRitm
    <3> QED BY <3>1, <3>2, <3>3 DEF GateInv, GateTypeOK
  <2> QED BY <2>1 DEF GateInv, GateTypeOK, InsertRitm, Goto, PCs
<1>2. IntakeOK'
  <2>1. CASE \E r \in Callers : SameKey(c, r)
    BY <2>1 DEF GateInv, Complete, GateTypeOK, IntakeOK, Gated, InsertRitm, Goto
  <2>2. CASE ~ \E r \in Callers : SameKey(c, r)
    <3>1. /\ pc' = [pc EXCEPT ![c] = "tasks"] /\ target' = [target EXCEPT ![c] = c]
          /\ policy' = policy /\ planned' = planned
      BY <2>2 DEF InsertRitm, Goto
    <3>2. \A r \in Callers : ritm'[r].state = IF r = c THEN "requested" ELSE ritm[r].state
      BY <2>2 DEF GateInv, GateTypeOK, InsertRitm, RitmRecords
    <3> QED BY <3>1, <3>2 DEF GateInv, Complete, GateTypeOK, IntakeOK, Gated
  <2> QED BY <2>1, <2>2
<1>c. Complete \subseteq Complete'
  <2>1. \A r \in Callers : ritm[r].state # "none" => ritm'[r].state # "none"
    BY DEF GateInv, GateTypeOK, IntakeOK, InsertRitm
  <2> QED BY <2>1 DEF Complete, InsertRitm
<1>3. RowsOK'
  BY <1>c DEF GateInv, GateTypeOK, RowsOK, Gated, InsertRitm, Goto, Rows, ResolveApprovers, Eligible
<1>4. DecidersOK'
  BY DEF GateInv, DecidersOK, InsertRitm
<1>5. ReleaseOK'
  <2>1. \A x \in Rows : row[x].state # "none" => x[1] # c /\ target'[x[1]] = target[x[1]]
    BY DEF GateInv, Complete, GateTypeOK, RowsOK, InsertRitm, Rows
  <2>2. \A r \in Callers : ApprovedRow(r) => ApprovedRow(r)'
    BY <2>1 DEF ApprovedRow, InsertRitm
  <2>3. \A d \in Deciders : dec[d].pc # "idle" => RitmOf(d)' = RitmOf(d)
    BY <2>1 DEF GateInv, DecidersOK, RitmOf, InsertRitm
  <2>4. \A r \in Callers : Left(r) => Left(r)'
    BY DEF GateInv, Complete, GateTypeOK, IntakeOK, Left, InsertRitm
  <2>5. \A d \in Deciders : dec[d].pc # "idle" => RitmOf(d) \in Callers
    BY InFlight
  <2> QED BY <1>c, <2>2, <2>3, <2>4, <2>5 DEF GateInv, ReleaseOK, Gated, InsertRitm
<1> QED BY <1>1, <1>2, <1>3, <1>4, <1>5 DEF GateInv

(* One task row more, for a RITM that exists and has no event yet.         *)
LEMMA InsertTaskKeeps ==
  ASSUME GateInv, NEW c \in Callers, InsertTask(c)
  PROVE  GateInv'
<1>1. GateTypeOK'
  <2>1. planned[target[c]] \in 0 .. PlanSize /\ target[c] \in Callers
    BY DEF GateInv, Complete, GateTypeOK, IntakeOK, InsertTask
  <2>2. planned' \in [Callers -> 0 .. PlanSize]
    BY <2>1, CountAssumption DEF GateInv, GateTypeOK, InsertTask
  <2> QED BY <2>2 DEF GateInv, GateTypeOK, InsertTask, intake
<1>2. Complete \subseteq Complete'
  BY DEF GateInv, GateTypeOK, Complete, InsertTask
<1>3. IntakeOK'
  BY <1>2 DEF GateInv, Complete, IntakeOK, Gated, InsertTask, intake
<1>4. RowsOK'
  BY <1>2 DEF GateInv, Complete, RowsOK, Gated, InsertTask, intake, ResolveApprovers, Eligible
<1>5. DecidersOK'
  BY DEF GateInv, DecidersOK, InsertTask
<1>6. ReleaseOK'
  BY <1>2 DEF GateInv, Complete, ReleaseOK, Left, ApprovedRow, RitmOf, Gated, InsertTask, intake
<1> QED BY <1>1, <1>3, <1>4, <1>5, <1>6 DEF GateInv

(* The call passes on to the gate with every row written.                  *)
LEMMA InsertRunKeeps ==
  ASSUME GateInv, NEW c \in Callers, InsertRun(c)
  PROVE  GateInv'
<1>1. GateTypeOK'
  BY DEF GateInv, GateTypeOK, InsertRun, Goto, PCs
<1>2. IntakeOK'
  BY DEF GateInv, IntakeOK, Gated, InsertRun, Goto, Complete
<1>3. RowsOK'
  BY DEF GateInv, RowsOK, Gated, InsertRun, Goto, ResolveApprovers, Eligible, Complete
<1>4. DecidersOK'
  BY DEF GateInv, DecidersOK, InsertRun
<1>5. ReleaseOK'
  BY DEF GateInv, ReleaseOK, Left, ApprovedRow, RitmOf, Gated, InsertRun, Complete
<1> QED BY <1>1, <1>2, <1>3, <1>4, <1>5 DEF GateInv

(* Only an ungated call goes from the gate to the dispatch. *)
LEMMA SelfServiceKeeps ==
  ASSUME GateInv, NEW c \in Callers, SelfService(c)
  PROVE  GateInv'
<1>1. GateTypeOK'
  BY DEF GateInv, GateTypeOK, SelfService, Goto, PCs
<1>2. IntakeOK'
  BY DEF GateInv, Complete, IntakeOK, Gated, SelfService, Goto
<1>3. RowsOK'
  BY DEF GateInv, Complete, RowsOK, Gated, SelfService
<1>4. DecidersOK'
  BY DEF GateInv, DecidersOK, SelfService
<1>5. ReleaseOK'
  BY DEF GateInv, Complete, ReleaseOK, Left, RitmOf, Gated, SelfService
<1> QED BY <1>1, <1>2, <1>3, <1>4, <1>5 DEF GateInv

(* Holding an unresolved request stamps the approval column only. *)
LEMMA HoldUnresolvedKeeps ==
  ASSUME GateInv, NEW c \in Callers, HoldUnresolved(c)
  PROVE  GateInv'
<1>1. GateTypeOK'
  <2>1. ritm' \in [Callers -> RitmRecords]
    BY DEF GateInv, GateTypeOK, HoldUnresolved, RitmRecords
  <2> QED BY <2>1 DEF GateInv, GateTypeOK, HoldUnresolved, Goto, PCs
<1>2. IntakeOK'
  BY DEF GateInv, Complete, IntakeOK, Gated, HoldUnresolved, Goto
<1>3. RowsOK'
  BY DEF GateInv, Complete, RowsOK, HoldUnresolved
<1>4. DecidersOK'
  BY DEF GateInv, DecidersOK, HoldUnresolved
<1>5. ReleaseOK'
  BY DEF GateInv, Complete, ReleaseOK, Left, ApprovedRow, RitmOf, Gated, HoldUnresolved
<1> QED BY <1>1, <1>2, <1>3, <1>4, <1>5 DEF GateInv

(* The second statement of the hold ends the call. *)
LEMMA HoldStampKeeps ==
  ASSUME GateInv, NEW c \in Callers, HoldStamp(c)
  PROVE  GateInv'
<1>1. GateTypeOK'
  BY DEF GateInv, GateTypeOK, HoldStamp, Goto, PCs
<1>2. IntakeOK'
  BY DEF GateInv, Complete, IntakeOK, Gated, HoldStamp, Goto
<1>3. RowsOK'
  BY DEF GateInv, Complete, RowsOK, Gated, HoldStamp, Goto, ResolveApprovers, Eligible
<1>4. DecidersOK'
  BY DEF GateInv, DecidersOK, HoldStamp
<1>5. ReleaseOK'
  BY DEF GateInv, Complete, ReleaseOK, Left, ApprovedRow, RitmOf, Gated, HoldStamp
<1> QED BY <1>1, <1>2, <1>3, <1>4, <1>5 DEF GateInv

(* Parking writes pending rows for eligible approvers, and only rows of the *)
(* parking call, of which there were none.                                  *)
LEMMA ParkKeeps ==
  ASSUME GateInv, NEW c \in Callers, Park(c)
  PROVE  GateInv'
<1>1. GateTypeOK'
  <2>1. ritm' \in [Callers -> RitmRecords]
    BY DEF GateInv, GateTypeOK, Park, RitmRecords
  <2>2. row' \in [Rows -> RowRecords]
    BY DEF GateInv, GateTypeOK, Park, RowRecords
  <2> QED BY <2>1, <2>2 DEF GateInv, GateTypeOK, Park, Goto, PCs
<1>2. IntakeOK'
  BY DEF GateInv, Complete, IntakeOK, Gated, Park, Goto
<1>3. RowsOK'
  BY DEF GateInv, Complete, GateTypeOK, IntakeOK, RowsOK, Gated, Park, Goto, ResolveApprovers, Eligible
<1>4. DecidersOK'
  BY DEF GateInv, Complete, GateTypeOK, RowsOK, DecidersOK, Park, DecRecords
<1>5. ReleaseOK'
  <2>1. \A x \in Rows : x[1] = c => row[x].state = "none"
    BY DEF GateInv, Complete, RowsOK, Park
  <2>2. \A x \in Rows : row[x].state # "none" => row'[x] = row[x]
    BY <2>1 DEF GateInv, GateTypeOK, Park
  <2>3. \A r \in Callers : ApprovedRow(r) => ApprovedRow(r)'
    BY <2>2 DEF ApprovedRow, Park
  <2>4. \A r \in Callers : ritm'[r].state = ritm[r].state
    BY DEF Park
  <2>5. \A d \in Deciders : dec[d].pc # "idle" => RitmOf(d) \in Callers
    BY InFlight
  <2> QED BY <2>3, <2>4, <2>5 DEF GateInv, Complete, ReleaseOK, Left, Gated, RitmOf, Park
<1> QED BY <1>1, <1>2, <1>3, <1>4, <1>5 DEF GateInv

(* A direct dispatch happens only where no approval is required. *)
LEMMA DispatchKeeps ==
  ASSUME GateInv, NEW c \in Callers, Dispatch(c)
  PROVE  GateInv'
<1>1. GateTypeOK'
  BY DEF GateInv, GateTypeOK, Dispatch, Goto, PCs
<1>2. IntakeOK'
  BY DEF GateInv, Complete, IntakeOK, Gated, Dispatch, Goto
<1>3. RowsOK'
  BY DEF GateInv, Complete, RowsOK, Gated, Dispatch, Goto, ResolveApprovers, Eligible
<1>4. DecidersOK'
  BY DEF GateInv, DecidersOK, Dispatch
<1>5. ReleaseOK'
  BY DEF GateInv, Complete, GateTypeOK, IntakeOK, RowsOK, DecidersOK, ReleaseOK, ApprovedRow, RitmOf, Gated,
      Dispatch, Rows
<1> QED BY <1>1, <1>2, <1>3, <1>4, <1>5 DEF GateInv

(* A call that dies leaves what it committed. *)
LEMMA AbandonKeeps ==
  ASSUME GateInv, NEW c \in Callers, Abandon(c)
  PROVE  GateInv'
<1>1. GateTypeOK'
  BY DEF GateInv, GateTypeOK, Abandon, Goto, PCs
<1>2. IntakeOK'
  BY DEF GateInv, Complete, IntakeOK, Gated, Abandon, Goto
<1>3. RowsOK'
  BY DEF GateInv, Complete, RowsOK, Gated, Abandon, Goto, ResolveApprovers, Eligible
<1>4. DecidersOK'
  BY DEF GateInv, DecidersOK, Abandon
<1>5. ReleaseOK'
  BY DEF GateInv, Complete, ReleaseOK, Left, ApprovedRow, RitmOf, Gated, Abandon
<1> QED BY <1>1, <1>2, <1>3, <1>4, <1>5 DEF GateInv

(* A decide request starts with a pending row and its requested_from. *)
LEMMA GetApprovalKeeps ==
  ASSUME GateInv, NEW d \in Deciders, NEW x \in Rows, NEW u \in Users, NEW yes \in BOOLEAN, GetApproval(d, x, u, yes)
  PROVE  GateInv'
<1>1. GateTypeOK'
  <2>1. [Idle EXCEPT !.pc = "update", !.row = x, !.by = u, !.yes = yes] \in DecRecords
    BY DEF Idle, DecRecords, DecPCs, Rows
  <2> QED BY <2>1 DEF GateInv, GateTypeOK, GetApproval, intake
<1>2. IntakeOK'
  BY DEF GateInv, Complete, IntakeOK, Gated, GetApproval, intake
<1>3. RowsOK'
  BY DEF GateInv, Complete, RowsOK, Gated, GetApproval, intake, ResolveApprovers, Eligible
<1>4. DecidersOK'
  BY DEF GateInv, DecidersOK, GetApproval, Idle
<1>5. ReleaseOK'
  BY DEF GateInv, Complete, ReleaseOK, Left, ApprovedRow, RitmOf, Gated, GetApproval, intake
<1> QED BY <1>1, <1>2, <1>3, <1>4, <1>5 DEF GateInv

(* The guarded UPDATE takes the lock of a pending row that nobody holds. *)
LEMMA UpdateDecisionKeeps ==
  ASSUME GateInv, NEW d \in Deciders, UpdateDecision(d)
  PROVE  GateInv'
<1>1. GateTypeOK'
  <2>1. dec[d] \in DecRecords /\ dec[d].row \in Rows
    BY InFlight DEF GateInv, GateTypeOK, UpdateDecision
  <2>2. \A S \in SUBSET Rows :
          /\ [dec[d] EXCEPT !.pc = "withdraw", !.locked = {dec[d].row}, !.todo = S] \in DecRecords
          /\ [dec[d] EXCEPT !.pc = "apply", !.locked = {dec[d].row}] \in DecRecords
    BY <2>1 DEF DecRecords, DecPCs
  <2>3. {y \in RowsOf(RitmOf(d)) \ {dec[d].row} : row[y].state = "pending"} \in SUBSET Rows
    BY DEF RowsOf
  <2> QED BY <2>2, <2>3, IdleType DEF GateInv, GateTypeOK, UpdateDecision, intake
<1>2. IntakeOK'
  BY DEF GateInv, Complete, IntakeOK, Gated, UpdateDecision, intake
<1>3. RowsOK'
  BY DEF GateInv, Complete, RowsOK, Gated, UpdateDecision, intake, ResolveApprovers, Eligible
<1>4. DecidersOK'
  BY DEF GateInv, Complete, GateTypeOK, RowsOK, DecidersOK, UpdateDecision, Lockers, Idle
<1>5. ReleaseOK'
  <2>1. dec'[d].pc # "release" /\ \A e \in Deciders : e # d => dec'[e] = dec[e]
    BY DEF UpdateDecision, Idle
  <2>2. UNCHANGED <<policy, target, ritm, planned, row, events, released, started>>
    BY DEF UpdateDecision, intake
  <2> QED BY <2>1, <2>2 DEF GateInv, Complete, ReleaseOK, Left, ApprovedRow, RitmOf, Gated
<1> QED BY <1>1, <1>2, <1>3, <1>4, <1>5 DEF GateInv

(* Withdrawing a sibling locks it only while it is pending. *)
LEMMA WithdrawOtherKeeps ==
  ASSUME GateInv, NEW d \in Deciders, NEW x \in Rows, WithdrawOther(d, x)
  PROVE  GateInv'
<1>1. GateTypeOK'
  <2> DEFINE g == [dec[d] EXCEPT !.todo = @ \ {x},
                                 !.locked = IF row[x].state = "pending" THEN @ \cup {x} ELSE @]
  <2>1. dec[d] \in DecRecords
    BY DEF GateInv, GateTypeOK
  <2>2. g \in DecRecords
    BY <2>1 DEF DecRecords
  <2>3. dec' = [dec EXCEPT ![d] = g]
    BY <2>1 DEF WithdrawOther
  <2> HIDE DEF g
  <2> QED BY <2>2, <2>3 DEF GateInv, GateTypeOK, WithdrawOther, intake
<1>2. IntakeOK'
  BY DEF GateInv, Complete, IntakeOK, Gated, WithdrawOther, intake
<1>3. RowsOK'
  BY DEF GateInv, Complete, RowsOK, Gated, WithdrawOther, intake, ResolveApprovers, Eligible
<1>4. DecidersOK'
  <2> DEFINE g == [dec[d] EXCEPT !.todo = @ \ {x},
                                 !.locked = IF row[x].state = "pending" THEN @ \cup {x} ELSE @]
  <2>1. dec[d] \in DecRecords
    BY DEF GateInv, GateTypeOK
  <2>a. dec'[d] = g
    BY <2>1 DEF GateInv, GateTypeOK, WithdrawOther
  <2>b. /\ g.pc = dec[d].pc /\ g.row = dec[d].row /\ g.by = dec[d].by
        /\ \/ g.locked = dec[d].locked
           \/ row[x].state = "pending" /\ g.locked = dec[d].locked \cup {x}
    BY <2>1 DEF DecRecords
  <2>2. /\ dec'[d].pc = dec[d].pc /\ dec'[d].row = dec[d].row /\ dec'[d].by = dec[d].by
        /\ \/ dec'[d].locked = dec[d].locked
           \/ row[x].state = "pending" /\ dec'[d].locked = dec[d].locked \cup {x}
    BY <2>a, <2>b
  <2>3. \A e \in Deciders : e # d => dec'[e] = dec[e] /\ x \notin dec[e].locked
    BY DEF GateInv, GateTypeOK, WithdrawOther, Lockers
  <2>4. row' = row
    BY DEF WithdrawOther
  <2> QED BY <2>2, <2>3, <2>4 DEF GateInv, DecidersOK
<1>5. ReleaseOK'
  <2>1. dec'[d].pc # "release" /\ \A e \in Deciders : e # d => dec'[e] = dec[e]
    BY DEF GateInv, GateTypeOK, WithdrawOther
  <2>2. UNCHANGED <<policy, target, ritm, planned, row, events, released, started>>
    BY DEF WithdrawOther, intake
  <2> QED BY <2>1, <2>2 DEF GateInv, Complete, ReleaseOK, Left, ApprovedRow, RitmOf, Gated
<1> QED BY <1>1, <1>2, <1>3, <1>4, <1>5 DEF GateInv

(* An aborted transaction forgets its locks. *)
LEMMA DeadlockAbortKeeps ==
  ASSUME GateInv, NEW d \in Deciders, DeadlockAbort(d)
  PROVE  GateInv'
<1>1. GateTypeOK'
  BY DEF GateInv, GateTypeOK, DeadlockAbort, Idle, intake, DecRecords, DecPCs
<1>2. IntakeOK'
  BY DEF GateInv, Complete, IntakeOK, Gated, DeadlockAbort, intake
<1>3. RowsOK'
  BY DEF GateInv, Complete, RowsOK, Gated, DeadlockAbort, intake, ResolveApprovers, Eligible
<1>4. DecidersOK'
  BY DEF GateInv, DecidersOK, DeadlockAbort, Idle
<1>5. ReleaseOK'
  BY DEF GateInv, Complete, ReleaseOK, Left, ApprovedRow, RitmOf, Gated, DeadlockAbort, Idle, intake
<1> QED BY <1>1, <1>2, <1>3, <1>4, <1>5 DEF GateInv

(* The commit decides rows that were pending and locked, and takes the RITM *)
(* out of "requested" at most once: the decider that does so is the only    *)
(* one to hold its release.                                                 *)
LEMMA ApplyOutcomeKeeps ==
  ASSUME GateInv, NEW d \in Deciders, ApplyOutcome(d)
  PROVE  GateInv'
<1> DEFINE r == RitmOf(d)
           to == IF dec[d].yes THEN "approved" ELSE "rejected"
<1>a. /\ dec[d] \in DecRecords /\ dec[d].pc \in {"withdraw", "apply"}
      /\ dec[d].row \in dec[d].locked /\ dec[d].locked \in SUBSET Rows
      /\ dec[d].row \in Rows /\ dec[d].by = dec[d].row[2] /\ dec[d].by \in Users
      /\ r \in Callers /\ r \in Complete /\ Gated
  BY InFlight DEF GateInv, GateTypeOK, DecidersOK, ApplyOutcome, DecRecords
<1>b. /\ \A x \in dec[d].locked : row[x].state = "pending"
      /\ \A e \in Deciders : e # d => dec[d].locked \cap dec[e].locked = {}
  BY DEF GateInv, DecidersOK
<1>c. UNCHANGED <<policy, pc, target, planned, events, released, started, running, budget>>
  BY DEF ApplyOutcome, intake
<1>d. \/ /\ ritm[r].state = "requested"
         /\ ritm' = [ritm EXCEPT ![r] = [state |-> to, approval |-> to]]
         /\ sr' = [sr EXCEPT ![r] = to]
         /\ dec' = [dec EXCEPT ![d] =
                      IF @.yes THEN [@ EXCEPT !.pc = "release", !.locked = {}] ELSE Idle]
      \/ /\ dec' = [dec EXCEPT ![d] = Idle]
         /\ UNCHANGED <<ritm, sr>>
  BY DEF ApplyOutcome
<1>e. /\ row' \in [Rows -> RowRecords]
      /\ row'[dec[d].row].state = to /\ row'[dec[d].row].by = dec[d].row[2]
      /\ \A x \in Rows : row'[x].state = "approved" /\ x # dec[d].row => row'[x] = row[x]
      /\ \A x \in Rows : x \notin dec[d].locked => row'[x] = row[x]
      /\ \A x \in Rows : row'[x].state # "none" <=> row[x].state # "none"
  <2>1. \A x \in Rows : row[x] \in RowRecords /\ [row[x] EXCEPT !.state = "withdrawn"] \in RowRecords
    BY DEF GateInv, GateTypeOK, RowRecords
  <2>2. [state |-> to, by |-> dec[d].by] \in RowRecords
    BY <1>a DEF RowRecords
  <2>3. row' = [x \in Rows |->
                 IF x = dec[d].row THEN [state |-> to, by |-> dec[d].by]
                 ELSE IF x \in dec[d].locked THEN [row[x] EXCEPT !.state = "withdrawn"]
                 ELSE row[x]]
    BY DEF ApplyOutcome
  <2>4. row' \in [Rows -> RowRecords]
    BY <2>1, <2>2, <2>3
  <2>5. \A x \in Rows : [row[x] EXCEPT !.state = "withdrawn"].state = "withdrawn"
    BY <2>1 DEF RowRecords
  <2>6. \A x \in Rows : x \notin dec[d].locked => row'[x] = row[x]
    BY <1>a, <2>3
  <2>7. \A x \in dec[d].locked : x # dec[d].row => row'[x].state = "withdrawn"
    BY <1>a, <2>3, <2>5
  <2>8. row'[dec[d].row] = [state |-> to, by |-> dec[d].by]
    BY <1>a, <2>3
  <2> QED BY <1>a, <1>b, <2>4, <2>6, <2>7, <2>8
<1>f. /\ dec' \in [Deciders -> DecRecords]
      /\ dec'[d].locked = {} /\ dec'[d].pc \in {"idle", "release"}
      /\ \A e \in Deciders : e # d => dec'[e] = dec[e]
      /\ dec'[d].pc = "release" =>
           /\ dec'[d].row = dec[d].row /\ dec'[d].by = dec[d].by
           /\ to = "approved" /\ ritm[r].state = "requested" /\ ritm'[r].state = "approved"
  <2>1. [dec[d] EXCEPT !.pc = "release", !.locked = {}] \in DecRecords
    BY <1>a DEF DecRecords, DecPCs
  <2>2. Idle.pc = "idle" /\ Idle.locked = {}
    BY DEF Idle
  <2>3. LET g == [dec[d] EXCEPT !.pc = "release", !.locked = {}] IN
        g.pc = "release" /\ g.locked = {} /\ g.row = dec[d].row /\ g.by = dec[d].by
    BY <1>a DEF DecRecords
  <2>4. /\ dec' \in [Deciders -> DecRecords]
        /\ \A e \in Deciders : e # d => dec'[e] = dec[e]
    BY <1>d, <2>1, IdleType DEF GateInv, GateTypeOK
  <2>5. \/ dec'[d] = Idle
        \/ /\ dec'[d] = [dec[d] EXCEPT !.pc = "release", !.locked = {}] /\ dec[d].yes
           /\ ritm[r].state = "requested"
           /\ ritm' = [ritm EXCEPT ![r] = [state |-> to, approval |-> to]]
    BY <1>d DEF GateInv, GateTypeOK
  <2>6. ASSUME ritm' = [ritm EXCEPT ![r] = [state |-> to, approval |-> to]]
        PROVE  ritm'[r].state = to
    BY <1>a, <2>6 DEF GateInv, GateTypeOK
  <2> QED BY <2>2, <2>3, <2>4, <2>5, <2>6
<1>g. /\ ritm' \in [Callers -> RitmRecords]
      /\ \A s \in Callers : ritm[s].state # "none" => ritm'[s].state # "none"
      /\ \A s \in Callers : ritm[s].state = "none" => ritm'[s] = ritm[s]
      /\ \A s \in Callers : Left(s) => ritm'[s] = ritm[s] /\ Left(s)'
  <2>1. CASE ritm' = ritm
    BY <2>1 DEF GateInv, GateTypeOK, Left
  <2>2. CASE ritm[r].state = "requested" /\ ritm' = [ritm EXCEPT ![r] = [state |-> to, approval |-> to]]
    <3>1. [state |-> to, approval |-> to] \in RitmRecords
      BY DEF RitmRecords, RitmStates
    <3>2. ritm' \in [Callers -> RitmRecords]
      BY <2>2, <3>1 DEF GateInv, GateTypeOK
    <3>3. \A s \in Callers : s # r => ritm'[s] = ritm[s]
      BY <2>2 DEF GateInv, GateTypeOK
    <3>4. ritm'[r].state = to
      BY <1>a, <2>2 DEF GateInv, GateTypeOK
    <3> QED BY <2>2, <3>2, <3>3, <3>4 DEF Left
  <2> QED BY <1>d, <2>1, <2>2
<1>h. Complete \subseteq Complete'
  BY <1>c, <1>g DEF Complete
<1>1. GateTypeOK'
  BY <1>a, <1>c, <1>d, <1>e, <1>f, <1>g DEF GateInv, GateTypeOK
<1>2. IntakeOK'
  BY <1>c, <1>g DEF GateInv, Complete, GateTypeOK, IntakeOK, Gated
<1>3. RowsOK'
  <2>1. ResolveApprovers' = ResolveApprovers
    BY <1>c DEF ResolveApprovers, Eligible
  <2> QED BY <2>1, <1>a, <1>c, <1>e, <1>h DEF GateInv, RowsOK, Gated
<1>4. DecidersOK'
  <2>1. ASSUME NEW e \in Deciders, e # d PROVE
          /\ dec[e].pc # "idle" => row'[dec[e].row].state # "none"
          /\ dec[e].pc = "release" => row'[dec[e].row].state = "approved"
          /\ \A x \in dec[e].locked : row'[x].state = "pending"
    <3>1. dec[e].locked \in SUBSET Rows
      BY DEF GateInv, GateTypeOK, DecRecords
    <3>2. \A x \in dec[e].locked : x \notin dec[d].locked /\ row[x].state = "pending"
      BY <1>b, <2>1 DEF GateInv, DecidersOK
    <3>3. dec[e].pc # "idle" => dec[e].row \in Rows /\ row[dec[e].row].state # "none"
      BY DEF GateInv, DecidersOK
    <3>4. dec[e].pc = "release" => row[dec[e].row].state = "approved"
      BY DEF GateInv, DecidersOK
    <3> QED BY <1>b, <1>e, <3>1, <3>2, <3>3, <3>4
  <2>2. \A e \in Deciders : e # d => dec'[e] = dec[e]
    BY <1>f
  <2>3. /\ dec'[d].locked = {} /\ dec'[d].pc \in {"idle", "release"}
        /\ dec'[d].pc = "release" => /\ dec'[d].row \in Rows /\ dec'[d].by = dec'[d].row[2]
                                    /\ row'[dec'[d].row].state = "approved"
    BY <1>a, <1>e, <1>f
  <2> QED BY <2>1, <2>2, <2>3 DEF GateInv, DecidersOK
<1>5. ReleaseOK'
  <2>1. \A e \in Deciders : e # d => RitmOf(e)' = RitmOf(e)
    BY <1>c, <1>f DEF RitmOf
  <2>2. dec'[d].pc = "release" => RitmOf(d)' = r /\ ~ Left(r) /\ Left(r)'
    BY <1>c, <1>f DEF RitmOf, Left
  <2>3. \A s \in Callers : ApprovedRow(s) => ApprovedRow(s)'
    BY <1>b, <1>c, <1>e DEF ApprovedRow
  <2>4. \A e \in Deciders : dec[e].pc = "release" => RitmOf(e) \in Callers /\ Left(RitmOf(e))
    BY InFlight DEF GateInv, Complete, ReleaseOK
  <2>5. released[r] = 0 \/ Left(r)
    BY <1>a DEF GateInv, Complete, GateTypeOK, ReleaseOK
  <2>6. \A s \in Callers : Left(s) => Left(s)'
    BY <1>g
  <2>7. \A s \in Callers : /\ released'[s] > 0 => s \in Complete'
                           /\ events'[s] > 0 \/ s \in started' => released'[s] > 0
                           /\ Gated' /\ released'[s] > 0 => released'[s] = 1 /\ Left(s)' /\ ApprovedRow(s)'
    BY <1>c, <1>h, <2>3, <2>6 DEF GateInv, ReleaseOK, Gated
  <2>8. ASSUME NEW e \in Deciders, dec'[e].pc = "release"
        PROVE  released'[RitmOf(e)'] = 0 /\ (Left(RitmOf(e)))'
    <3>1. CASE e = d
      BY <1>c, <2>2, <2>5, <2>8, <3>1
    <3>2. CASE e # d
      <4>1. dec[e].pc = "release" /\ RitmOf(e)' = RitmOf(e)
        BY <1>f, <2>1, <2>8, <3>2
      <4>2. released[RitmOf(e)] = 0 /\ ritm'[RitmOf(e)] = ritm[RitmOf(e)] /\ Left(RitmOf(e))
        BY <1>g, <2>4, <4>1 DEF GateInv, Complete, ReleaseOK
      <4> QED BY <1>c, <4>1, <4>2 DEF Left
    <3> QED BY <3>1, <3>2
  <2>9. ASSUME NEW e \in Deciders, NEW f \in Deciders, dec'[e].pc = "release", dec'[f].pc = "release",
               RitmOf(e)' = RitmOf(f)'
        PROVE  e = f
    <3>1. ASSUME NEW g \in Deciders, g # d, dec'[g].pc = "release"
          PROVE  dec[g].pc = "release" /\ RitmOf(g)' = RitmOf(g) /\ Left(RitmOf(g))
      BY <1>f, <2>1, <2>4, <3>1
    <3> QED BY <2>2, <2>9, <3>1 DEF GateInv, Complete, ReleaseOK
  <2> QED BY <2>7, <2>8, <2>9 DEF ReleaseOK
<1> QED BY <1>1, <1>2, <1>3, <1>4, <1>5 DEF GateInv

(* The release uses the right up. *)
LEMMA ReleaseKeeps ==
  ASSUME GateInv, NEW d \in Deciders, Release(d)
  PROVE  GateInv'
<1>1. GateTypeOK'
  <2>1. RitmOf(d) \in Callers
    BY InFlight DEF Release
  <2> QED BY <2>1, IdleType DEF GateInv, GateTypeOK, Release, intake
<1>2. IntakeOK'
  BY DEF GateInv, Complete, IntakeOK, Gated, Release, intake
<1>3. RowsOK'
  BY DEF GateInv, Complete, RowsOK, Gated, Release, intake, ResolveApprovers, Eligible
<1>4. DecidersOK'
  <2>1. dec'[d] = Idle /\ row' = row /\ \A e \in Deciders : e # d => dec'[e] = dec[e]
    BY DEF GateInv, GateTypeOK, Release
  <2>2. Idle.pc = "idle" /\ Idle.locked = {}
    BY DEF Idle
  <2> QED BY <2>1, <2>2 DEF GateInv, DecidersOK
<1>5. ReleaseOK'
  <2> DEFINE r == RitmOf(d)
  <2>1. r \in Complete /\ r \in Callers /\ Gated /\ dec[d].row \in Rows /\ dec[d].row[1] \in Callers
    BY InFlight DEF Release
  <2>2. released[r] = 0 /\ Left(r) /\ ApprovedRow(r)
    BY <2>1 DEF GateInv, Complete, DecidersOK, ReleaseOK, ApprovedRow, Release, RitmOf
  <2>3. \A e \in Deciders : dec'[e].pc = "release" =>
            e # d /\ dec[e] = dec'[e] /\ RitmOf(e)' = RitmOf(e) /\ RitmOf(e) # r /\ RitmOf(e) \in Callers
    <3>1. dec'[d] = Idle /\ Idle.pc = "idle" /\ \A e \in Deciders : e # d => dec'[e] = dec[e]
      BY DEF GateInv, GateTypeOK, Release, Idle
    <3>2. target' = target
      BY DEF Release, intake
    <3> QED BY <3>1, <3>2, InFlight DEF GateInv, Complete, ReleaseOK, RitmOf, Release
  <2>4. /\ \A s \in Callers : s # r => released'[s] = released[s] /\ events'[s] = events[s]
        /\ (released'[r] = 1) \/ (released'[r] = 0 /\ events' = events)
    BY <2>1, <2>2 DEF GateInv, GateTypeOK, Release
  <2>5. UNCHANGED <<policy, pc, target, ritm, row, planned, started>>
    BY DEF Release, intake
  <2>6. \A s \in Callers : (ApprovedRow(s)' <=> ApprovedRow(s)) /\ (Left(s)' <=> Left(s))
    BY <2>5 DEF ApprovedRow, Left
  <2>7. \A e \in Deciders : dec'[e].pc = "release" => released'[RitmOf(e)'] = 0 /\ (Left(RitmOf(e)))'
    BY <2>3, <2>4, <2>5 DEF GateInv, Complete, ReleaseOK, Left
  <2>8. \A s \in Callers : /\ released'[s] > 0 => s \in Complete'
                           /\ events'[s] > 0 \/ s \in started' => released'[s] > 0
                           /\ Gated' /\ released'[s] > 0 => released'[s] = 1 /\ Left(s)' /\ ApprovedRow(s)'
    BY <2>1, <2>2, <2>4, <2>5, <2>6 DEF GateInv, Complete, ReleaseOK
  <2> QED BY <2>3, <2>7, <2>8 DEF GateInv, Complete, ReleaseOK
<1> QED BY <1>1, <1>2, <1>3, <1>4, <1>5 DEF GateInv

(* A decider that dies forgets its locks and its right to release. *)
LEMMA DeciderDiesKeeps ==
  ASSUME GateInv, NEW d \in Deciders, DeciderDies(d)
  PROVE  GateInv'
<1>1. GateTypeOK'
  BY DEF GateInv, GateTypeOK, DeciderDies, Idle, intake, DecRecords, DecPCs
<1>2. IntakeOK'
  BY DEF GateInv, Complete, IntakeOK, Gated, DeciderDies, intake
<1>3. RowsOK'
  BY DEF GateInv, Complete, RowsOK, Gated, DeciderDies, intake, ResolveApprovers, Eligible
<1>4. DecidersOK'
  BY DEF GateInv, DecidersOK, DeciderDies, Idle
<1>5. ReleaseOK'
  BY DEF GateInv, Complete, ReleaseOK, Left, ApprovedRow, RitmOf, Gated, DeciderDies, Idle, intake
<1> QED BY <1>1, <1>2, <1>3, <1>4, <1>5 DEF GateInv

(* An execution starts from an accepted event, so from a release. *)
LEMMA ExecuteStartKeeps ==
  ASSUME GateInv, NEW r \in Callers, ExecuteStart(r)
  PROVE  GateInv'
<1>1. GateTypeOK'
  <2>1. ritm' \in [Callers -> RitmRecords]
    BY DEF GateInv, GateTypeOK, ExecuteStart, RitmRecords, RitmStates
  <2>2. running' \in SUBSET started' /\ started' \in SUBSET Callers
    BY DEF GateInv, GateTypeOK, ExecuteStart
  <2>3. events' \in [Callers -> Nat]
    BY DEF GateInv, GateTypeOK, ExecuteStart
  <2> QED BY <2>1, <2>2, <2>3 DEF GateInv, GateTypeOK, ExecuteStart, intake
<1>2. IntakeOK'
  BY DEF GateInv, Complete, IntakeOK, Gated, ExecuteStart, intake
<1>3. RowsOK'
  BY DEF GateInv, Complete, RowsOK, Gated, ExecuteStart, intake, ResolveApprovers, Eligible
<1>4. DecidersOK'
  BY DEF GateInv, DecidersOK, ExecuteStart
<1>5. ReleaseOK'
  BY DEF GateInv, Complete, ReleaseOK, Left, ApprovedRow, RitmOf, Gated, ExecuteStart, intake
<1> QED BY <1>1, <1>2, <1>3, <1>4, <1>5 DEF GateInv

(* An execution ends in a final state, never back in "requested". *)
LEMMA ExecuteEndKeeps ==
  ASSUME GateInv, NEW r \in Callers, ExecuteEnd(r)
  PROVE  GateInv'
<1>1. GateTypeOK'
  BY DEF GateInv, GateTypeOK, ExecuteEnd, intake, RitmRecords, RitmStates
<1>2. IntakeOK'
  BY DEF GateInv, Complete, GateTypeOK, IntakeOK, ReleaseOK, Gated, ExecuteEnd, intake
<1>3. RowsOK'
  BY DEF GateInv, Complete, RowsOK, Gated, ExecuteEnd, intake, ResolveApprovers, Eligible
<1>4. DecidersOK'
  BY DEF GateInv, DecidersOK, ExecuteEnd
<1>5. ReleaseOK'
  BY DEF GateInv, Complete, ReleaseOK, Left, ApprovedRow, RitmOf, Gated, ExecuteEnd, intake
<1> QED BY <1>1, <1>2, <1>3, <1>4, <1>5 DEF GateInv

-----------------------------------------------------------------------------
(* The gate's invariant holds in every reachable state: whatever calls,    *)
(* retries, deciders, crashes and executions interleave.                   *)
THEOREM GateInvariant == Spec => []GateInv
<1>1. Init => GateInv
  <2> SUFFICES ASSUME Init PROVE GateInv
    OBVIOUS
  <2>1. GateTypeOK
    BY IdleType, CountAssumption DEF Init, GateTypeOK, PCs, RitmRecords, RitmStates, RowRecords,
        NoRow
  <2>2. IntakeOK
    BY RequesterAssumption DEF Init, IntakeOK
  <2>3. RowsOK /\ DecidersOK /\ ReleaseOK
    BY DEF Init, RowsOK, DecidersOK, ReleaseOK, NoRow, Idle
  <2> QED BY <2>1, <2>2, <2>3 DEF GateInv
<1>2. GateInv /\ [Next]_vars => GateInv'
  <2> SUFFICES ASSUME GateInv, [Next]_vars PROVE GateInv'
    OBVIOUS
  <2>1. ASSUME NEW c \in Callers, Create(c) PROVE GateInv'
    BY <2>1, InsertRequestKeeps, FindOpenDuplicateKeeps, CheckKeyKeeps, InsertRitmKeeps,
       InsertTaskKeeps, InsertRunKeeps, SelfServiceKeeps, HoldUnresolvedKeeps, HoldStampKeeps, ParkKeeps,
       DispatchKeeps, AbandonKeeps DEF Create
  <2>2. ASSUME NEW d \in Deciders, Decide(d) PROVE GateInv'
    BY <2>2, GetApprovalKeeps, UpdateDecisionKeeps, WithdrawOtherKeeps, DeadlockAbortKeeps,
       ApplyOutcomeKeeps, ReleaseKeeps, DeciderDiesKeeps DEF Decide
  <2>3. ASSUME NEW r \in Callers, ExecuteStart(r) \/ ExecuteEnd(r) PROVE GateInv'
    BY <2>3, ExecuteStartKeeps, ExecuteEndKeeps
  <2>4. CASE UNCHANGED vars
    <3>1. UNCHANGED <<policy, pc, target, sr, ritm, planned, row, events, released, started,
                      running, dec, budget>>
      BY <2>4 DEF vars
    <3>2. GateTypeOK' /\ IntakeOK' /\ RowsOK'
      BY <3>1 DEF GateInv, Complete, GateTypeOK, IntakeOK, RowsOK, Gated, ResolveApprovers, Eligible
    <3>3. DecidersOK' /\ ReleaseOK'
      BY <3>1 DEF GateInv, Complete, DecidersOK, ReleaseOK, Gated, Left, ApprovedRow, RitmOf
    <3> QED BY <3>2, <3>3 DEF GateInv
  <2> QED BY <2>1, <2>2, <2>3, <2>4 DEF Next
<1> QED BY <1>1, <1>2, PTL DEF Spec

(* The gate fails closed: where approval is required nothing is executed   *)
(* before somebody asked to decide approved it, other than the requester   *)
(* where the stage blocks self-approval.                                   *)
THEOREM GateFailsClosed == Spec => []NoUnapprovedRun
<1>1. GateInv => NoUnapprovedRun
  <2> SUFFICES ASSUME GateInv, NEW r \in started, GateEnabled, policy.required
               PROVE  \E x \in RowsOf(r) : /\ row[x].state = "approved" /\ row[x].by = x[2]
                                           /\ policy.blockSelf => row[x].by # Requester
    BY DEF NoUnapprovedRun
  <2>1. r \in Callers /\ ApprovedRow(r)
    BY DEF GateInv, Complete, GateTypeOK, ReleaseOK, Gated
  <2>2. PICK x \in Rows : row[x].state = "approved" /\ target[x[1]] = r
    BY <2>1 DEF ApprovedRow
  <2>3. x[2] \in ResolveApprovers /\ row[x].by = x[2]
    BY <2>2 DEF GateInv, Complete, RowsOK
  <2>4. policy.blockSelf => x[2] # Requester
    BY <2>3 DEF ResolveApprovers, Eligible
  <2>5. x \in RowsOf(r)
    BY <2>2 DEF RowsOf
  <2> QED BY <2>2, <2>3, <2>4, <2>5
<1> QED BY <1>1, GateInvariant, PTL

(* However many approvers decide at once, what the gate withheld is        *)
(* released at most once.                                                  *)
THEOREM GateReleasesOnce == Spec => []ReleasedOnce
<1>1. GateInv => ReleasedOnce
  BY DEF GateInv, Complete, GateTypeOK, ReleaseOK, Gated, ReleasedOnce
<1> QED BY <1>1, GateInvariant, PTL

(* All task rows exist before any event for their RITM, wherever the calls *)
(* that insert them one by one die or overtake each other.                 *)
THEOREM PlanBeforeRun == Spec => []RunHasPlan
<1>1. GateInv => RunHasPlan
  BY DEF GateInv, Complete, ReleaseOK, RunHasPlan
<1> QED BY <1>1, GateInvariant, PTL

=============================================================================
