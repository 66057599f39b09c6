---------------------------- MODULE TriageAdvice ----------------------------
(***************************************************************************)
(* What UC-5 computes about a ticket (use_cases/uc05_triage): the queue,   *)
(* the neighbours of a ticket and their votes, the priority matrix and the *)
(* proposal.  Scores and confidences are ten-thousandths.                  *)
(*                                                                         *)
(* A row is [tenant, service, status, title, age, svc, vals]: title is     *)
(* <<words, copy>>, copy the number in a trailing "(2)"; age is its share  *)
(* of the 365-day window; vals maps the triage columns to a value or NoVal.*)
(***************************************************************************)
EXTENDS RankedLists, SequencesExt, FiniteSetsExt

NoVal == "null"
One == 10000
Columns == {"category", "subcategory", "impact", "urgency", "priority",
            "assignment_group", "assigned_to", "ci_id"}

-----------------------------------------------------------------------------
(* queue.py *)

TriageFieldsFor(service) ==
  IF service = "incident" THEN Columns \ {"ci_id"}
  ELSE {"category", "priority", "assignment_group", "assigned_to"}
WritableFieldsFor(service) == TriageFieldsFor(service) \cup {"ci_id"}
MissingFields(row) == {c \in TriageFieldsFor(row.service) : row.vals[c] = NoVal}
ClosedStatuses == {"closed", "resolved", "cancelled"}
IsInQueue(row) == row.status \notin ClosedStatuses /\ MissingFields(row) # {}

-----------------------------------------------------------------------------
(* retrieval/: open tickets of the tenant and the service inside the age   *)
(* window, ranked by text and by vector.  The probe is one of them.        *)

RetrievalSchema(service) ==
  [status |-> {"open", "in_progress", "assigned"} \cup (IF service = "request" THEN {"approved"} ELSE {}),
   targets |-> {"category", "assigned_to", "ci_id"} \cup (IF service = "incident" THEN {"subcategory"} ELSE {})]

PerSideLimit == 20
RrfK == 60
MinFused == 120
DuplicateThreshold == 1946  \* the score whose sigmoid is 0.85
MaxCandidates == 5

(* Mutant: the query forgets the tenant. *)
RankedAnyTenant(table, ranking, probe) ==
  LET hit(t) == /\ table[t].service = table[probe].service
                /\ table[t].status \in RetrievalSchema(table[probe].service).status
                /\ table[t].age < One
  IN Firsts(AtPositions(ranking, {i \in DOMAIN ranking : hit(ranking[i])}), PerSideLimit)
Ranked(table, ranking, probe) ==
  LET hit(t) == /\ table[t].tenant = table[probe].tenant
                /\ table[t].service = table[probe].service
                /\ table[t].status \in RetrievalSchema(table[probe].service).status
                /\ table[t].age < One
  IN Firsts(AtPositions(ranking, {i \in DOMAIN ranking : hit(ranking[i])}), PerSideLimit)

(* A ranking lists a ticket once. *)
Rrf(ranking, t) ==
  IF t \in Range(ranking) THEN One \div (RrfK + (CHOOSE i \in DOMAIN ranking : ranking[i] = t)) ELSE 0
FusedScore(fts, vec, t) == Rrf(fts, t) + Rrf(vec, t)
FuseRrf(fts, vec) ==
  LET found == fts \o AtPositions(vec, {i \in DOMAIN vec : vec[i] \notin Range(fts)})
      ranked == ByScore(found, [i \in DOMAIN found |-> FusedScore(fts, vec, found[i])])
  IN AtPositions(ranked, {i \in DOMAIN ranked : FusedScore(fts, vec, ranked[i]) >= MinFused})

RerankOne(table, probe, fts, vec, t) ==
  FusedScore(fts, vec, t)
    + (IF table[probe].vals["ci_id"] # NoVal /\ table[t].vals["ci_id"] = table[probe].vals["ci_id"] THEN 1000 ELSE 0)
    + (IF table[probe].svc # NoVal /\ table[t].svc = table[probe].svc THEN 500 ELSE 0)
    + (500 * (One - table[t].age)) \div One

NormaliseTitle(title) == title[1]
DedupByTitle(table, s) ==
  LET first(i) == table[s[i]].title[1] = "" \/
                  \A j \in 1..(i - 1) : NormaliseTitle(table[s[j]].title) # NormaliseTitle(table[s[i]].title)
  IN AtPositions(s, {i \in DOMAIN s : first(i)})

(* A failed embedding leaves the text ranking alone. *)
SearchSimilar(table, probe, ftsOrder, vecOrder) ==
  LET fts == Ranked(table, ftsOrder, probe)
      vec == Ranked(table, vecOrder, probe)
      fused == FuseRrf(fts, vec)
      score(t) == RerankOne(table, probe, fts, vec, t)
      reranked == ByScore(fused, [i \in DOMAIN fused |-> score(fused[i])])
      top == Firsts(DedupByTitle(table, reranked), MaxCandidates)
  IN [cands |-> top,
      top |-> IF top # <<>> /\ score(top[1]) >= DuplicateThreshold THEN top[1] ELSE NoVal]

-----------------------------------------------------------------------------
(* tools/: the neighbours vote; the model breaks a split vote, or proposes *)
(* a value where the votes are weak.  llm.tie and llm.propose are its      *)
(* replies, NoVal when a call fails.                                       *)

LlmFloor == 6000
CoverageMin == 4000
AssignFloor == 5000
ProposeAllowed == {"category", "subcategory", "assignment_group"}
Suggestion(value, conf, basis) == [value |-> value, conf |-> conf, basis |-> basis]

Votes(table, cands, col) ==
  LET voters == AtPositions(cands, {i \in DOMAIN cands : table[cands[i]].vals[col] # NoVal})
  IN [i \in DOMAIN voters |-> table[voters[i]].vals[col]]
CountOf(votes, v) == Cardinality({i \in DOMAIN votes : votes[i] = v})
Share(votes, v) == (One * CountOf(votes, v)) \div Len(votes)
(* Counter.most_common: the most votes, the first seen of equals. *)
Winner(votes) ==
  LET best == CHOOSE i \in DOMAIN votes :
                /\ \A j \in DOMAIN votes : CountOf(votes, votes[j]) <= CountOf(votes, votes[i])
                /\ \A j \in 1..(i - 1) : CountOf(votes, votes[j]) < CountOf(votes, votes[i])
  IN votes[best]

TiebreakWanted(votes, k) ==
  /\ Share(votes, Winner(votes)) < LlmFloor
  /\ One * Len(votes) >= CoverageMin * k
  /\ Cardinality(Range(votes)) >= 2
(* make_tiebreak_fn: only a value that was voted for is taken. *)
TryTiebreak(votes, k, llm) ==
  IF TiebreakWanted(votes, k) /\ llm.tie \in Range(votes)
  THEN Suggestion(llm.tie, Share(votes, llm.tie), "llm_tiebreak")
  ELSE Suggestion(NoVal, 0, "none")

(* make_propose_fn: high, medium and low are 0.80, 0.55 and 0.30. *)
LlmConfidence(word) ==
  CASE word = "high" -> 8000 [] word = "medium" -> 5500 [] OTHER -> 3000
SafePropose(col, llm) ==
  IF col \in ProposeAllowed /\ llm.propose[1] # NoVal
  THEN Suggestion(llm.propose[1], LlmConfidence(llm.propose[2]), "llm_propose")
  ELSE Suggestion(NoVal, 0, "none")
SuggestWhenNoVotes(col, llm) ==
  LET proposed == SafePropose(col, llm)
  IN IF proposed.value # NoVal THEN proposed ELSE Suggestion(NoVal, 0, "empty_neighbours")

SuggestForField(table, cands, col, llm) ==
  LET votes == Votes(table, cands, col)
      tie == TryTiebreak(votes, Len(cands), llm)
  IN IF votes = <<>> THEN SuggestWhenNoVotes(col, llm)
     ELSE IF tie.value # NoVal THEN tie
     ELSE Suggestion(Winner(votes), Share(votes, Winner(votes)), "majority_of_top_k")
ApplyProposeOverride(col, s, llm) ==
  LET proposed == SafePropose(col, llm)
  IN IF s.conf < LlmFloor /\ proposed.value # NoVal /\ proposed.conf > s.conf THEN proposed ELSE s
BuildFieldSuggestions(table, cands, targets, llm) ==
  [col \in targets |-> ApplyProposeOverride(col, SuggestForField(table, cands, col, llm), llm)]

(* Mutant: the ticket is taken out of the list only. *)
CheckDuplicatesSelf(table, probe, fts, vec, llm) ==
  LET found == SearchSimilar(table, probe, fts, vec)
      cands == AtPositions(found.cands, {i \in DOMAIN found.cands : found.cands[i] # probe})
  IN [k |-> Len(cands), groups |-> Votes(table, cands, "assignment_group"), top |-> found.top,
      sugg |-> BuildFieldSuggestions(table, cands, RetrievalSchema(table[probe].service).targets, llm)]
(* check_duplicate_candidates: the ticket itself comes out of the list and *)
(* of the top match after the search.  k and groups are what the next step *)
(* takes from the candidates' fields, as this search read them.            *)
CheckDuplicates(table, probe, fts, vec, llm) ==
  LET found == SearchSimilar(table, probe, fts, vec)
      cands == AtPositions(found.cands, {i \in DOMAIN found.cands : found.cands[i] # probe})
  IN [k |-> Len(cands), groups |-> Votes(table, cands, "assignment_group"),
      top |-> IF found.top = probe THEN NoVal ELSE found.top,
      sugg |-> BuildFieldSuggestions(table, cands, RetrievalSchema(table[probe].service).targets, llm)]

EmptyAssignment == Suggestion(NoVal, 0, "empty_neighbours")
RecommendAssignment(check, llm) ==
  LET votes == check.groups
      tie == TryTiebreak(votes, check.k, llm)
  IN IF check.k = 0 THEN EmptyAssignment
     ELSE IF votes = <<>> THEN Suggestion(NoVal, 0, "below_coverage")
     ELSE IF tie.value # NoVal THEN tie
     ELSE IF Share(votes, Winner(votes)) < AssignFloor
          THEN Suggestion(NoVal, Share(votes, Winner(votes)), "below_confidence_floor")
     ELSE Suggestion(Winner(votes), Share(votes, Winner(votes)), "majority_of_top_k")

-----------------------------------------------------------------------------
(* tools/prioritize.py over the matrix of service-schema.json. *)

Levels == <<"Low", "Medium", "High", "Urgent">>
Impacts == {"Low", "On Users", "On Department", "On Business"}
Matrix ==
  [i \in Impacts |->
     CASE i = "Low" -> <<1, 1, 2, 2>> [] i = "On Users" -> <<1, 1, 2, 3>>
       [] i = "On Department" -> <<2, 2, 3, 4>> [] OTHER -> <<2, 3, 4, 4>>]
LookupPriority(impact, urgency) ==
  LET u == {n \in DOMAIN Levels : Levels[n] = urgency}
  IN IF impact \in Impacts /\ u # {} THEN Levels[Matrix[impact][CHOOSE n \in u : TRUE]] ELSE "Medium"

SafeImpact == "On Users"
SafeUrgency == "Medium"
IncidentPath(vip, infer) ==
  LET impact == IF infer.impact \in Impacts THEN infer.impact ELSE SafeImpact
  IN [impact |-> IF vip /\ infer # [impact |-> NoVal, urgency |-> NoVal] THEN "On Business" ELSE impact,
      urgency |-> IF infer.urgency \in Range(Levels) THEN infer.urgency ELSE SafeUrgency]
DeriveImpact(category, vip) ==
  CASE vip -> "On Business" [] category = "onboarding" -> "On Department"
    [] category = "knowledge" -> "Low" [] OTHER -> SafeImpact
DeriveUrgency(sla) ==
  CASE sla = "approaching_50pct" -> "Medium" [] sla = "approaching_25pct" -> "High"
    [] sla = "breached" -> "Urgent" [] OTHER -> "Low"
RequestPath(category, vip, sla) == [impact |-> DeriveImpact(category, vip), urgency |-> DeriveUrgency(sla)]

(* The handler passes neither a VIP flag nor an SLA state. *)
PrioritizeRaises(row, category) == row.title[1] = "" /\ category = NoVal
PrioritizeEntity(row, category, infer) ==
  LET r == IF row.service = "incident" THEN IncidentPath(FALSE, infer) ELSE RequestPath(category, FALSE, NoVal)
  IN [impact |-> r.impact, urgency |-> r.urgency, priority |-> LookupPriority(r.impact, r.urgency)]

-----------------------------------------------------------------------------
(* assembly.py *)

Confidences(check, assign) ==
  LET voted == {c \in DOMAIN check.sugg : check.sugg[c].value # NoVal}
  IN [n |-> Cardinality(voted) + (IF assign.value # NoVal THEN 1 ELSE 0) + 1,
      sum |-> MapThenSumSet(LAMBDA c : check.sugg[c].conf, voted)
              + (IF assign.value # NoVal THEN assign.conf ELSE 0) + One]
TierFor(overall) == CASE overall >= 9000 -> "auto" [] overall >= 5000 -> "propose" [] OTHER -> "refuse"
RiskClass(priority) == CASE priority = "Urgent" -> "high" [] priority = "High" -> "medium" [] OTHER -> "low"

AssembleProposal(t, row, check, assign, prio) ==
  LET conf == Confidences(check, assign)
      value(c) ==
        CASE c \in DOMAIN check.sugg -> check.sugg[c].value
          [] c = "impact" -> prio.impact [] c = "urgency" -> prio.urgency [] c = "priority" -> prio.priority
          [] c = "assignment_group" -> assign.value [] OTHER -> NoVal
  IN [ticket |-> t, service |-> row.service, tenant |-> row.tenant, vals |-> [c \in Columns |-> value(c)],
      top |-> check.top, tier |-> TierFor(conf.sum \div conf.n), risk |-> RiskClass(prio.priority)]

-----------------------------------------------------------------------------
(* apply.py *)

MergeFinalValues(p, edits) ==
  [c \in Columns |-> IF c \notin WritableFieldsFor(p.service) THEN NoVal
                     ELSE IF c \in DOMAIN edits /\ edits[c] # NoVal THEN edits[c] ELSE p.vals[c]]
ParseDuration(s) == CASE s = "30min" -> 30 [] s = "2h" -> 120 [] s = "4h" -> 240 [] OTHER -> 480
SlaDurations(priority) ==
  CASE priority = "Urgent" -> "30min" [] priority = "High" -> "2h" [] priority = "Medium" -> "4h" [] OTHER -> "8h"
ComputeSlaDue(priority) == ParseDuration(SlaDurations(priority))
=============================================================================
