--------------------------- MODULE SimilarTickets ---------------------------
(***************************************************************************)
(* UC-2 similar tickets as functions of the rows each statement returned:  *)
(* which rows the candidate statement may return, how they are scored,     *)
(* boosted, cut and flagged, and the key of a cached answer.               *)
(*                                                                         *)
(* Similarities, trust and signals are percents; a composite is in units   *)
(* of 1/10000.  The age of a row is counted in the logarithm of its days.  *)
(***************************************************************************)
EXTENDS RecordStores

Similar == {"incident", "request"}
DupSim == 90
ResSim == 85
SemFloor == 45
SemFullTrust == 75
SemMin == 10
Overfetch == 3
DiagThreshold == 70
DiagBoost == 500
TextMinScore == 2000
OpenStatuses == {"open", "new", "in-progress", "in_progress"}
DoneStatuses == {"resolved", "closed", "fulfilled"}
Restricted == {"end_user", "requester", "requester_only"}

(* The only item of a scalar column. *)
Scalar(row, c) == IF row.vals[c] = {} THEN NoVal ELSE (CHOOSE i \in row.vals[c] : TRUE)[1]

-----------------------------------------------------------------------------
(* id_resolver.py: the service of an id, or why there is none. *)

ResolveNormalised(id, hint) ==
  IF id \notin DOMAIN ServiceOfId THEN "unparsable"
  ELSE IF ServiceOfId[id] \notin Similar THEN "unsupported"
  ELSE IF hint # NoVal /\ hint # ServiceOfId[id] THEN "contradicts"
  ELSE ServiceOfId[id]
ResolveId(id, hint) ==
  IF id = NoVal THEN "required"
  ELSE IF hint # NoVal /\ hint \notin Similar THEN "unsupported"
  ELSE ResolveNormalised(id, hint)

-----------------------------------------------------------------------------
(* core.py *)

(* Restricted roles see the tickets they opened. *)
DefaultRbac(role, user, row) == role \notin Restricted \/ row.by = user

TimeOk(window, row) == window = 0 \/ row.age <= window
StatusOk(prefer, row) ==
  CASE prefer = "open" -> Scalar(row, "status") \in OpenStatuses \cup {"assigned"}
    [] prefer = "resolved" -> Scalar(row, "status") \in DoneStatuses
    [] OTHER -> TRUE

(* _assemble_candidate_sql and the statement it makes: src is the source's *)
(* row, or <<>> for a description in words.                                *)
Candidates(rows, tenant, service, src, exclude, ask) ==
  LET sem == ask.sem
      ok == {k \in DOMAIN rows :
               /\ k[1] = tenant /\ rows[k].service = service /\ k[2] \in DOMAIN sem
               /\ k[2] # exclude
               /\ ask.sameCategory /\ src # <<>> /\ Scalar(src, "category") # NoVal
                    => Scalar(rows[k], "category") = Scalar(src, "category")
               /\ ask.sameService /\ service = "incident" /\ src # <<>> /\ Scalar(src, "service_name") # NoVal
                    => Scalar(rows[k], "service_name") = Scalar(src, "service_name")
               /\ TimeOk(ask.window, rows[k]) /\ StatusOk(ask.prefer, rows[k])
               /\ DefaultRbac(ask.role, ask.user, rows[k])}
      found == SetToSeq(ok)
      ranked == ByScore(found, [i \in DOMAIN found |-> sem[found[i][2]]])
      limit == IF ask.max * Overfetch > ask.max + 5 THEN ask.max * Overfetch ELSE ask.max + 5
      first == Firsts(ranked, limit)
  IN [i \in DOMAIN first |-> [key |-> first[i], row |-> rows[first[i]], sem |-> sem[first[i][2]]]]

RecencyDecay(age) == 1000 \div (10 + age)

SameSet(src, row, c) == src # <<>> /\ Scalar(src, c) # NoVal /\ Scalar(src, c) = Scalar(row, c)
MetadataSignal(src, row) ==
  (IF SameSet(src, row, "ci") THEN 45 ELSE 0) + (IF SameSet(src, row, "category") THEN 25 ELSE 0)
  + (IF SameSet(src, row, "service_name") THEN 15 ELSE 0) + (IF SameSet(src, row, "group") THEN 15 ELSE 0)

SemTrust(sem) ==
  IF sem >= SemFullTrust THEN 100
  ELSE IF sem <= SemFloor THEN 0
  ELSE ((sem - SemFloor) * 100) \div (SemFullTrust - SemFloor)

Composite(c, src) ==
  60 * c.sem + (25 * MetadataSignal(src, c.row) * SemTrust(c.sem)) \div 100
  + (15 * RecencyDecay(c.row.age) * SemTrust(c.sem)) \div 100

(* Order and rows of the statement, without what scores too low. *)
RerankCandidates(cands, src, min) ==
  LET scored == [i \in DOMAIN cands |-> [key |-> cands[i].key, row |-> cands[i].row, sem |-> cands[i].sem,
                                         score |-> Composite(cands[i], src)]]
  IN AtPositions(scored, {i \in DOMAIN scored : scored[i].sem >= SemMin /\ scored[i].score >= min})

(* Only the first max of the statement's order are looked up. *)
ConfirmWithDiagnosis(scored, max, trail) ==
  [i \in DOMAIN scored |->
     IF i <= max /\ scored[i].key[2] \in DOMAIN trail /\ trail[scored[i].key[2]] >= DiagThreshold
     THEN [scored[i] EXCEPT !.score = @ + (DiagBoost * SemTrust(scored[i].sem)) \div 100]
     ELSE scored[i]]

ByComposite(scored) == ByScore(scored, [i \in DOMAIN scored |-> scored[i].score])

(* The model keeps a subset of what it is shown; an error keeps them all.  *)
FilterRelevantByText(top, reply) ==
  IF Len(top) <= 1 \/ reply.error THEN top
  ELSE AtPositions(top, {i \in DOMAIN top : top[i].key[2] \in reply.relevant})
(* The tickets that get a label of what sets them apart. *)
GenerateDiscriminators(top, reply) ==
  IF reply.error THEN {} ELSE {d.key[2] : d \in ToSet(top)} \cap reply.relevant

FlagFor(sem, src, row) ==
  IF sem > DupSim /\ SameSet(src, row, "ci") /\ Scalar(row, "status") \in OpenStatuses THEN "likely_duplicate"
  ELSE IF sem > ResSim /\ Scalar(row, "status") \in DoneStatuses THEN "resolution_available"
  ELSE NoVal

(* A result: the ticket, its reporter and what is said of it. *)
BuildResults(top, src) ==
  [i \in DOMAIN top |->
     [key |-> top[i].key, by |-> top[i].row.by, score |-> IF top[i].score > 10000 THEN 10000 ELSE top[i].score,
      flag |-> FlagFor(top[i].sem, src, top[i].row)]]
SourceSnapshot(key, src) == [key |-> key, by |-> src.by, score |-> 10000, flag |-> NoVal]

(* Why the list is empty, and what the caller is warned of. *)
BuildMessages(results, cands, limited) ==
  [message |-> IF results # <<>> THEN NoVal ELSE IF cands # <<>> THEN "below_threshold" ELSE "no_candidates",
   warning |-> (results # <<>> /\ results[1].score < 5000) \/ limited]

-----------------------------------------------------------------------------
(* tools.py *)

ServicesForText(service) == IF service \in Similar THEN <<service>> ELSE <<"incident", "request">>

(* The answers of the services asked at once, as one. *)
MergeTextResponses(parts, max) == Firsts(ByComposite(parts), max)

(* _find_similar_error_response: what was not found and what has no        *)
(* embedding yet are answers, the rest is raised.                          *)
ErrorResponse(why) == IF why \in {"not_found", "no_anchor"} THEN why ELSE "error"

(* _resolve_boundary_response *)
BoundaryResponse(why) == IF why = "unsupported" THEN "boundary" ELSE "error"

(* A blank role is a service desk agent's. *)
ToolRole(role) == IF role = NoVal THEN "service_desk_agent" ELSE role

-----------------------------------------------------------------------------
(* uc02_routes.py *)

PermittedRoles == {"technician_l1", "technician_l2", "triage_desk", "admin", "service_desk_agent", "manager",
                   "end_user", "requester"}
(* Mutant: one entry for all the readers of a tenant. *)
CacheKeyShared(ask, service) == <<ask.tenant, ask.id, service, ask.max, ask.window, ask.prefer, ask.sameCategory,
    ask.sameService, ask.min>>
CacheKey(ask, service) ==
  <<ask.tenant, ask.user, ask.role, ask.id, service, ask.max, ask.window, ask.prefer, ask.sameCategory,
    ask.sameService, ask.min>>
RunnerError(why) == CASE why = "no_anchor" -> "503" [] why = "not_found" -> "404" [] OTHER -> "500"
=============================================================================
