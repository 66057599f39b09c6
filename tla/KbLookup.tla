------------------------------ MODULE KbLookup ------------------------------
(***************************************************************************)
(* UC-3 knowledge lookup as functions of what each await returned: fusing  *)
(* the two searches, the reranker and its cache key, the relevance gate    *)
(* and the answer composer with its guard against articles nobody gave it. *)
(*                                                                         *)
(* A hit is RecordStores!Hit with, once scored, cos and rr (its cosine and *)
(* rerank relevance in percent) and fused (in units of 1/100000).          *)
(***************************************************************************)
EXTENDS RecordStores

RrfK == 60
MinFused == 1200
FuseTopK == 8
MaxResults == 3
PerSide == 25
MinScore == 50
ForceRenderMin == 45
RerankMin == 50
MaxLabel == 3
Unscored == -1

-----------------------------------------------------------------------------
(* handlers.py: queries are sets of words.  The record ids in a question   *)
(* are not searched for, unless there is nothing else in it.               *)

KbSearchText(query) == IF query \ DOMAIN ServiceOfId = {} THEN query ELSE query \ DOMAIN ServiceOfId

Position(hits, id) == CHOOSE i \in DOMAIN hits : hits[i].id = id
Contribution(hits, id) ==
  IF \E i \in DOMAIN hits : hits[i].id = id THEN 100000 \div (RrfK + Position(hits, id)) ELSE 0

(* The row of an article found by both searches is the text search's; only *)
(* the vector search brings a cosine.                                      *)
RrfFuse(fts, sem, cosines) ==
  LET isIn(hits, id) == \E i \in DOMAIN hits : hits[i].id = id
      slot(h) == [id |-> h.id, tenant |-> h.tenant, state |-> h.state, audience |-> h.audience,
                  fused |-> Contribution(fts, h.id) + Contribution(sem, h.id),
                  cos |-> IF isIn(sem, h.id) THEN cosines[h.id] ELSE Unscored, rr |-> Unscored]
      found == fts \o AtPositions(sem, {i \in DOMAIN sem : ~isIn(fts, sem[i].id)})
      slots == [i \in DOMAIN found |-> slot(found[i])]
      ranked == ByScore(slots, [i \in DOMAIN slots |-> slots[i].fused])
  IN Firsts(AtPositions(ranked, {i \in DOMAIN ranked : ranked[i].fused >= MinFused}), FuseTopK)

(* Hits of the text search alone get the cosine of their stored embedding, *)
(* 0 without one.                                                          *)
ScoreFtsOnly(hits, stored, cosines) ==
  [i \in DOMAIN hits |->
     IF hits[i].cos # Unscored THEN hits[i]
     ELSE [hits[i] EXCEPT !.cos = IF hits[i].id \in stored THEN cosines[hits[i].id] ELSE 0]]

Passing(hits, Score(_), floor) ==
  LET ranked == ByScore(hits, [i \in DOMAIN hits |-> Score(hits[i])])
  IN Firsts(AtPositions(ranked, {i \in DOMAIN ranked : Score(ranked[i]) >= floor}), MaxResults)

(* Without a query vector the first hits go on unscored, and the answer is *)
(* composed without the model.                                             *)
RelevanceGate(hits, embedded, stored, cosines) ==
  IF ~embedded /\ hits # <<>> THEN [hits |-> Firsts(hits, MaxResults), plain |-> TRUE]
  ELSE [hits |-> Passing(ScoreFtsOnly(hits, stored, cosines), LAMBDA h : h.cos, MinScore), plain |-> FALSE]

WithVerdicts(hits, verdict) ==
  [i \in DOMAIN hits |->
     [hits[i] EXCEPT !.rr = IF hits[i].id \in DOMAIN verdict THEN (verdict[hits[i].id] * 100) \div MaxLabel ELSE 0]]

(* verdict: id -> label, or <<>> when the reranker gave none. *)
RerankAndGate(hits, verdict, embedded, stored, cosines) ==
  IF verdict # <<>> /\ hits # <<>>
  THEN [hits |-> Passing(WithVerdicts(hits, verdict), LAMBDA h : h.rr, RerankMin), plain |-> FALSE]
  ELSE RelevanceGate(hits, embedded, stored, cosines)

-----------------------------------------------------------------------------
(* kb_rerank.py *)

ClampLabel(n) == IF n < 0 THEN 0 ELSE IF n > MaxLabel THEN MaxLabel ELSE n
(* Every candidate gets a label, in range; a reply without rankings is no  *)
(* verdict.                                                                *)
ParseRankings(reply, hits) ==
  IF reply.error \/ DOMAIN reply.labels = {} THEN <<>>
  ELSE [id \in {h.id : h \in ToSet(hits)} |->
          IF id \in DOMAIN reply.labels THEN ClampLabel(reply.labels[id]) ELSE 0]
RerankCacheKey(tenant, query, hits) == <<tenant, query, {h.id : h \in ToSet(hits)}>>

-----------------------------------------------------------------------------
(* answer_composer.py: a text is [cites, none]: the articles it names, and *)
(* whether it says that nothing was found.                                 *)

DeterministicCompose(hits) ==
  IF hits = <<>> THEN [cites |-> {}, none |-> TRUE] ELSE [cites |-> {hits[1].id}, none |-> FALSE]

HasUncitedKbId(text, hits) == text.cites \ {h.id : h \in ToSet(hits)} # {}

(* An error of the gateway is made up for here, any other one raised. *)
LlmCompose(hits, reply) ==
  IF reply.error = "gateway" \/ HasUncitedKbId(reply.text, hits) THEN DeterministicCompose(hits) ELSE reply.text

(* What the caller makes of an error that was raised: a blank text, which  *)
(* counts as one that says nothing was found.                              *)
BlankText == [cites |-> {}, none |-> TRUE]
Compose(hits, plain, reply) ==
  IF plain THEN DeterministicCompose(hits) ELSE IF reply.error = "other" THEN BlankText ELSE LlmCompose(hits, reply)

(* _compose_kb_answer: a text that says nothing was found is overruled     *)
(* when the best hit is good enough.                                       *)
GoodEnough(hit, plain) == plain \/ hit.rr >= RerankMin \/ (hit.rr = Unscored /\ hit.cos >= ForceRenderMin)
ComposeKbAnswer(hits, plain, reply) ==
  LET text == Compose(hits, plain, reply)
  IN IF hits = <<>> \/ (text.none /\ ~GoodEnough(hits[1], plain)) THEN [outcome |-> "no_match", text |-> text, shown |-> <<>>]
     ELSE [outcome |-> "found", shown |-> hits,
           text |-> IF text.none THEN DeterministicCompose(hits) ELSE text]

-----------------------------------------------------------------------------
(* An article asked for by its id, and articles filed under a ticket. *)

CheckKbAccess(kb, tenant, id, auds) ==
  IF ~KbExists(kb, tenant, id) THEN "not_found"
  ELSE IF kb[<<tenant, id>>].state # "published" THEN "not_found"
  ELSE IF kb[<<tenant, id>>].audience \notin auds THEN "denied"
  ELSE "ok"

(* An article read by its id is named when no text came of it. *)
ArticleText(found, reply) ==
  IF reply.error = "other" THEN [cites |-> {found[1].id}, none |-> FALSE] ELSE LlmCompose(found, reply)

(* Linked articles are scored against the ticket's title, and the score is *)
(* not the cosine the composer's answer is overruled by.  A scorer that    *)
(* gets no embeddings scores every article 0, and none passes; one that    *)
(* raises, or is not there, lets all of them pass.                         *)
LinkedScore(cosines, scorer, id) == IF scorer = "scores" THEN cosines[id] ELSE 0
ScoreLinkedHits(hits, wired, cosines, scorer) ==
  IF ~wired \/ scorer = "raises" THEN hits
  ELSE Passing(hits, LAMBDA h : LinkedScore(cosines, scorer, h.id), MinScore)

Plain(hits) == [i \in DOMAIN hits |-> [id |-> hits[i].id, tenant |-> hits[i].tenant, state |-> hits[i].state,
                                       audience |-> hits[i].audience, fused |-> 0, cos |-> Unscored, rr |-> Unscored]]

(* The words of a ticket: what its articles are searched with. *)
TicketSymptomText(vals) == IF vals = Missing THEN {} ELSE {i[1] : i \in vals["title"] \cup vals["category"]}
=============================================================================
