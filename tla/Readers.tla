------------------------------- MODULE Readers ------------------------------
(***************************************************************************)
(* The answering use cases at work: record reads and summaries (UC-1),     *)
(* similar tickets (UC-2) and knowledge lookup (UC-3) for requests that    *)
(* run at once over tickets and articles that others edit meanwhile, with  *)
(* the caches between them.  An action runs to the next await; a model     *)
(* call answers anything its reply set holds, errors included.             *)
(***************************************************************************)
EXTENDS Summaries, SimilarTickets, KbLookup

CONSTANTS
  Jobs,             \* requests
  Asks(_),          \* what a request can be
  Tickets0, Kb0,    \* rows at the start, by <<tenant, id>>
  TicketEdits,      \* <<key, column, items>> that others write; column "by" hands a ticket over
  KbEdits,          \* <<key, state, audience>> that others write
  FieldReplies,     \* replies of the field-read model: [error, labels, via]
  Contents,         \* replies of the summary model: "text", "blank", "error"
  RelevantReplies,  \* replies of the similar-ticket models: [error, relevant]
  RankReplies,      \* replies of the reranker: [error, labels]
  TextReplies,      \* replies of the answer composer: [error, text], error "no", "gateway" or "other"
  Trail             \* id -> similarity of its diagnosis to the source's

(* The kinds of request, and the parts of a record the reading tools show. *)
Kinds == {"read", "recent", "summary", "cacheget", "cacheput", "similar", "tool", "kb", "article", "byticket"}
Parts == {"links", "timeline", "attachments"}

(* The tables are finite, the policy withholds no timeline, and a request  *)
(* has the fields of its kind.  A caller of the cache tools names no       *)
(* fingerprint of a record's content.                                      *)
ASSUME ReadersAssumption ==
  /\ IsFiniteSet(DOMAIN Tickets0) /\ IsFiniteSet(DOMAIN Kb0)
  /\ \A k \in DOMAIN Tickets0 : "vals" \in DOMAIN Tickets0[k] /\ Parts \subseteq DOMAIN Tickets0[k].vals
  /\ IsExposable("timeline")
  /\ \A j \in Jobs : \A a \in Asks(j) :
       /\ a.kind \in Kinds
       /\ a.kind = "cacheput" => a.fp[1] # "sha"
       /\ a.kind = "read" => a.part \in Parts \cup {"details"}
       /\ a.kind \in {"similar", "tool"} => {"tenant", "role", "user", "max"} \subseteq DOMAIN a /\ a.max \in Nat

VARIABLES
  ticket, kb,       \* itsm.* and itsm.kb_knowledge
  summaries,        \* summary cache: fingerprint -> facts
  answers,          \* UC-2 result cache: key -> response
  verdicts,         \* rerank cache: key -> labels
  vectors,          \* texts whose embedding is cached
  job

vars == <<ticket, kb, summaries, answers, verdicts, vectors, job>>
caches == <<summaries, answers, verdicts, vectors>>

Start == [pc |-> "idle", ask |-> <<>>, key |-> <<>>, rec |-> Missing, intent |-> NoIntent,
          src |-> <<>>, cands |-> <<>>, hits |-> <<>>, query |-> {}, embedded |-> FALSE, plain |-> FALSE,
          outcome |-> NoVal, told |-> {}, shown |-> <<>>, note |-> <<>>, text |-> [cites |-> {}, none |-> FALSE]]

Init ==
  /\ ticket = Tickets0 /\ kb = Kb0
  /\ summaries = <<>> /\ answers = <<>> /\ verdicts = <<>> /\ vectors = {}
  /\ job = [j \in Jobs |-> Start]

Put(f, k, v) == [x \in DOMAIN f \cup {k} |-> IF x = k THEN v ELSE f[x]]
Go(j, r) == job' = [job EXCEPT ![j] = r]
At(j, pc) == job[j].pc = pc
End(j, outcome) == Go(j, [job[j] EXCEPT !.pc = "end", !.outcome = outcome])

Begin(j) ==
  /\ At(j, "idle")
  /\ \E a \in Asks(j) : Go(j, [Start EXCEPT !.pc = a.kind, !.ask = a, !.key = <<a.tenant, a.id>>])
  /\ UNCHANGED <<ticket, kb, caches>>

-----------------------------------------------------------------------------
(* UC-1.  The reading tools: one row, then the policy. *)

(* get_ticket_details, get_ticket_links, get_ticket_timeline,              *)
(* get_ticket_attachment_metadata: the columns of the kind asked for.      *)
Shows(ask, rec) ==
  CASE ask.part = "details" -> Visible(rec, ask.role)
    [] ask.part = "timeline" -> RedactInternalContent(Restrict(rec, {"timeline"}), ask.role)
    [] OTHER -> Expose(Restrict(rec, {ask.part}))

FetchRecord(j) ==
  /\ At(j, "read")
  /\ LET a == job[j].ask
         rec == TicketGet(ticket, a.tenant, a.service, a.id)
         view == HumaniseRecord(Shows(a, rec))
     IN IF ~ValidateSummarizeInputs(a) THEN End(j, "invalid_request")
        ELSE IF TicketGetRaises(a.service) THEN End(j, "error")
        ELSE IF rec = Missing THEN End(j, "not_found")
        ELSE Go(j, [job[j] EXCEPT !.pc = "end", !.outcome = "found", !.rec = rec,
                                  !.told = Facts(job[j].key, view, DOMAIN view)])
  /\ UNCHANGED <<ticket, kb, caches>>

ListRecent(j) ==
  /\ At(j, "recent")
  /\ LET a == job[j].ask
     IN Go(j, [job[j] EXCEPT !.pc = "end", !.outcome = "found",
                             !.shown = ListRecentForUser(ticket, a.tenant, a.user, a.services, a.max)])
  /\ UNCHANGED <<ticket, kb, caches>>

(* summarize_entity *)
SummarizeEntity(j) ==
  /\ At(j, "summary")
  /\ LET a == job[j].ask
         rec == TicketGet(ticket, a.tenant, a.service, a.id)
     IN IF ~ValidateSummarizeInputs(a) THEN End(j, "invalid_request")
        ELSE IF TicketGetRaises(a.service) THEN End(j, "error")
        ELSE IF rec = Missing THEN End(j, "not_found")
        ELSE Go(j, [job[j] EXCEPT !.rec = rec, !.pc = IF Blank(a.msg) THEN "cache" ELSE "intent"])
  /\ UNCHANGED <<ticket, kb, caches>>

MyView(j) == HumaniseRecord(Visible(job[j].rec, job[j].ask.role))
Tell(j, outcome, facts) == Go(j, [job[j] EXCEPT !.pc = "end", !.outcome = outcome, !.told = facts])

(* The embeddings of the labels and of a message are kept for good. *)
EmbedOutcomes(text) == IF text \in vectors THEN {TRUE} ELSE BOOLEAN
FieldIntent(j) ==
  /\ At(j, "intent")
  /\ \E ok \in EmbedOutcomes(<<"field", job[j].ask.msg>>), reply \in FieldReplies :
       LET a == job[j].ask
           view == MyView(j)
           intent == ResolveFieldIntent(a.wired, a.msg, DOMAIN view, ok, reply)
           served == ServeFieldRead(job[j].key, intent, view, a.msg)
       IN /\ vectors' = vectors \cup (IF ok /\ ~a.msg.linked /\ ~a.msg.whole THEN {<<"field", a.msg>>} ELSE {})
          /\ CASE served.as = "told" -> Tell(j, "field_read", served.facts)
               [] served.as = "link" -> Go(j, [job[j] EXCEPT !.pc = "link", !.intent = intent])
               [] OTHER -> Go(j, [job[j] EXCEPT !.pc = "cache"])
  /\ UNCHANGED <<ticket, kb, summaries, answers, verdicts>>

(* _resolve_linked_field_read: the linked record is read in the same       *)
(* tenant and under the same policy, and becomes the record answered from. *)
ReadLinked(j) ==
  /\ At(j, "link")
  /\ LET a == job[j].ask
         via == job[j].intent.via
         linked == LinkedId(MyView(j), via)
         rec == IF linked = NoVal THEN Missing ELSE TicketGet(ticket, a.tenant, ServiceOfId[linked], linked)
     IN IF rec = Missing THEN Tell(j, "field_read", ServeViaLink(job[j].key, MyView(j), via))
        ELSE Go(j, [job[j] EXCEPT !.pc = "intent2", !.key = <<a.tenant, linked>>, !.rec = rec])
  /\ UNCHANGED <<ticket, kb, caches>>

LinkedIntent(j) ==
  /\ At(j, "intent2")
  /\ \E reply \in FieldReplies :
       LET a == job[j].ask
           second == ExtractRequestedFields(a.wired, a.msg, DOMAIN MyView(j), reply)
       IN IF second.labels = <<>> THEN Go(j, [job[j] EXCEPT !.pc = "cache"])
          ELSE Tell(j, "field_read", RenderFieldRead(job[j].key, MyView(j), second.labels))
  /\ UNCHANGED <<ticket, kb, caches>>

(* With the summary go the columns a later step may bind to; a linked      *)
(* record brings none.                                                     *)
BuildSummaryResult(j, facts) ==
  LET visible == Visible(job[j].rec, job[j].ask.role)
  IN Go(j, [job[j] EXCEPT !.pc = "end", !.outcome = "summarized", !.told = facts,
                          !.note = IF job[j].key[2] = job[j].ask.id THEN RecordBindableFields(visible) ELSE {}])

(* cached_summarize: a failing cache is a miss. *)
FingerprintOf(j) ==
  Fingerprint(job[j].key, ServiceOfId[job[j].key[2]], Visible(job[j].rec, job[j].ask.role))
MySummaryKey(j) == SummaryKey(job[j].ask.tenant, FingerprintOf(j))
SummaryCacheGet(j) ==
  /\ At(j, "cache")
  /\ \/ ~job[j].ask.wired /\ End(j, "llm_unavailable")
     \/ job[j].ask.wired /\ MySummaryKey(j) \in DOMAIN summaries /\ BuildSummaryResult(j, summaries[MySummaryKey(j)])
     \/ job[j].ask.wired /\ Go(j, [job[j] EXCEPT !.pc = "llm"])
  /\ UNCHANGED <<ticket, kb, caches>>

SummaryModel(j) ==
  /\ At(j, "llm")
  /\ \E c \in Contents :
       IF c = "error" THEN End(j, "error")
       ELSE Go(j, [job[j] EXCEPT !.pc = "store", !.told = Summarize(job[j].key, Visible(job[j].rec, job[j].ask.role), c)])
  /\ UNCHANGED <<ticket, kb, caches>>

(* An error of the cache is only logged. *)
SummaryCachePut(j) ==
  /\ At(j, "store")
  /\ summaries' \in {summaries, Put(summaries, MySummaryKey(j), job[j].told)}
  /\ BuildSummaryResult(j, job[j].told)
  /\ UNCHANGED <<ticket, kb, answers, verdicts, vectors>>

(* The tools on the same store: a fingerprint and a text of the caller's.  *)
(* An entry may have expired.                                              *)
GetCachedSummary(j) ==
  /\ At(j, "cacheget")
  /\ LET a == job[j].ask
         k == SummaryKey(a.tenant, a.fp)
     IN IF ~ValidCacheRequest(a) THEN End(j, "invalid_request")
        ELSE \/ End(j, "miss")
             \/ k \in DOMAIN summaries /\ Tell(j, "hit", summaries[k])
  /\ UNCHANGED <<ticket, kb, caches>>
PutCachedSummary(j) ==
  /\ At(j, "cacheput")
  /\ LET a == job[j].ask
     IN IF ~ValidCacheRequest(a) THEN End(j, "invalid_request") /\ UNCHANGED summaries
        ELSE End(j, "stored") /\ summaries' = Put(summaries, SummaryKey(a.tenant, a.fp), a.summary)
  /\ UNCHANGED <<ticket, kb, answers, verdicts, vectors>>

-----------------------------------------------------------------------------
(* UC-2: the route reads and fills the result cache; the tool does not,    *)
(* and tries the text of the question before the record in focus.          *)

SimilarTicketsRoute(j) ==
  /\ At(j, "similar")
  /\ LET a == job[j].ask
         service == ResolveId(a.id, a.service)
     IN IF a.role \notin PermittedRoles THEN End(j, "403")
        ELSE IF service \notin Similar THEN End(j, "400")
        ELSE \/ /\ CacheKey(a, service) \in DOMAIN answers
                /\ Go(j, [job[j] EXCEPT !.pc = "end", !.outcome = "found", !.shown = answers[CacheKey(a, service)].results,
                                        !.note = answers[CacheKey(a, service)].note])
             \/ Go(j, [job[j] EXCEPT !.pc = "anchor"])
  /\ UNCHANGED <<ticket, kb, caches>>

FindSimilarEntities(j) ==
  /\ At(j, "tool")
  /\ LET a == job[j].ask
     IN IF a.text THEN Go(j, [job[j] EXCEPT !.pc = "words"])
        ELSE IF ResolveId(a.id, a.service) \notin Similar THEN End(j, BoundaryResponse(ResolveId(a.id, a.service)))
        ELSE Go(j, [job[j] EXCEPT !.pc = "anchor"])
  /\ UNCHANGED <<ticket, kb, caches>>

RoleOf(j) == [job[j].ask EXCEPT !.role = ToolRole(@)]

(* Fails(j, why): the route's and the tool's answers to the same error. *)
Fails(j, why) == End(j, IF job[j].ask.kind = "similar" THEN RunnerError(why) ELSE ErrorResponse(why))

(* _load_source_anchor and _fetch_source_row: no check that the reader may *)
(* see the source.                                                         *)
LoadSourceAnchor(j) ==
  /\ At(j, "anchor")
  /\ LET a == job[j].ask
         k == <<a.tenant, a.id>>
     IN IF k \notin DOMAIN ticket \/ ticket[k].service # ResolveId(a.id, a.service) THEN Fails(j, "not_found")
        ELSE IF a.id \notin DOMAIN a.sem THEN Fails(j, "no_anchor")
        ELSE Go(j, [job[j] EXCEPT !.pc = "candidates", !.src = ticket[k]])
  /\ UNCHANGED <<ticket, kb, caches>>

CandidateRows(j) ==
  /\ At(j, "candidates")
  /\ LET a == job[j].ask
         cands == Candidates(ticket, a.tenant, ResolveId(a.id, a.service), job[j].src, a.id, RoleOf(j))
     IN Go(j, [job[j] EXCEPT !.pc = "refine", !.cands = RerankCandidates(cands, job[j].src, a.min)])
  /\ UNCHANGED <<ticket, kb, caches>>

(* The diagnosis lookup, the sort, the cut and the model's labels. *)
RefineCandidates(j) ==
  /\ At(j, "refine")
  /\ \E reply \in RelevantReplies :
     LET top == Firsts(ByComposite(ConfirmWithDiagnosis(job[j].cands, job[j].ask.max, Trail)), job[j].ask.max)
         results == BuildResults(top, job[j].src)
     IN Go(j, [job[j] EXCEPT !.shown = results, !.outcome = "found", !.cands = <<>>,
                             !.note = <<SourceSnapshot(job[j].key, job[j].src), GenerateDiscriminators(top, reply),
                                        BuildMessages(results, job[j].cands, FALSE)>>,
                             !.pc = IF job[j].ask.kind = "similar" THEN "keep" ELSE "end"])
  /\ UNCHANGED <<ticket, kb, caches>>

KeepAnswer(j) ==
  /\ At(j, "keep")
  /\ answers' \in {answers, Put(answers, CacheKey(job[j].ask, ResolveId(job[j].ask.id, job[j].ask.service)),
                                [results |-> job[j].shown, note |-> job[j].note])}
  /\ Go(j, [job[j] EXCEPT !.pc = "end"])
  /\ UNCHANGED <<ticket, kb, summaries, verdicts, vectors>>

(* _find_similar_by_text: the services are searched at once and merged.    *)
(* Nothing found and a record in focus: on to the record.                  *)
FindSimilarByText(j) ==
  /\ At(j, "words")
  /\ \E reply \in RelevantReplies :
       LET a == job[j].ask
           part(s) == LET cands == Candidates(ticket, a.tenant, s, <<>>, NoVal, RoleOf(j))
                          top == Firsts(ByComposite(RerankCandidates(cands, <<>>, TextMinScore)), a.max)
                      IN BuildResults(FilterRelevantByText(top, reply), <<>>)
           services == ServicesForText(a.service)
           parts == IF Len(services) = 1 THEN part(services[1]) ELSE part(services[1]) \o part(services[2])
           merged == MergeTextResponses(parts, a.max)
       IN IF merged = <<>> /\ a.id # NoVal
          THEN IF ResolveId(a.id, a.service) \notin Similar THEN End(j, BoundaryResponse(ResolveId(a.id, a.service)))
               ELSE Go(j, [job[j] EXCEPT !.pc = "anchor"])
          ELSE Go(j, [job[j] EXCEPT !.pc = "end", !.outcome = "found", !.shown = merged])
  /\ UNCHANGED <<ticket, kb, caches>>

-----------------------------------------------------------------------------
(* UC-3 *)

Auds(j) == KbAudiencesFor(job[j].ask.role)
Cosines(words) == [id \in {k[2] : k \in DOMAIN kb} |-> Cosine(id, words)]

SearchKb(j) ==
  /\ At(j, "kb")
  /\ IF job[j].ask.words = {} THEN End(j, "invalid_request")
     ELSE Go(j, [job[j] EXCEPT !.pc = "embed", !.query = KbSearchText(job[j].ask.words)])
  /\ UNCHANGED <<ticket, kb, caches>>

(* _embed_query: the cache is per tenant and text; a failure is no vector. *)
EmbedQuery(j) ==
  /\ At(j, "embed")
  /\ LET text == <<"kb", job[j].ask.tenant, job[j].query>>
     IN \E ok \in EmbedOutcomes(text) :
          /\ vectors' = vectors \cup (IF ok THEN {text} ELSE {})
          /\ Go(j, [job[j] EXCEPT !.pc = "search", !.embedded = ok])
  /\ UNCHANGED <<ticket, kb, summaries, answers, verdicts>>

(* The two searches are gathered; the text search is read first. *)
KbTextSearch(j) ==
  /\ At(j, "search")
  /\ Go(j, [job[j] EXCEPT !.pc = "semantic",
                          !.hits = KbSearch(kb, job[j].query, job[j].ask.tenant, Auds(j), PerSide)])
  /\ UNCHANGED <<ticket, kb, caches>>

KbSemanticSearch(j) ==
  /\ At(j, "semantic")
  /\ LET sem == IF job[j].embedded THEN KbSearchSemantic(kb, job[j].query, job[j].ask.tenant, Auds(j), PerSide) ELSE <<>>
     IN Go(j, [job[j] EXCEPT !.pc = "rerank", !.hits = RrfFuse(job[j].hits, sem, Cosines(job[j].query))])
  /\ UNCHANGED <<ticket, kb, caches>>

(* The reranker, its cache, and the gate.  A cache that fails is a miss. *)
Rerank(j) ==
  /\ At(j, "rerank")
  /\ \E reply \in RankReplies, hit \in BOOLEAN :
       LET k == RerankCacheKey(job[j].ask.tenant, job[j].query, job[j].hits)
           verdict == IF job[j].hits = <<>> THEN <<>>
                      ELSE IF hit THEN verdicts[k] ELSE ParseRankings(reply, job[j].hits)
           stored == FetchEmbeddingsByIds(kb, job[j].ask.tenant, {h.id : h \in ToSet(job[j].hits)})
           gate == RerankAndGate(job[j].hits, verdict, job[j].embedded, stored, Cosines(job[j].query))
       IN /\ hit => k \in DOMAIN verdicts
          /\ verdicts' = IF hit \/ verdict = <<>> THEN verdicts ELSE Put(verdicts, k, verdict)
          /\ IF gate.hits = <<>> THEN End(j, "no_match")
             ELSE Go(j, [job[j] EXCEPT !.pc = "compose", !.hits = gate.hits, !.plain = gate.plain])
  /\ UNCHANGED <<ticket, kb, summaries, answers, vectors>>

ComposeAnswer(j) ==
  /\ At(j, "compose")
  /\ \E reply \in TextReplies :
       LET answer == ComposeKbAnswer(job[j].hits, job[j].plain, reply)
       IN Go(j, [job[j] EXCEPT !.pc = "end", !.outcome = answer.outcome, !.shown = answer.shown, !.text = answer.text])
  /\ UNCHANGED <<ticket, kb, caches>>

(* get_kb_article: the probe, then the read, each with what it finds. *)
ProbeArticle(j) ==
  /\ At(j, "article")
  /\ LET access == CheckKbAccess(kb, job[j].ask.tenant, job[j].ask.id, Auds(j))
     IN IF access # "ok" THEN End(j, access) ELSE Go(j, [job[j] EXCEPT !.pc = "get"])
  /\ UNCHANGED <<ticket, kb, caches>>

GetArticle(j) ==
  /\ At(j, "get")
  /\ LET found == Plain(KbGet(kb, job[j].ask.tenant, job[j].ask.id, Auds(j)))
     IN IF found = <<>> THEN End(j, "not_found")
        ELSE \E reply \in TextReplies :
               Go(j, [job[j] EXCEPT !.pc = "end", !.outcome = "found", !.shown = found, !.text = ArticleText(found, reply)])
  /\ UNCHANGED <<ticket, kb, caches>>

(* search_kb_by_ticket: articles filed under the ticket, or its symptoms.  *)
(* The ticket itself is read for its words whoever asks.                   *)
LinkedArticles(j) ==
  /\ At(j, "byticket")
  /\ LET hits == Plain(LinkedTo(kb, job[j].ask.id, job[j].ask.tenant, Auds(j), 5))
     IN Go(j, [job[j] EXCEPT !.pc = IF hits = <<>> THEN "symptoms" ELSE "score", !.hits = hits])
  /\ UNCHANGED <<ticket, kb, caches>>

SymptomFallback(j) ==
  /\ At(j, "symptoms")
  /\ LET a == job[j].ask
         words == TicketSymptomText(TicketGet(ticket, a.tenant, ServiceOfId[a.id], a.id))
         query == IF words # {} THEN words ELSE KbSearchText(a.words)
     IN Go(j, [job[j] EXCEPT !.pc = "embed", !.query = query])
  /\ UNCHANGED <<ticket, kb, caches>>

ScoreLinked(j) ==
  /\ At(j, "score")
  /\ \E scorer \in {"scores", "zeros", "raises"} :
       LET a == job[j].ask
           words == TicketSymptomText(TicketGet(ticket, a.tenant, ServiceOfId[a.id], a.id))
           kept == ScoreLinkedHits(job[j].hits, a.wired, Cosines(words), scorer)
       IN IF kept = <<>> THEN End(j, "no_match")
          ELSE Go(j, [job[j] EXCEPT !.pc = "compose", !.hits = kept])
  /\ UNCHANGED <<ticket, kb, caches>>

-----------------------------------------------------------------------------
(* What others do to the rows, and what time does to the caches. *)

EditTicket ==
  /\ \E e \in TicketEdits :
       \/ e[2] = "by" /\ ticket[e[1]].by # e[3] /\ ticket' = [ticket EXCEPT ![e[1]].by = e[3]]
       \/ e[2] # "by" /\ ticket[e[1]].vals[e[2]] # e[3] /\ ticket' = [ticket EXCEPT ![e[1]].vals[e[2]] = e[3]]
  /\ UNCHANGED <<kb, caches, job>>
EditArticle ==
  /\ \E e \in KbEdits : kb[e[1]].state # e[2] /\ kb' = [kb EXCEPT ![e[1]].state = e[2], ![e[1]].audience = e[3]]
  /\ UNCHANGED <<ticket, caches, job>>
(* A store raises: the request ends with the error. *)
StoreFails(j) ==
  /\ job[j].pc \in {"read", "recent", "summary", "cacheget", "cacheput", "link", "anchor", "candidates", "search",
                     "semantic", "get", "byticket"}
  /\ End(j, "error")
  /\ UNCHANGED <<ticket, kb, caches>>

Done == (\A j \in Jobs : job[j].pc = "end") /\ UNCHANGED vars

Next ==
  \/ \E j \in Jobs :
       \/ Begin(j) \/ FetchRecord(j) \/ ListRecent(j) \/ SummarizeEntity(j) \/ FieldIntent(j) \/ ReadLinked(j)
       \/ LinkedIntent(j) \/ SummaryCacheGet(j) \/ SummaryModel(j) \/ SummaryCachePut(j)
       \/ GetCachedSummary(j) \/ PutCachedSummary(j)
       \/ SimilarTicketsRoute(j) \/ FindSimilarEntities(j) \/ LoadSourceAnchor(j) \/ CandidateRows(j)
       \/ RefineCandidates(j) \/ KeepAnswer(j) \/ FindSimilarByText(j)
       \/ SearchKb(j) \/ EmbedQuery(j) \/ KbTextSearch(j) \/ KbSemanticSearch(j) \/ Rerank(j) \/ ComposeAnswer(j)
       \/ ProbeArticle(j) \/ GetArticle(j) \/ LinkedArticles(j) \/ SymptomFallback(j) \/ ScoreLinked(j)
       \/ StoreFails(j)
  \/ EditTicket \/ EditArticle \/ Done

Spec == Init /\ [][Next]_vars

-----------------------------------------------------------------------------

(* A reader is told only what its role may see of the record as this very  *)
(* request read it, and a summary is of that reading whole: no cached text *)
(* of an older record, of another role or of another tenant's record is    *)
(* ever served (_fingerprint, redact_internal_content, the linked record). *)
ToldAsRead ==
  \A j \in Jobs : At(j, "end") /\ job[j].rec # Missing =>
    LET all == Facts(job[j].key, MyView(j), DOMAIN MyView(j))
    IN job[j].told \subseteq all /\ (job[j].outcome = "summarized" => job[j].told = all)

(* A restricted role is shown as similar only tickets that were its own    *)
(* when they were read, found by ticket or in words, computed or from the  *)
(* cache, and never the ticket it asked about (_default_rbac in the        *)
(* candidate statement, _cache_key).  What is echoed of a source ticket is *)
(* of the one this reader asked about, in its tenant; whether the reader   *)
(* may see that ticket the code does not ask (_source_snapshot), and the   *)
(* property does not say.                                                  *)
OwnTicketsOnly ==
  \A j \in Jobs : At(j, "end") /\ job[j].ask.kind \in {"similar", "tool"} =>
    /\ job[j].note # <<>> => job[j].note[1].key = <<job[j].ask.tenant, job[j].ask.id>>
    /\ \A i \in DOMAIN job[j].shown :
         LET r == job[j].shown[i]
         IN /\ r.key[1] = job[j].ask.tenant
            /\ job[j].ask.role \in Restricted => r.by = job[j].ask.user
            /\ ~job[j].ask.text => r.key[2] # job[j].ask.id

(* Every article an answer shows was, when read, published, in the         *)
(* reader's tenant and for one of the reader's audiences, and the answer   *)
(* names no other article (the WHERE clauses of kb_store.py and            *)
(* _has_uncited_kb_id).                                                    *)
ReadableArticles ==
  \A j \in Jobs : At(j, "end") /\ job[j].ask.kind \in {"kb", "article", "byticket"} =>
    /\ \A i \in DOMAIN job[j].shown :
         LET h == job[j].shown[i]
         IN h.state = "published" /\ h.tenant = job[j].ask.tenant /\ h.audience \in Auds(j)
    /\ job[j].outcome = "found" => job[j].text.cites \subseteq {job[j].shown[i].id : i \in DOMAIN job[j].shown}
=============================================================================
