----------------------------- MODULE Summaries ------------------------------
(***************************************************************************)
(* UC-1 summarisation as functions of what each await returned: the intent *)
(* of a field question, what it is answered with and the cache key of a    *)
(* summary.  A message is [aliases, whole, linked, near]: the field words  *)
(* it holds, whether it asks for the whole or for a linked record, and the *)
(* similarity of each described label to it, in percent.                   *)
(***************************************************************************)
EXTENDS RecordStores

NoMessage == [aliases |-> <<>>, whole |-> FALSE, linked |-> FALSE, near |-> <<>>]
Blank(msg) == msg = NoMessage

NoIntent == [labels |-> <<>>, via |-> NoVal, known |-> FALSE, missing |-> NoVal]

-----------------------------------------------------------------------------
(* field_read.py *)

(* The words of a question and the labels they may mean, best first. *)
Synonyms == [state |-> <<"status">>, owner |-> <<"assigned_to", "owner">>, notes |-> <<"work_notes">>]

FirstAvailable(cands, avail) ==
  LET ok == SelectSeq(cands, LAMBDA c : c \in avail) IN IF ok = <<>> THEN <<>> ELSE <<ok[1]>>
(* A word whose first labels are taken goes on to the next one. *)
MatchSynonyms(msg, avail) ==
  FoldLeft(LAMBDA acc, a : acc \o FirstAvailable(Synonyms[a], avail \ ToSet(acc)), <<>>, msg.aliases)

(* <<>> when the question needs the model. *)
TryDeterministicExtract(msg, avail) ==
  LET matched == MatchSynonyms(msg, avail)
  IN IF Blank(msg) \/ avail = {} \/ msg.linked \/ msg.whole \/ msg.aliases = <<>> THEN <<>>
     ELSE IF matched = <<>> THEN <<[NoIntent EXCEPT !.missing = msg.aliases[1]]>>
     ELSE <<[NoIntent EXCEPT !.labels = matched]>>

(* A reply's via that looks like a record id is dropped. *)
ResolveViaLink(via, avail) ==
  IF via = NoVal \/ via \in DOMAIN ServiceOfId THEN <<NoVal, FALSE>> ELSE <<via, via \in avail>>
FilterKnownLabels(labels, avail) ==
  FoldLeft(LAMBDA acc, l : IF l \in avail \ ToSet(acc) THEN Append(acc, l) ELSE acc, <<>>, labels)
ParseFieldReadResponse(reply, avail) ==
  LET via == ResolveViaLink(reply.via, avail)
  IN [NoIntent EXCEPT !.via = via[1], !.known = via[2],
        !.labels = IF via[1] # NoVal THEN reply.labels ELSE FilterKnownLabels(reply.labels, avail)]

(* LlmFieldReadExtractor.extract; an error of the model is no intent. *)
Extract(msg, avail, reply) ==
  LET det == TryDeterministicExtract(msg, avail)
  IN IF Blank(msg) \/ avail = {} THEN NoIntent
     ELSE IF det # <<>> THEN det[1]
     ELSE IF reply.error THEN NoIntent
     ELSE ParseFieldReadResponse(reply, avail)
ExtractRequestedFields(wired, msg, avail, reply) == IF ~wired THEN NoIntent ELSE Extract(msg, avail, reply)

RenderFieldRead(key, view, labels) == Facts(key, view, ToSet(labels))

-----------------------------------------------------------------------------
(* field_embedder.py *)

MatchThreshold == 33
AmbiguityDelta == 5

SelectMatches(scores) ==
  LET top == CHOOSE m \in {scores[l] : l \in DOMAIN scores} : \A l \in DOMAIN scores : scores[l] <= m
      cutoff == IF top - AmbiguityDelta > MatchThreshold THEN top - AmbiguityDelta ELSE MatchThreshold
  IN IF DOMAIN scores = {} \/ top < MatchThreshold THEN {}
     ELSE {l \in DOMAIN scores : scores[l] >= cutoff}

(* Both embeddings, of the labels and of the message, must be there. *)
MatchFields(msg, avail, embedded) ==
  IF Blank(msg) \/ ~embedded THEN {} ELSE SelectMatches(Restrict(msg.near, DOMAIN msg.near \cap avail))

(* _resolve_field_intent: labels in an order of falling score. *)
ResolveFieldIntent(wired, msg, avail, embedded, reply) ==
  LET found == IF msg.linked \/ msg.whole THEN {} ELSE MatchFields(msg, avail, embedded)
  IN IF found # {}
     THEN LET labels == SetToSeq(found)
          IN [NoIntent EXCEPT !.labels = ByScore(labels, [i \in DOMAIN labels |-> msg.near[labels[i]]])]
     ELSE ExtractRequestedFields(wired, msg, avail, reply)

-----------------------------------------------------------------------------
(* tools.py: what a field question is answered with.  "none" goes on to    *)
(* the summary, "link" to the linked record.                               *)

ServeFieldRead(key, intent, view, msg) ==
  LET onFocus == SelectSeq(intent.labels, LAMBDA l : l \in DOMAIN view)
  IN IF intent.missing # NoVal /\ intent.labels = <<>> THEN [as |-> "told", facts |-> {}]
     ELSE IF onFocus # <<>> /\ ~msg.linked THEN [as |-> "told", facts |-> RenderFieldRead(key, view, onFocus)]
     ELSE IF intent.labels # <<>> /\ intent.via = NoVal
       THEN [as |-> "told", facts |-> RenderFieldRead(key, view, intent.labels)]
     ELSE IF intent.via = NoVal THEN [as |-> "none", facts |-> {}]
     ELSE IF ~intent.known THEN [as |-> "told", facts |-> {}]
     ELSE [as |-> "link", facts |-> {}]

(* The first id of the link column that names a record. *)
FirstLinkToken(view, via) ==
  IF via \notin DOMAIN view THEN NoVal ELSE LET i == CHOOSE i \in view[via] : TRUE IN i[1]
LinkedId(view, via) ==
  LET token == FirstLinkToken(view, via) IN IF token \in DOMAIN ServiceOfId THEN token ELSE NoVal

(* A link that leads nowhere is shown as it stands. *)
ServeViaLink(key, view, via) == RenderFieldRead(key, view, <<via>>)

(* What the cache tools ask for: a fingerprint, a tenant and, to store it,  *)
(* a summary that is not empty.                                            *)
ValidCacheRequest(ask) == ask.fp # <<>> /\ ask.tenant # NoVal /\ (ask.kind = "cacheput" => ask.summary # {})

ValidateSummarizeInputs(ask) == ask.id # NoVal /\ ask.service # NoVal /\ ask.tenant # NoVal

-----------------------------------------------------------------------------
(* llm_summarizer.py: the text is made of the record it is given.  Blank   *)
(* model text is replaced by the deterministic summary, which tells the    *)
(* same columns.                                                           *)

AssembleSummary(key, visible) == Facts(key, HumaniseRecord(visible), DOMAIN HumaniseRecord(visible))
DeterministicSummary(key, visible) == Facts(key, HumaniseRecord(visible), DOMAIN HumaniseRecord(visible))
ParseSummaryText(key, visible, content) == IF content = "blank" THEN {} ELSE AssembleSummary(key, visible)
Summarize(key, visible, content) ==
  LET text == ParseSummaryText(key, visible, content)
  IN IF text = {} THEN DeterministicSummary(key, visible) ELSE text

(* The key: the visible record itself, so another role or another version  *)
(* of the record has another key.                                          *)
(* Mutant: the key is of the record's identity, not of its content. *)
FingerprintOfId(key, service, visible) == <<"sha", key, service>>
Fingerprint(key, service, visible) == <<"sha", key, service, visible>>

(* The store puts the tenant before a fingerprint, whoever made it. *)
SummaryKey(tenant, fingerprint) == <<tenant, fingerprint>>

(* Columns a later step of the plan may bind to. *)
ReservedKeys == {"outcome", "summary", "message"}
RecordBindableFields(visible) ==
  {c \in DOMAIN visible \ ReservedKeys : visible[c] # {} /\ c \notin ContentArrays}
=============================================================================
