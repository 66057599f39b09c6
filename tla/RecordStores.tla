---------------------------- MODULE RecordStores ----------------------------
(***************************************************************************)
(* What the answering use cases share: the field policy, the reads of the  *)
(* ticket and knowledge stores and the view of a record that may be shown. *)
(*                                                                         *)
(* A stored ticket is [service, by, vals]: by is its reported_by, or the   *)
(* requested_by of a request; vals gives each column its set of items      *)
(* <<text, public>>; a scalar is one public item and an empty column the   *)
(* empty set.  Rows are keyed by <<tenant, id>>.                           *)
(***************************************************************************)
EXTENDS RankedLists, SequencesExt

CONSTANTS
  Classifications,   \* column -> classification, for the columns that have one
  Privileged,        \* roles that see internal content
  ServiceOfId,       \* id -> the service its prefix names
  Cosine(_, _)       \* similarity of an article to a set of words, in percent

ASSUME PolicyAssumption ==
  \A c \in DOMAIN Classifications :
    Classifications[c] \in {"public", "internal", "confidential", "restricted"}

NoVal == "none"
Missing == <<>>

-----------------------------------------------------------------------------
(* FieldPolicy *)

Rank == [public |-> 0, internal |-> 1, confidential |-> 2, restricted |-> 3]
WithholdAt == "confidential"
DefaultClass == "internal"
ContentArrays == {"work_notes", "comments", "timeline"}
EndUserAudiences == {"all", "end_user"}
PrivilegedAudiences == {"technician"}

ClassificationOf(c) == IF c \in DOMAIN Classifications THEN Classifications[c] ELSE DefaultClass
IsExposable(c) == Rank[ClassificationOf(c)] < Rank[WithholdAt]
Expose(rec) == Restrict(rec, {c \in DOMAIN rec : IsExposable(c)})

RedactInternalContent(rec, role) ==
  IF role \in Privileged THEN rec
  ELSE [c \in DOMAIN rec |-> IF c \in ContentArrays THEN {i \in rec[c] : i[2]} ELSE rec[c]]

KbAudiencesFor(role) ==
  IF role \in Privileged THEN EndUserAudiences \cup PrivilegedAudiences ELSE EndUserAudiences

Visible(rec, role) == RedactInternalContent(Expose(rec), role)

-----------------------------------------------------------------------------
(* field_labels.py: what is empty or hidden is not shown.  Labels keep the *)
(* column's name.                                                          *)

Hidden == {"search_tsv", "tenant_id"}
HumaniseRecord(rec) == Restrict(rec, {c \in DOMAIN rec : c \notin Hidden /\ rec[c] # {}})

(* What a text made of some columns of a record tells. *)
Facts(key, view, cols) == UNION {{<<key, c, i[1]>> : i \in view[c]} : c \in cols \cap DOMAIN view}

-----------------------------------------------------------------------------
(* TicketStore *)

Services == {"incident", "request", "problem", "change", "asset", "cmdb_ci"}

(* An unknown service raises; a blank id or tenant finds nothing. *)
TicketGetRaises(service) == service \notin Services
TicketGet(rows, tenant, service, id) ==
  IF <<tenant, id>> \in DOMAIN rows /\ rows[<<tenant, id>>].service = service
  THEN rows[<<tenant, id>>].vals ELSE Missing

(* The services that can be listed, with the columns that besides by make  *)
(* a record somebody's.                                                    *)
OwnerCols == [incident |-> {"assigned_to"}, request |-> {"requested_for", "assigned_to"}]
RecentServices == DOMAIN OwnerCols
RankRecent(cands, limit) ==
  LET found == SetToSeq(cands)
  IN Firsts(ByScore(found, [i \in DOMAIN found |-> 0 - found[i].age]), limit)
RecentOne(rows, service, tenant, user) ==
  {[id |-> k[2], age |-> rows[k].age] : k \in {k \in DOMAIN rows :
      /\ k[1] = tenant /\ rows[k].service = service
      /\ rows[k].by = user \/ \E c \in OwnerCols[service] : <<user, TRUE>> \in rows[k].vals[c]}}
ListRecentForUser(rows, tenant, user, services, limit) ==
  LET want == (IF services = {} THEN RecentServices ELSE services) \cap RecentServices
  IN IF tenant = NoVal \/ user = NoVal THEN <<>>
     ELSE RankRecent(UNION {RecentOne(rows, s, tenant, user) : s \in want}, limit)

-----------------------------------------------------------------------------
(* KbStore.  An article is [state, audience, about, votes, linked, emb]:   *)
(* about its words, emb whether it is embedded, linked the records it is   *)
(* filed under.  A hit is the row as the statement read it.                *)

KbVisible(kb, tenant, auds) ==
  {k \in DOMAIN kb : k[1] = tenant /\ kb[k].state = "published" /\ kb[k].audience \in auds}

Hit(kb, k) == [id |-> k[2], tenant |-> k[1], state |-> kb[k].state, audience |-> kb[k].audience]

Hits(kb, keys, n) == LET first == Firsts(keys, n) IN [i \in DOMAIN first |-> Hit(kb, first[i])]

(* ORDER BY rank DESC, helpful_votes DESC. *)
KbSearch(kb, query, tenant, auds, n) ==
  LET found == SetToSeq({k \in KbVisible(kb, tenant, auds) : kb[k].about \cap query # {}})
      byVotes == ByScore(found, [i \in DOMAIN found |-> kb[found[i]].votes])
      ranked == ByScore(byVotes, [i \in DOMAIN byVotes |-> Cardinality(kb[byVotes[i]].about \cap query)])
  IN Hits(kb, ranked, n)

ByCosine(keys, query) == ByScore(keys, [i \in DOMAIN keys |-> Cosine(keys[i][2], query)])

(* Mutant: the semantic branch forgets the audience. *)
KbSearchSemanticAny(kb, query, tenant, auds, n) ==
  LET found == SetToSeq({k \in DOMAIN kb : k[1] = tenant /\ kb[k].state = "published" /\ kb[k].emb})
  IN Hits(kb, ByCosine(found, query), n)
KbSearchSemantic(kb, query, tenant, auds, n) ==
  LET found == SetToSeq({k \in KbVisible(kb, tenant, auds) : kb[k].emb})
  IN Hits(kb, ByCosine(found, query), n)

(* No audience: the caller already has the ids. *)
FetchEmbeddingsByIds(kb, tenant, ids) ==
  {id \in ids : <<tenant, id>> \in DOMAIN kb /\ kb[<<tenant, id>>].emb}

KbExists(kb, tenant, id) == <<tenant, id>> \in DOMAIN kb
KbGet(kb, tenant, id, auds) ==
  IF <<tenant, id>> \in KbVisible(kb, tenant, auds) THEN <<Hit(kb, <<tenant, id>>)>> ELSE <<>>
LinkedTo(kb, entity, tenant, auds, n) ==
  LET found == SetToSeq({k \in KbVisible(kb, tenant, auds) : entity \in kb[k].linked})
  IN Hits(kb, ByScore(found, [i \in DOMAIN found |-> kb[found[i]].votes]), n)
=============================================================================
