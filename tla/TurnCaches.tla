----------------------------- MODULE TurnCaches -----------------------------
(***************************************************************************)
(* The caches in front of a turn, as functions of their contents: the      *)
(* exact cache of the chat door and of the fast path (one Redis keyspace), *)
(* and the semantic cache of the streaming door.  A payload is a           *)
(* TurnResponse reduced to what decides its caching: the turn that         *)
(* produced it, its status, the agents of its steps, its text class and    *)
(* the pause or offer it carries.                                          *)
(***************************************************************************)
EXTENDS Integers, Sequences, SequencesExt, FiniteSets

CONSTANTS
    NormalForm,  \* [messages -> texts]: strip, lower, collapse whitespace
    Standalone,  \* messages with no record id, bare number or reference
    Score,       \* [messages \X messages -> 0..100]: cosine of the embeddings
    Threshold,   \* 97
    BucketMax    \* entries kept per bucket

ASSUME BucketAssumption == BucketMax \in Nat

\* cache_key: principal, session and normalised message of the turn.
CacheKey(who, sid, msg) ==
    [door |-> "chat", who |-> who, sid |-> sid, text |-> NormalForm[msg]]

\* The fast path's key in the same cache: use case, principal and inputs, no
\* session.
EdgeKey(who, none, inputs) ==
    [door |-> "fast_path", who |-> who, sid |-> none, text |-> inputs]

\* Mutant: an answer that carries an offer is cached too.
ShouldCacheOffers(p) ==
    /\ p.status \notin {"clarification", "refused", "error", "interrupted", ""}
    /\ "uc08_fulfillment" \notin p.agents
    /\ p.text = "useful"

\* should_cache.
ShouldCache(p) ==
    /\ p.status \notin {"clarification", "refused", "error", "interrupted", ""}
    /\ p.interrupt = "none"
    /\ "uc08_fulfillment" \notin p.agents
    /\ p.text = "useful"

Put(cache, key, payload) == [k \in DOMAIN cache \cup {key} |->
                                IF k = key THEN payload ELSE cache[k]]

\* is_standalone.
IsStandalone(msg) == msg \in Standalone

\* Mutant: one bucket for all roles.
BucketTenant(who) == <<who.tenant, "-">>

\* SemanticTurnCache._bucket: tenant and role; users share it on purpose.
Bucket(who) == <<who.tenant, who.role>>

\* SemanticTurnCache.get: the first entry of the highest score, if close enough.
BestMatch(entries, msg) ==
    {i \in DOMAIN entries :
        /\ Score[<<msg, entries[i].msg>>] >= Threshold
        /\ \A j \in DOMAIN entries :
             /\ Score[<<msg, entries[j].msg>>] <= Score[<<msg, entries[i].msg>>]
             /\ j < i => Score[<<msg, entries[j].msg>>] < Score[<<msg, entries[i].msg>>]}

\* SemanticTurnCache.put: LPUSH, then LTRIM to the bucket's size.
Push(entries, msg, payload) ==
    LET all == <<[msg |-> msg, payload |-> payload]>> \o entries
    IN  SubSeq(all, 1, IF Len(all) > BucketMax THEN BucketMax ELSE Len(all))
=============================================================================
