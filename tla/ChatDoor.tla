------------------------------ MODULE ChatDoor ------------------------------
(***************************************************************************)
(* The doors of the HTTP API: /api/chat, /api/chat/stream, /ws/chat,       *)
(* /api/fast and /api/fast/stream, with the session lifecycle and the turn *)
(* caches they share.  Each request is a coroutine; pc names the await it  *)
(* is at.  Redis calls may fail, and every caller of them goes on without. *)
(* The executor graph behind run_turn and resume_turn is an environment    *)
(* that finishes, pauses, raises or outlives the timeout (TurnExecutor     *)
(* models it); the session events it appends are in SessionStore.          *)
(***************************************************************************)
EXTENDS TurnCaches

CONSTANTS
    Requests,
    Inputs,     \* what clients send: [door, who, sid, msg, resume]
    Principals, \* [tenant, user, role] records, from the headers
    Sids,       \* session ids clients send
    SafeSids,   \* those the lifecycle adopts (_CLIENT_SID_RE)
    Minted,     \* fresh ids
    NoSid,
    Outcomes,   \* [status, agents, text]: how a turn may end
    BadInputs,  \* fast-path inputs the dispatcher refuses
    FulfilActive, \* the registry has an active fulfilment agent
    Mode,       \* "local" or "nats"
    MaxChurn    \* bound: expiries, deletions, creations and failed Redis calls

ASSUME DoorAssumption ==
    /\ SafeSids \subseteq Sids /\ NoSid \notin Sids /\ Sids \cap Minted = {}
    /\ MaxChurn \in Nat /\ Mode \in {"local", "nats"} /\ FulfilActive \in BOOLEAN
    /\ \A in \in Inputs : /\ in.who \in Principals /\ in.sid \in Sids \cup {NoSid}
                         /\ in.resume \in BOOLEAN

VARIABLES
    pc, req, sid,   \* per request: the await it is at, its input, its session
    out,            \* the payload it answers with
    via,            \* where that came from: run, exact, edge or semantic
    thr, resuming,  \* the graph thread it runs on; whether it resumes one
    seen,           \* the session row its touch has read
    meta, index,    \* Redis: session hashes and the per-user index
    exact, sem,     \* the turn caches
    marker,         \* __interrupt__<session> in the exact cache's keyspace
    thread,         \* checkpoints: the state of the turn of each request
    pruning,        \* the dead entry a session listing is about to remove
    minted,         \* ids given out
    churn           \* of those, how many there were

local == <<req, sid, out, via, thr, resuming, seen>>
redis == <<meta, index, exact, sem, marker>>
vars == <<pc, local, redis, thread, pruning, minted, churn>>

Tenants == {p.tenant : p \in Principals}
Nobody == ""
Users == {<<p.tenant, p.user>> : p \in Principals} \cup (Tenants \X {Nobody})
Sessions == Sids \cup Minted
NoMeta == [user |-> "absent", turns |-> 0]
Cleared == "{}"      \* the empty sentinel a resume leaves behind
NoMarker == "none"

\* A marker names the thread of a request, by its id.
ASSUME ThreadAssumption == {Cleared, NoMarker} \cap Requests = {}

Streaming == {"chat_stream", "fast_stream"}

Reserve == 2 * Cardinality(Requests)  \* bound: ids kept for the requests themselves
Churn == churn < MaxChurn /\ churn' = churn + 1
\* Whether a Redis call goes through.
Call(up) == IF up THEN UNCHANGED churn ELSE Churn
\* bound: an id can be minted while there is one left.
CanMint == Minted \ minted # {}
NewId == CHOOSE s \in Minted : s \notin minted
Key(r) == <<req[r].who.tenant, sid[r]>>
Row(r) == meta[Key(r)]
Payload(r, status, agents, text, interrupt) ==
    [by |-> r, status |-> status, agents |-> agents, text |-> text,
     interrupt |-> interrupt, sid |-> sid[r]]

Goto(r, at) == pc' = [pc EXCEPT ![r] = at]
Answer(r, p, how) == out' = [out EXCEPT ![r] = p] /\ via' = [via EXCEPT ![r] = how]

(***************************************************************************)
(* Session lifecycle.                                                      *)
(***************************************************************************)
\* DragonflyLifecycle.create, one pipeline: the hash is overwritten.
Create(who, s) ==
    /\ meta' = [meta EXCEPT ![<<who.tenant, s>>] = [user |-> who.user, turns |-> 0]]
    /\ index' = [index EXCEPT ![<<who.tenant, who.user>>] = @ \cup {s}]

\* The doors take what the client named, or mint.
Arrive(r) ==
    /\ pc[r] = "idle"
    /\ \E in \in Inputs :
         /\ req' = [req EXCEPT ![r] = in]
         /\ CASE in.door \in {"chat", "chat_stream"} ->
                   /\ Goto(r, "session") /\ UNCHANGED <<sid, minted>>
              [] in.sid # NoSid ->
                   /\ sid' = [sid EXCEPT ![r] = in.sid] /\ UNCHANGED minted
                   /\ Goto(r, IF in.door = "fast" THEN "edge" ELSE "dispatch")
              [] OTHER ->
                   /\ CanMint
                   /\ sid' = [sid EXCEPT ![r] = NewId] /\ minted' = minted \cup {NewId}
                   /\ Goto(r, IF in.door = "fast" THEN "edge" ELSE "dispatch")
    /\ UNCHANGED <<out, via, thr, resuming, seen, redis, thread, pruning, churn>>

\* _chat and _chat_stream: lifecycle.get of the client's id.
GetSession(r) ==
    /\ pc[r] = "session"
    /\ \E up \in BOOLEAN : Call(up) /\
         IF up /\ req[r].sid # NoSid /\ meta[<<req[r].who.tenant, req[r].sid>>] # NoMeta
         THEN /\ sid' = [sid EXCEPT ![r] = req[r].sid]
              /\ Goto(r, IF req[r].door = "chat" THEN "lookup" ELSE "stream")
         ELSE Goto(r, "create") /\ UNCHANGED sid
    /\ UNCHANGED <<req, out, via, thr, resuming, seen, redis, thread, pruning, minted>>

\* lifecycle.create adopts a safe client id and mints otherwise; when it
\* fails the door keeps the client's id, or mints its own.
CreateSession(r) ==
    LET adopt == req[r].sid \in SafeSids IN
    /\ pc[r] = "create"
    /\ Goto(r, IF req[r].door = "chat" THEN "lookup" ELSE "stream")
    /\ \E up \in BOOLEAN : Call(up) /\
         LET keep == adopt \/ (~up /\ req[r].sid # NoSid)
             s == IF keep THEN req[r].sid ELSE NewId
         IN
         /\ keep \/ CanMint
         /\ sid' = [sid EXCEPT ![r] = s]
         /\ minted' = minted \cup ({s} \cap Minted)
         /\ IF up THEN Create(req[r].who, s) ELSE UNCHANGED <<meta, index>>
    /\ UNCHANGED <<req, out, via, thr, resuming, seen, exact, sem, marker, thread, pruning>>

\* lifecycle.touch reads the hash first ...
TouchRead(r) ==
    /\ pc[r] = "touch"
    /\ \E up \in BOOLEAN : Call(up) /\
         IF up THEN seen' = [seen EXCEPT ![r] = Row(r)] /\ Goto(r, "touch_write")
         ELSE UNCHANGED seen /\ Goto(r, "store")
    /\ UNCHANGED <<req, sid, out, via, thr, resuming, redis, thread, pruning, minted>>

\* ... and writes it back: a missing row is created under a fresh id, a row
\* deleted since the read comes back without its owner.
TouchWrite(r) ==
    LET who == req[r].who IN
    /\ pc[r] = "touch_write"
    /\ IF seen[r] = NoMeta
       THEN CanMint /\ Create(who, NewId) /\ minted' = minted \cup {NewId}
       ELSE /\ meta' = [meta EXCEPT ![Key(r)] =
                 [user |-> IF @ = NoMeta THEN Nobody ELSE @.user, turns |-> seen[r].turns + 1]]
            /\ index' = [index EXCEPT ![<<who.tenant, seen[r].user>>] = @ \cup {sid[r]}]
            /\ UNCHANGED minted
    /\ Goto(r, "store")
    /\ seen' = [seen EXCEPT ![r] = NoMeta]
    /\ UNCHANGED <<req, sid, out, via, thr, resuming, exact, sem, marker, thread, pruning, churn>>

\* POST /api/sessions, DELETE /api/sessions/{id} and the idle TTL.
SessionCreate(who) ==
    /\ Churn
    /\ Cardinality(Minted \ minted) > Reserve
    /\ Create(who, NewId) /\ minted' = minted \cup {NewId}
    /\ UNCHANGED <<pc, local, exact, sem, marker, thread, pruning>>

SessionDelete(t, s) ==
    /\ Churn
    /\ meta[<<t, s>>] # NoMeta
    /\ meta' = [meta EXCEPT ![<<t, s>>] = NoMeta]
    /\ index' = [u \in Users |-> IF u = <<t, meta[<<t, s>>].user>> THEN index[u] \ {s} ELSE index[u]]
    /\ UNCHANGED <<pc, local, exact, sem, marker, thread, pruning, minted>>

SessionExpires(t, s) ==
    /\ Churn
    /\ meta[<<t, s>>] # NoMeta
    /\ meta' = [meta EXCEPT ![<<t, s>>] = NoMeta]
    /\ UNCHANGED <<pc, local, index, exact, sem, marker, thread, pruning, minted>>

\* list_for_user looks each listed session up and removes those it misses,
\* in two calls.
ListFinds(u, s) ==
    /\ pruning = <<>> /\ s \in index[u] /\ meta[<<u[1], s>>] = NoMeta
    /\ pruning' = <<u, s>>
    /\ UNCHANGED <<pc, local, redis, thread, minted, churn>>

ListPrunes ==
    /\ pruning # <<>>
    /\ index' = [index EXCEPT ![pruning[1]] = @ \ {pruning[2]}]
    /\ pruning' = <<>>
    /\ UNCHANGED <<pc, local, meta, exact, sem, marker, thread, minted, churn>>

(***************************************************************************)
(* Cache lookups.                                                          *)
(***************************************************************************)
\* _chat: the exact cache comes before everything, a resume included.
Lookup(r) ==
    LET key == CacheKey(req[r].who, sid[r], req[r].msg) IN
    /\ pc[r] = "lookup"
    /\ \E up \in BOOLEAN : Call(up) /\
         IF up /\ key \in DOMAIN exact
         THEN Answer(r, exact[key], "exact") /\ Goto(r, "touch")
         ELSE UNCHANGED <<out, via>> /\ Goto(r, IF req[r].resume THEN "pending" ELSE "run")
    /\ UNCHANGED <<req, sid, thr, resuming, seen, redis, thread, pruning, minted>>

\* _fast_path: the edge cache, whose hit is returned as it was stored.
EdgeLookup(r) ==
    LET key == EdgeKey(req[r].who, NoSid, req[r].msg) IN
    /\ pc[r] = "edge"
    /\ \E up \in BOOLEAN : Call(up) /\
         IF up /\ key \in DOMAIN exact
         THEN Answer(r, exact[key], "edge") /\ Goto(r, "done")
         ELSE UNCHANGED <<out, via>> /\ Goto(r, "dispatch")
    /\ UNCHANGED <<req, sid, thr, resuming, seen, redis, thread, pruning, minted>>

\* _ws_chat refuses an empty frame; the fast-path dispatcher refuses inputs
\* it cannot bind, as a clarification.
Dispatch(r) ==
    /\ pc[r] = "dispatch"
    /\ IF req[r].msg \in BadInputs
       THEN /\ Answer(r, Payload(r, IF req[r].door = "ws" THEN "invalid_request" ELSE "clarification",
                                 {}, "useful", "none"), "run")
            /\ Goto(r, "done")
       ELSE UNCHANGED <<out, via>> /\ Goto(r, "run")
    /\ UNCHANGED <<req, sid, thr, resuming, seen, redis, thread, pruning, minted, churn>>

\* _stream_turn: only a standalone message that resumes nothing may be served.
Eligible(r) == req[r].door = "chat_stream" /\ ~req[r].resume /\ IsStandalone(req[r].msg)

SemLookup(r) ==
    LET entries == sem[Bucket(req[r].who)]
        best == BestMatch(entries, req[r].msg)
    IN
    /\ pc[r] = "stream"
    /\ \E up \in BOOLEAN : Call(up) /\
         IF up /\ Eligible(r) /\ best # {}
         THEN /\ \E i \in best : Answer(r, [entries[i].payload EXCEPT !.sid = sid[r]], "semantic")
              /\ Goto(r, "done")
         ELSE UNCHANGED <<out, via>> /\ Goto(r, "run")
    /\ UNCHANGED <<req, sid, thr, resuming, seen, redis, thread, pruning, minted>>

(***************************************************************************)
(* The turn.                                                               *)
(***************************************************************************)
\* _chat's resume path: no marker, no resume; the cleared one counts.
PendingGet(r) ==
    /\ pc[r] = "pending"
    /\ \E up \in BOOLEAN : Call(up) /\
         IF up /\ marker[Key(r)] # NoMarker
         THEN thr' = [thr EXCEPT ![r] = marker[Key(r)]] /\ Goto(r, "clear")
         ELSE UNCHANGED thr /\ Goto(r, "run")
    /\ UNCHANGED <<req, sid, out, via, resuming, seen, redis, thread, pruning, minted>>

\* Neither cache has delete: the marker is overwritten with {}.
PendingClear(r) ==
    /\ pc[r] = "clear"
    /\ \E up \in BOOLEAN : Call(up) /\ marker' = IF up THEN [marker EXCEPT ![Key(r)] = Cleared] ELSE marker
    /\ resuming' = [resuming EXCEPT ![r] = TRUE]
    /\ Goto(r, "graph")
    /\ UNCHANGED <<req, sid, out, via, thr, seen, meta, index, exact, sem, thread, pruning, minted>>

\* Mutant: the marker of the tenant, whatever the session.
RunMarkerTenant(r) == {marker[<<req[r].who.tenant, s>>] : s \in Sessions} \cap Requests

\* _run looks for the paused thread; it reads the marker and leaves it.
RunMarker(r) == {marker[Key(r)]} \cap Requests

\* _run: a turn of its own on the thread of the request id; the streaming
\* door's resume on the paused thread, in the in-process mode.
Run(r) ==
    /\ pc[r] = "run"
    /\ resuming' = [resuming EXCEPT ![r] =
         Mode = "local" /\ req[r].door = "chat_stream" /\ req[r].resume]
    /\ \E up \in BOOLEAN, t \in {r} \cup RunMarker(r) :
         /\ Call(up)
         /\ t = r <=> ~(up /\ resuming'[r] /\ RunMarker(r) # {})
         /\ thr' = [thr EXCEPT ![r] = t]
    /\ Goto(r, "graph")
    /\ UNCHANGED <<req, sid, out, via, seen, redis, thread, pruning, minted>>

\* What _run's callers do with its response.
AfterRun(r) == CASE req[r].door = "ws" -> "done"
                 [] req[r].door = "fast" -> "store"
                 [] OTHER -> "touch"

ChatResume(r) == req[r].door = "chat" /\ resuming[r]

\* _build_service_request_offer: a turn of knowledge agents only.
Offer(o) == IF FulfilActive /\ o.status = "executed" /\ o.agents = {"uc03_kb_lookup"}
            THEN "offer" ELSE "none"

Graph(r) == IF thr[r] \in Requests THEN thread[thr[r]] ELSE "none"

\* The graph ends.  A resume needs a checkpoint; a thread that has already
\* ended answers with what it ended with.
TurnEnds(r) ==
    /\ pc[r] = "graph"
    /\ resuming[r] => Graph(r) \in {"paused", "ended"}
    /\ thread' = [thread EXCEPT ![thr[r]] = "ended"]
    /\ \E o \in Outcomes :
         Answer(r, Payload(r, o.status, o.agents, o.text,
                           IF ChatResume(r) \/ Mode = "nats" THEN "none" ELSE Offer(o)), "run")
    /\ Goto(r, AfterRun(r))
    /\ UNCHANGED <<req, sid, thr, resuming, seen, redis, pruning, minted, churn>>

\* The graph pauses: the marker must name its thread before the answer.  The
\* NATS worker's reply has no field for a pause.
TurnPauses(r) ==
    /\ pc[r] = "graph"
    /\ resuming[r] => Graph(r) = "paused"
    /\ thread' = [thread EXCEPT ![thr[r]] = "paused"]
    /\ IF Mode = "nats"
       THEN Answer(r, Payload(r, "", {}, "short", "none"), "run") /\ Goto(r, AfterRun(r))
       ELSE Answer(r, Payload(r, "interrupted", {}, "useful", "pause"), "run") /\ Goto(r, "park")
    /\ UNCHANGED <<req, sid, thr, resuming, seen, redis, pruning, minted, churn>>

Park(r) ==
    /\ pc[r] = "park"
    /\ \E up \in BOOLEAN : Call(up) /\ marker' = IF up THEN [marker EXCEPT ![Key(r)] = thr[r]] ELSE marker
    /\ Goto(r, AfterRun(r))
    /\ UNCHANGED <<local, meta, index, exact, sem, thread, pruning, minted>>

\* Mutant: nothing bounds a turn that has been sent.
TurnDegradedUnbounded(r) == FALSE /\ UNCHANGED vars

\* TimeoutError and NATSUnavailableError become a reply; the chat resume
\* takes any exception as an empty output.
TurnDegraded(r) ==
    /\ pc[r] = "graph"
    /\ Answer(r, IF ChatResume(r) THEN Payload(r, "executed", {}, "short", "none")
                 ELSE Payload(r, "service_degraded", {}, "useful", "none"), "run")
    /\ Goto(r, AfterRun(r))
    /\ UNCHANGED <<req, sid, thr, resuming, seen, redis, thread, pruning, minted, churn>>

\* Any other exception is HTTP 500; the streaming and the socket doors turn
\* it into a payload.
TurnRaises(r) ==
    /\ pc[r] = "graph" /\ ~ChatResume(r)
    /\ Answer(r, Payload(r, CASE req[r].door \in Streaming -> "failed"
                              [] req[r].door = "ws" -> "service_degraded"
                              [] OTHER -> "error", {}, "useful", "none"), "run")
    /\ Goto(r, IF req[r].door \in Streaming THEN "touch" ELSE "done")
    /\ UNCHANGED <<req, sid, thr, resuming, seen, redis, thread, pruning, minted, churn>>

\* The write-back: chat and fast path to the exact cache, a standalone
\* stream to the semantic one; a hit and a chat resume store nothing.
Store(r) ==
    LET p == out[r] IN
    /\ pc[r] = "store"
    /\ \E up \in BOOLEAN : Call(up) /\
         LET stores == up /\ via[r] = "run" /\ ~ChatResume(r) /\ ShouldCache(p) IN
         /\ exact' = CASE stores /\ req[r].door = "chat" ->
                            Put(exact, CacheKey(req[r].who, sid[r], req[r].msg), p)
                       [] stores /\ req[r].door = "fast" ->
                            Put(exact, EdgeKey(req[r].who, NoSid, req[r].msg), p)
                       [] OTHER -> exact
         /\ sem' = IF stores /\ Eligible(r)
                   THEN [sem EXCEPT ![Bucket(req[r].who)] = Push(@, req[r].msg, p)] ELSE sem
    /\ Goto(r, "done")
    /\ UNCHANGED <<local, meta, index, marker, thread, pruning, minted>>

\* The client of a stream goes away: its generator closes and cancels _run.
Disconnect(r) ==
    /\ req[r].door \in Streaming
    /\ pc[r] \in {"graph", "park", "touch", "touch_write", "store"}
    /\ Goto(r, "gone")
    /\ UNCHANGED <<local, redis, thread, pruning, minted, churn>>

\* The caches' TTL, of every key and of the markers.
CacheExpires ==
    /\ Churn
    /\ \/ \E k \in DOMAIN exact :
            exact' = [j \in DOMAIN exact \ {k} |-> exact[j]] /\ UNCHANGED <<sem, marker>>
       \/ \E b \in DOMAIN sem :
            sem[b] # <<>> /\ sem' = [sem EXCEPT ![b] = <<>>] /\ UNCHANGED <<exact, marker>>
       \/ \E k \in DOMAIN marker : marker[k] # NoMarker /\
            marker' = [marker EXCEPT ![k] = NoMarker] /\ UNCHANGED <<exact, sem>>
    /\ UNCHANGED <<pc, local, meta, index, thread, pruning, minted>>

NoInput == [door |-> "none", who |-> CHOOSE p \in Principals : TRUE, sid |-> NoSid,
            msg |-> "none", resume |-> FALSE]

Init ==
    /\ pc = [r \in Requests |-> "idle"] /\ req = [r \in Requests |-> NoInput]
    /\ sid = [r \in Requests |-> NoSid] /\ via = [r \in Requests |-> "none"]
    /\ out = [r \in Requests |-> [by |-> r, status |-> "", agents |-> {}, text |-> "short",
                                  interrupt |-> "none", sid |-> NoSid]]
    /\ thr = [r \in Requests |-> r] /\ resuming = [r \in Requests |-> FALSE]
    /\ seen = [r \in Requests |-> NoMeta]
    /\ meta = [k \in Tenants \X Sessions |-> NoMeta] /\ index = [u \in Users |-> {}]
    /\ exact = <<>> /\ sem = [b \in {Bucket(p) : p \in Principals} |-> <<>>]
    /\ marker = [k \in Tenants \X Sessions |-> NoMarker]
    /\ thread = [r \in Requests |-> "none"]
    /\ pruning = <<>> /\ minted = {} /\ churn = 0

Handler(r) ==
    \/ GetSession(r) \/ CreateSession(r) \/ Lookup(r) \/ EdgeLookup(r) \/ Dispatch(r)
    \/ SemLookup(r) \/ PendingGet(r) \/ PendingClear(r) \/ Run(r) \/ Park(r)
    \/ TurnDegraded(r) \/ TouchRead(r) \/ TouchWrite(r) \/ Store(r)

Next ==
    \/ \E r \in Requests : Arrive(r) \/ Handler(r) \/ TurnEnds(r) \/ TurnPauses(r)
                           \/ TurnRaises(r) \/ Disconnect(r)
    \/ \E p \in Principals : SessionCreate(p)
    \/ \E t \in Tenants, s \in Sessions : SessionDelete(t, s) \/ SessionExpires(t, s)
    \/ \E u \in Users, s \in Sessions : ListFinds(u, s)
    \/ ListPrunes \/ CacheExpires

\* The event loop runs what is ready and wait_for bounds every turn; nothing
\* is assumed of the graph.
Spec == Init /\ [][Next]_vars /\ \A r \in Requests : WF_vars(Handler(r))
-----------------------------------------------------------------------------
\* A reply taken from a cache answers the question that was asked: from the
\* exact cache one of the same principal, session and normalised message, from
\* the edge cache one of the same principal and inputs, from the semantic cache
\* one of the same tenant and role, close enough and standalone on both sides
\* (cache_key, _bucket, is_standalone, the threshold).
CachedReplyInScope ==
    \A r \in Requests :
        LET by == req[out[r].by] IN
        /\ via[r] = "exact" =>
             /\ by.who = req[r].who /\ NormalForm[by.msg] = NormalForm[req[r].msg]
             /\ sid[out[r].by] = sid[r]
        /\ via[r] = "edge" => by.who = req[r].who /\ by.msg = req[r].msg
        /\ via[r] = "semantic" =>
             /\ by.who.tenant = req[r].who.tenant /\ by.who.role = req[r].who.role
             /\ {by.msg, req[r].msg} \subseteq Standalone
             /\ Score[<<req[r].msg, by.msg>>] >= Threshold

\* A pause, an offer to raise a request or a fulfilment reply reaches the
\* request that produced it and no other: its buttons and its form belong to
\* one thread, and a replayed one would act twice (should_cache's conditions).
StatefulReplyNeverReplayed ==
    \A r \in Requests :
        out[r].by # r => /\ out[r].interrupt \notin {"pause", "offer"}
                         /\ out[r].status # "interrupted"
                         /\ "uc08_fulfillment" \notin out[r].agents

\* A resume continues a thread of its own tenant and session, and only one
\* that has paused (the marker's key; app.py _chat and _run).
ResumeStaysInSession ==
    \A r \in Requests :
        resuming[r] /\ thr[r] \in Requests \ {r} =>
            /\ req[thr[r]].who.tenant = req[r].who.tenant /\ sid[thr[r]] = sid[r]
            /\ thread[thr[r]] # "none"

\* Every request that arrives is answered, or its client has gone, whatever
\* Redis and the graph do (asyncio.wait_for around the turn).
EveryRequestAnswered == \A r \in Requests : pc[r] # "idle" ~> pc[r] \in {"done", "gone"}

=============================================================================
