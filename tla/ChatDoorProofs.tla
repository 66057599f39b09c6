--------------------------- MODULE ChatDoorProofs ---------------------------
(***************************************************************************)
(* Theorems about ChatDoor: for any number of requests, principals,        *)
(* sessions and messages, a cached reply stays in its scope, a stateful one*)
(* is never replayed, and a resume stays in its session.                   *)
(***************************************************************************)
EXTENDS ChatDoor, TLAPS

Early == {"idle", "session", "create"}
PCs == Early \cup {"lookup", "stream", "edge", "dispatch", "pending", "clear", "run", "graph",
                   "park", "touch", "touch_write", "store", "done", "gone"}
Replayed == {"exact", "edge", "semantic"}

Payloads ==
  [by : Requests,
   status : {o.status : o \in Outcomes} \cup
            {"", "invalid_request", "clarification", "interrupted", "executed", "service_degraded",
             "failed", "error"},
   agents : {o.agents : o \in Outcomes} \cup {{}},
   text : {o.text : o \in Outcomes} \cup {"useful", "short"},
   interrupt : {"none", "offer", "pause"},
   sid : Sessions \cup {NoSid}]
Entries == [msg : {in.msg : in \in Inputs}, payload : Payloads]
Buckets == {Bucket(p) : p \in Principals}

(* The shapes the induction needs. *)
DoorTypeOK ==
  /\ pc \in [Requests -> PCs]
  /\ req \in [Requests -> Inputs \cup {NoInput}]
  /\ sid \in [Requests -> Sessions \cup {NoSid}]
  /\ out \in [Requests -> Payloads]
  /\ via \in [Requests -> Replayed \cup {"none", "run"}]
  /\ thr \in [Requests -> Requests \cup {Cleared}]
  /\ resuming \in [Requests -> BOOLEAN]
  /\ thread \in [Requests -> {"none", "paused", "ended"}]
  /\ marker \in [Tenants \X Sessions -> Requests \cup {NoMarker, Cleared}]
  /\ sem \in [Buckets -> Seq(Entries)]
  /\ \A k \in DOMAIN exact : exact[k] \in Payloads

(* A request past the session step has its input and its session for good. *)
StageOK ==
  \A r \in Requests :
    /\ pc[r] # "idle" => req[r] \in Inputs
    /\ pc[r] \notin Early => sid[r] \in Sessions
    /\ pc[r] \in Early => via[r] = "none" /\ thr[r] = r
    /\ pc[r] = "graph" /\ ~ resuming[r] => thr[r] = r
    /\ pc[r] = "park" => thr[r] \in Requests /\ thread[thr[r]] # "none"
    /\ via[r] \in {"none", "run"} => out[r].by = r
    /\ via[r] \in Replayed => pc[out[r].by] = "done" /\ ShouldCache(out[r])

(* What the caches hold came from a request that is over, may be cached,   *)
(* and sits under the key, or in the bucket, of that request.              *)
CachesOK ==
  /\ \A k \in DOMAIN exact :
       LET p == exact[k] IN
       /\ pc[p.by] = "done" /\ ShouldCache(p)
       /\ k.door = "chat" => k = CacheKey(req[p.by].who, sid[p.by], req[p.by].msg)
       /\ k.door = "fast_path" => k = EdgeKey(req[p.by].who, NoSid, req[p.by].msg)
  /\ \A b \in Buckets : \A i \in DOMAIN sem[b] :
       LET e == sem[b][i] IN
       /\ pc[e.payload.by] = "done" /\ ShouldCache(e.payload)
       /\ e.msg = req[e.payload.by].msg /\ e.msg \in Standalone
       /\ b = Bucket(req[e.payload.by].who)

(* The request t owns a started thread of session s of the tenant.         *)
Owns(t, tenant, s) ==
  /\ pc[t] \notin Early /\ req[t].who.tenant = tenant /\ sid[t] = s
  /\ thread[t] # "none"

(* A marker names a thread of its own session; so does what a resume took  *)
(* from it.                                                                *)
ThreadsOK ==
  /\ \A k \in Tenants \X Sessions : marker[k] \in Requests => Owns(marker[k], k[1], k[2])
  /\ \A r \in Requests : thr[r] \in Requests \ {r} =>
       pc[r] \notin Early /\ Owns(thr[r], req[r].who.tenant, sid[r])

DoorInv == DoorTypeOK /\ StageOK /\ CachesOK /\ ThreadsOK /\ CachedReplyInScope

-----------------------------------------------------------------------------
(* The parts of the invariant that speak of one request.                   *)
Stage(r) ==
  /\ pc[r] # "idle" => req[r] \in Inputs
  /\ pc[r] \notin Early => sid[r] \in Sessions
  /\ pc[r] \in Early => via[r] = "none" /\ thr[r] = r
  /\ pc[r] = "graph" /\ ~ resuming[r] => thr[r] = r
  /\ pc[r] = "park" => thr[r] \in Requests /\ thread[thr[r]] # "none"
  /\ via[r] \in {"none", "run"} => out[r].by = r
  /\ via[r] \in Replayed => pc[out[r].by] = "done" /\ ShouldCache(out[r])

Resumed(r) ==
  thr[r] \in Requests \ {r} => pc[r] \notin Early /\ Owns(thr[r], req[r].who.tenant, sid[r])

InScope(r) ==
  /\ via[r] = "exact" =>
       /\ req[out[r].by].who = req[r].who /\ NormalForm[req[out[r].by].msg] = NormalForm[req[r].msg]
       /\ sid[out[r].by] = sid[r]
  /\ via[r] = "edge" => req[out[r].by].who = req[r].who /\ req[out[r].by].msg = req[r].msg
  /\ via[r] = "semantic" =>
       /\ req[out[r].by].who.tenant = req[r].who.tenant /\ req[out[r].by].who.role = req[r].who.role
       /\ {req[out[r].by].msg, req[r].msg} \subseteq Standalone
       /\ Score[<<req[r].msg, req[out[r].by].msg>>] >= Threshold

Mine(r) == Stage(r) /\ Resumed(r) /\ InScope(r)
Markers == \A k \in Tenants \X Sessions : marker[k] \in Requests => Owns(marker[k], k[1], k[2])

(* A step never takes an input or a session back, nor a finished request   *)
(* or a started thread.                                                    *)
Monotone ==
  /\ \A q \in Requests : pc[q] \notin Early => pc'[q] \notin Early /\ req'[q] = req[q] /\ sid'[q] = sid[q]
  /\ \A q \in Requests : pc[q] = "done" => pc'[q] = "done"
  /\ \A q \in Requests : thread[q] # "none" => thread'[q] # "none"

SameFor(q) ==
  /\ pc'[q] = pc[q] /\ req'[q] = req[q] /\ sid'[q] = sid[q] /\ out'[q] = out[q] /\ via'[q] = via[q]
  /\ thr'[q] = thr[q] /\ resuming'[q] = resuming[q]

(* The invariant, request by request. *)
LEMMA ByRequest ==
  DoorInv <=> DoorTypeOK /\ CachesOK /\ Markers /\ \A r \in Requests : Mine(r)
BY DEF DoorInv, StageOK, ThreadsOK, CachedReplyInScope, Mine, Markers, Stage, Resumed, InScope

(* A cached payload is as good after a step that only goes forward. *)
LEMMA CachesStay ==
  ASSUME DoorInv, Monotone, UNCHANGED <<exact, sem>>
  PROVE  CachesOK'
<1>1. \A k \in DOMAIN exact : exact[k].by \in Requests
  BY DEF DoorInv, DoorTypeOK, Payloads
<1>2. \A b \in Buckets : \A i \in DOMAIN sem[b] : sem[b][i].payload.by \in Requests
  <2> SUFFICES ASSUME NEW b \in Buckets, NEW i \in DOMAIN sem[b]
               PROVE  sem[b][i].payload.by \in Requests
    OBVIOUS
  <2>1. sem[b] \in Seq(Entries)
    BY DEF DoorInv, DoorTypeOK
  <2>2. sem[b][i] \in Entries
    BY <2>1
  <2> QED BY <2>2 DEF Payloads, Entries
<1>3. \A q \in Requests : pc[q] = "done" => pc'[q] = "done" /\ req'[q] = req[q] /\ sid'[q] = sid[q]
  BY DEF Monotone, Early
<1>4. ASSUME NEW k \in DOMAIN exact
      PROVE  LET p == exact[k] IN
             /\ pc'[p.by] = "done" /\ ShouldCache(p)
             /\ k.door = "chat" => k = CacheKey(req'[p.by].who, sid'[p.by], req'[p.by].msg)
             /\ k.door = "fast_path" => k = EdgeKey(req'[p.by].who, NoSid, req'[p.by].msg)
  BY <1>1, <1>3 DEF DoorInv, CachesOK
<1>5. ASSUME NEW b \in Buckets, NEW i \in DOMAIN sem[b]
      PROVE  LET e == sem[b][i] IN
             /\ pc'[e.payload.by] = "done" /\ ShouldCache(e.payload)
             /\ e.msg = req'[e.payload.by].msg /\ e.msg \in Standalone
             /\ b = Bucket(req'[e.payload.by].who)
  BY <1>2, <1>3 DEF DoorInv, CachesOK
<1> QED BY <1>4, <1>5 DEF CachesOK

(* A thread once owned stays owned. *)
LEMMA OwnedStays ==
  ASSUME Monotone, NEW t \in Requests, NEW tenant, NEW s, Owns(t, tenant, s)
  PROVE  Owns(t, tenant, s)'
BY DEF Monotone, Owns

(* What holds of a request that does not move. *)
LEMMA OthersStay ==
  ASSUME DoorInv, Monotone, NEW q \in Requests, SameFor(q)
  PROVE  Mine(q)'
<1>1. Mine(q) /\ out[q].by \in Requests
  BY ByRequest DEF DoorInv, DoorTypeOK, Payloads
<1>2. Stage(q)'
  BY <1>1 DEF Mine, Stage, SameFor, Monotone
<1>3. Resumed(q)'
  <2> SUFFICES ASSUME thr[q] \in Requests \ {q}
               PROVE  pc[q] \notin Early /\ Owns(thr[q], req[q].who.tenant, sid[q])'
    BY DEF Resumed, SameFor, Owns
  <2>1. pc[q] \notin Early /\ Owns(thr[q], req[q].who.tenant, sid[q])
    BY <1>1 DEF Mine, Resumed
  <2> QED BY <2>1 DEF Owns, Monotone, SameFor
<1>4. via[q] \in Replayed => req'[out[q].by] = req[out[q].by] /\ sid'[out[q].by] = sid[out[q].by]
  BY <1>1 DEF Mine, Stage, Monotone, Early
<1>5. InScope(q)'
  BY <1>1, <1>4 DEF Mine, InScope, SameFor, Replayed
<1> QED BY <1>2, <1>3, <1>5 DEF Mine

(* The marker of a session still names a thread of it. *)
LEMMA MarkersStay ==
  ASSUME DoorInv, Monotone, UNCHANGED marker
  PROVE  Markers'
<1> SUFFICES ASSUME NEW k \in Tenants \X Sessions, marker[k] \in Requests
             PROVE  Owns(marker[k], k[1], k[2])'
  BY DEF Markers, Owns
<1>1. Owns(marker[k], k[1], k[2])
  BY DEF DoorInv, ThreadsOK
<1> QED BY <1>1 DEF Owns, Monotone

(* A step of one request keeps the invariant when it keeps what is shared  *)
(* and what holds of that request.                                         *)
LEMMA Assemble ==
  ASSUME DoorInv, NEW r \in Requests, DoorTypeOK', Monotone, Mine(r)', CachesOK', Markers',
         \A q \in Requests \ {r} : SameFor(q)
  PROVE  DoorInv'
<1>1. \A q \in Requests : Mine(q)'
  BY OthersStay
<1>2. StageOK'
  BY <1>1 DEF StageOK, Mine, Stage
<1>3. ThreadsOK'
  BY <1>1 DEF ThreadsOK, Mine, Markers, Resumed
<1>4. CachedReplyInScope'
  BY <1>1 DEF CachedReplyInScope, Mine, InScope
<1> QED BY <1>2, <1>3, <1>4 DEF DoorInv

(* In particular when it leaves the caches and the markers alone. *)
LEMMA StepKeeps ==
  ASSUME DoorInv, NEW r \in Requests, DoorTypeOK', Monotone, Mine(r)',
         UNCHANGED <<exact, sem, marker>>, \A q \in Requests \ {r} : SameFor(q)
  PROVE  DoorInv'
<1>1. CachesOK' /\ Markers'
  BY CachesStay, MarkersStay
<1> QED BY <1>1, Assemble

(* A request that moves on without an answer of its own. *)
LEMMA MoveKeeps ==
  ASSUME DoorInv, NEW r \in Requests, NEW l \in PCs \ Early, Goto(r, l), pc[r] \notin Early,
         pc[r] # "done", l \notin {"graph", "park"},
         UNCHANGED <<req, sid, out, via, thr, resuming, exact, sem, marker, thread>>
  PROVE  DoorInv'
<1>1. DoorTypeOK' /\ pc'[r] = l /\ \A q \in Requests \ {r} : SameFor(q)
  BY DEF DoorInv, DoorTypeOK, Goto, SameFor
<1>2. Monotone
  BY <1>1 DEF Monotone, SameFor
<1>3. Mine(r) /\ out[r].by \in Requests
  BY ByRequest DEF DoorInv, DoorTypeOK, Payloads
<1>4. Stage(r)'
  BY <1>1, <1>2, <1>3 DEF Mine, Stage, Monotone, Early
<1>5. Resumed(r)'
  BY <1>1, <1>2, <1>3 DEF Mine, Resumed, Owns, Monotone
<1>6. InScope(r)'
  BY <1>3 DEF Mine, InScope
<1>7. Mine(r)'
  BY <1>4, <1>5, <1>6 DEF Mine
<1> QED BY <1>1, <1>2, <1>7, StepKeeps

(* A request that is answered: by its own turn, or from a cache.           *)
LEMMA AnswerKeeps ==
  ASSUME DoorInv, NEW r \in Requests, NEW l \in PCs \ Early, Goto(r, l), pc[r] \notin Early,
         pc[r] # "done", l # "graph",
         l = "park" => thr[r] \in Requests /\ thread'[thr[r]] # "none",
         NEW p \in Payloads, NEW how \in Replayed \cup {"run"}, Answer(r, p, how),
         how = "run" => p.by = r,
         how \in Replayed => pc[p.by] = "done" /\ ShouldCache(p),
         InScope(r)',
         thread' \in [Requests -> {"none", "paused", "ended"}],
         \A q \in Requests : thread[q] # "none" => thread'[q] # "none",
         UNCHANGED <<req, sid, thr, resuming, exact, sem, marker>>
  PROVE  DoorInv'
<1>1. DoorTypeOK' /\ pc'[r] = l /\ out'[r] = p /\ via'[r] = how
  BY DEF DoorInv, DoorTypeOK, Goto, Answer
<1>2. \A q \in Requests \ {r} : SameFor(q)
  BY DEF DoorInv, DoorTypeOK, Goto, Answer, SameFor
<1>3. Monotone
  BY <1>1, <1>2 DEF Monotone, SameFor
<1>4. Mine(r) /\ p.by \in Requests
  BY ByRequest DEF Payloads
<1>5. Stage(r)'
  BY <1>1, <1>2, <1>3, <1>4 DEF Mine, Stage, Monotone, Replayed, Early
<1>6. Resumed(r)'
  BY <1>1, <1>3, <1>4 DEF Mine, Resumed, Owns, Monotone
<1>7. Mine(r)'
  BY <1>5, <1>6 DEF Mine
<1> QED BY <1>1, <1>2, <1>3, <1>7, StepKeeps

(* The reply of the request's own turn. *)
LEMMA OwnAnswerKeeps ==
  ASSUME DoorInv, NEW r \in Requests, NEW l \in PCs \ Early, Goto(r, l), pc[r] \notin Early,
         pc[r] # "done", l # "graph",
         l = "park" => thr[r] \in Requests /\ thread'[thr[r]] # "none",
         NEW p \in Payloads, Answer(r, p, "run"), p.by = r,
         thread' \in [Requests -> {"none", "paused", "ended"}],
         \A q \in Requests : thread[q] # "none" => thread'[q] # "none",
         UNCHANGED <<req, sid, thr, resuming, exact, sem, marker>>
  PROVE  DoorInv'
<1>1. via'[r] = "run"
  BY DEF DoorInv, DoorTypeOK, Answer
<1>2. InScope(r)'
  BY <1>1 DEF InScope
<1> QED BY <1>2, AnswerKeeps DEF Replayed

(* A request that is still taking its input or its session.                *)
LEMMA EarlyKeeps ==
  ASSUME DoorInv, NEW r \in Requests, NEW l \in PCs \ {"idle", "graph", "park", "done"}, Goto(r, l),
         pc[r] \in Early,
         NEW in \in Inputs, req' = [req EXCEPT ![r] = in],
         NEW s \in Sessions \cup {NoSid}, sid' = [sid EXCEPT ![r] = s], l \notin Early => s \in Sessions,
         UNCHANGED <<out, via, thr, resuming, exact, sem, marker, thread>>
  PROVE  DoorInv'
<1>1. DoorTypeOK' /\ pc'[r] = l /\ req'[r] = in /\ sid'[r] = s
  BY DEF DoorInv, DoorTypeOK, Goto
<1>2. \A q \in Requests \ {r} : SameFor(q)
  BY DEF DoorInv, DoorTypeOK, Goto, SameFor
<1>3. Monotone
  BY <1>1, <1>2 DEF Monotone, SameFor, Early
<1>4. via[r] = "none" /\ thr[r] = r /\ out[r].by = r
  BY DEF DoorInv, StageOK
<1>5. Mine(r)'
  BY <1>1, <1>4 DEF Mine, Stage, Resumed, InScope, Replayed
<1> QED BY <1>1, <1>2, <1>3, <1>5, StepKeeps

(* The doors take the client's session id, or mint one. *)
LEMMA MintedIsSession == CanMint => NewId \in Sessions
BY DEF CanMint, NewId, Sessions

LEMMA SessionStepKeeps ==
  ASSUME DoorInv, NEW r \in Requests, Arrive(r) \/ GetSession(r) \/ CreateSession(r)
  PROVE  DoorInv'
<1>1. req \in [Requests -> Inputs \cup {NoInput}] /\ sid \in [Requests -> Sessions \cup {NoSid}]
  BY DEF DoorInv, DoorTypeOK
<1>2. \A in \in Inputs : in.sid # NoSid => in.sid \in Sessions
  BY DoorAssumption DEF Sessions
<1>3. CASE Arrive(r)
  <2>1. PICK in \in Inputs :
          /\ req' = [req EXCEPT ![r] = in]
          /\ \/ Goto(r, "session") /\ UNCHANGED sid
             \/ /\ in.sid # NoSid /\ sid' = [sid EXCEPT ![r] = in.sid]
                /\ Goto(r, IF in.door = "fast" THEN "edge" ELSE "dispatch")
             \/ /\ CanMint /\ sid' = [sid EXCEPT ![r] = NewId]
                /\ Goto(r, IF in.door = "fast" THEN "edge" ELSE "dispatch")
    BY <1>3 DEF Arrive
  <2>2. pc[r] \in Early /\ UNCHANGED <<out, via, thr, resuming, exact, sem, marker, thread>>
    BY <1>3 DEF Arrive, redis, Early
  <2>3. CASE Goto(r, "session") /\ UNCHANGED sid
    <3>1. sid' = [sid EXCEPT ![r] = sid[r]] /\ sid[r] \in Sessions \cup {NoSid}
      BY <1>1, <2>3
    <3> QED BY <2>1, <2>2, <2>3, <3>1, EarlyKeeps DEF PCs, Early
  <2>4. CASE /\ in.sid # NoSid /\ sid' = [sid EXCEPT ![r] = in.sid]
             /\ Goto(r, IF in.door = "fast" THEN "edge" ELSE "dispatch")
    BY <1>2, <2>1, <2>2, <2>4, EarlyKeeps DEF PCs, Early
  <2>5. CASE /\ CanMint /\ sid' = [sid EXCEPT ![r] = NewId]
             /\ Goto(r, IF in.door = "fast" THEN "edge" ELSE "dispatch")
    BY <2>1, <2>2, <2>5, EarlyKeeps, MintedIsSession DEF PCs, Early
  <2> QED BY <2>1, <2>3, <2>4, <2>5
<1>4. CASE GetSession(r)
  <2>1. /\ pc[r] \in Early /\ req[r] \in Inputs /\ req' = [req EXCEPT ![r] = req[r]]
        /\ UNCHANGED <<out, via, thr, resuming, exact, sem, marker, thread>>
    BY <1>1, <1>4 DEF GetSession, redis, Early, DoorInv, StageOK
  <2>2. \/ /\ req[r].sid # NoSid /\ sid' = [sid EXCEPT ![r] = req[r].sid]
           /\ Goto(r, IF req[r].door = "chat" THEN "lookup" ELSE "stream")
        \/ Goto(r, "create") /\ sid' = [sid EXCEPT ![r] = sid[r]] /\ sid[r] \in Sessions \cup {NoSid}
    BY <1>1, <1>4 DEF GetSession
  <2> QED BY <1>2, <2>1, <2>2, EarlyKeeps DEF PCs, Early
<1>5. CASE CreateSession(r)
  <2>1. /\ pc[r] \in Early /\ req[r] \in Inputs /\ req' = [req EXCEPT ![r] = req[r]]
        /\ UNCHANGED <<out, via, thr, resuming, exact, sem, marker, thread>>
        /\ Goto(r, IF req[r].door = "chat" THEN "lookup" ELSE "stream")
    BY <1>1, <1>5 DEF CreateSession, redis, Early, DoorInv, StageOK
  <2>2. PICK s : s \in Sessions /\ sid' = [sid EXCEPT ![r] = s]
    BY <1>2, <1>5, <2>1, MintedIsSession, DoorAssumption DEF CreateSession
  <2> QED BY <2>1, <2>2, EarlyKeeps DEF PCs, Early
<1> QED BY <1>3, <1>4, <1>5

(* The steps that only move a request on. *)
LEMMA TouchKeeps ==
  ASSUME DoorInv, NEW r \in Requests, TouchRead(r) \/ TouchWrite(r) \/ Disconnect(r)
  PROVE  DoorInv'
<1>1. CASE TouchRead(r)
  BY <1>1, MoveKeeps DEF TouchRead, redis, PCs, Early
<1>2. CASE TouchWrite(r)
  BY <1>2, MoveKeeps DEF TouchWrite, PCs, Early
<1>3. CASE Disconnect(r)
  BY <1>3, MoveKeeps DEF Disconnect, local, redis, PCs, Early
<1> QED BY <1>1, <1>2, <1>3

(* An exact hit is a reply to the same principal, session and normalised   *)
(* message: the key holds all three.                                       *)
LEMMA LookupKeeps ==
  ASSUME DoorInv, NEW r \in Requests, Lookup(r)
  PROVE  DoorInv'
<1> DEFINE key == CacheKey(req[r].who, sid[r], req[r].msg)
           p == exact[key]
<1>1. CASE key \in DOMAIN exact /\ Answer(r, p, "exact") /\ Goto(r, "touch")
  <2>1. /\ p \in Payloads /\ p.by \in Requests /\ pc[p.by] = "done" /\ ShouldCache(p)
        /\ key = CacheKey(req[p.by].who, sid[p.by], req[p.by].msg)
    BY <1>1 DEF DoorInv, DoorTypeOK, CachesOK, CacheKey, Payloads
  <2>2. /\ req[p.by].who = req[r].who /\ sid[p.by] = sid[r]
        /\ NormalForm[req[p.by].msg] = NormalForm[req[r].msg]
    BY <2>1 DEF CacheKey
  <2>3. UNCHANGED <<req, sid, thr, resuming, exact, sem, marker, thread>> /\ pc[r] = "lookup"
    BY DEF Lookup, redis
  <2>4. out'[r] = p /\ via'[r] = "exact"
    BY <1>1 DEF DoorInv, DoorTypeOK, Answer
  <2>5. InScope(r)'
    BY <2>2, <2>3, <2>4 DEF InScope
  <2>6. thread' \in [Requests -> {"none", "paused", "ended"}]
    BY <2>3 DEF DoorInv, DoorTypeOK
  <2> HIDE DEF p, key
  <2> QED BY <1>1, <2>1, <2>3, <2>5, <2>6, AnswerKeeps DEF PCs, Early, Replayed
<1>2. CASE UNCHANGED <<out, via>> /\ Goto(r, IF req[r].resume THEN "pending" ELSE "run")
  BY <1>2, MoveKeeps DEF Lookup, redis, PCs, Early
<1> QED BY <1>1, <1>2 DEF Lookup

(* An edge hit is a reply to the same principal and the same inputs. *)
LEMMA EdgeLookupKeeps ==
  ASSUME DoorInv, NEW r \in Requests, EdgeLookup(r)
  PROVE  DoorInv'
<1> DEFINE key == EdgeKey(req[r].who, NoSid, req[r].msg)
           p == exact[key]
<1>1. CASE key \in DOMAIN exact /\ Answer(r, p, "edge") /\ Goto(r, "done")
  <2>1. /\ p \in Payloads /\ p.by \in Requests /\ pc[p.by] = "done" /\ ShouldCache(p)
        /\ key = EdgeKey(req[p.by].who, NoSid, req[p.by].msg)
    BY <1>1 DEF DoorInv, DoorTypeOK, CachesOK, EdgeKey, Payloads
  <2>2. req[p.by].who = req[r].who /\ req[p.by].msg = req[r].msg
    BY <2>1 DEF EdgeKey
  <2>3. UNCHANGED <<req, sid, thr, resuming, exact, sem, marker, thread>> /\ pc[r] = "edge"
    BY DEF EdgeLookup, redis
  <2>4. out'[r] = p /\ via'[r] = "edge"
    BY <1>1 DEF DoorInv, DoorTypeOK, Answer
  <2>5. InScope(r)'
    BY <2>2, <2>3, <2>4 DEF InScope
  <2>6. thread' \in [Requests -> {"none", "paused", "ended"}]
    BY <2>3 DEF DoorInv, DoorTypeOK
  <2> HIDE DEF p, key
  <2> QED BY <1>1, <2>1, <2>3, <2>5, <2>6, AnswerKeeps DEF PCs, Early, Replayed
<1>2. CASE UNCHANGED <<out, via>> /\ Goto(r, "dispatch")
  BY <1>2, MoveKeeps DEF EdgeLookup, redis, PCs, Early
<1> QED BY <1>1, <1>2 DEF EdgeLookup

(* A semantic hit comes from the bucket of the tenant and role, and is     *)
(* close enough to a standalone question.                                  *)
LEMMA SemLookupKeeps ==
  ASSUME DoorInv, NEW r \in Requests, SemLookup(r)
  PROVE  DoorInv'
<1> DEFINE b == Bucket(req[r].who)
<1>1. pc[r] = "stream" /\ req[r] \in Inputs /\ b \in Buckets /\ sem[b] \in Seq(Entries)
  <2>1. pc[r] = "stream" /\ req[r] \in Inputs
    BY DEF DoorInv, StageOK, SemLookup
  <2>2. b \in Buckets
    BY <2>1, DoorAssumption DEF Buckets
  <2> QED BY <2>1, <2>2 DEF DoorInv, DoorTypeOK
<1>2. ASSUME NEW i \in BestMatch(sem[b], req[r].msg), Eligible(r),
             Answer(r, [sem[b][i].payload EXCEPT !.sid = sid[r]], "semantic"), Goto(r, "done")
      PROVE  DoorInv'
  <2> DEFINE e == sem[b][i]
             p == [e.payload EXCEPT !.sid = sid[r]]
  <2>1. i \in DOMAIN sem[b] /\ Score[<<req[r].msg, e.msg>>] >= Threshold
    BY <1>2 DEF BestMatch
  <2>2. e \in Entries /\ e.payload \in Payloads
    <3>1. e \in Entries
      BY <1>1, <2>1
    <3> QED BY <3>1 DEF Entries
  <2>3. /\ pc[e.payload.by] = "done" /\ ShouldCache(e.payload)
        /\ e.msg = req[e.payload.by].msg /\ e.msg \in Standalone
        /\ b = Bucket(req[e.payload.by].who)
    BY <1>1, <2>1 DEF DoorInv, CachesOK
  <2>4. sid[r] \in Sessions \cup {NoSid}
    BY DEF DoorInv, DoorTypeOK
  <2>5. /\ p \in Payloads /\ p.by = e.payload.by /\ p.status = e.payload.status
        /\ p.agents = e.payload.agents /\ p.text = e.payload.text /\ p.interrupt = e.payload.interrupt
    BY <2>2, <2>4 DEF Payloads
  <2>6. pc[p.by] = "done" /\ ShouldCache(p)
    BY <2>3, <2>5 DEF ShouldCache
  <2>7. UNCHANGED <<req, sid, thr, resuming, exact, sem, marker, thread>>
    BY DEF SemLookup, redis
  <2>8. out'[r] = p /\ via'[r] = "semantic"
    BY <1>2 DEF DoorInv, DoorTypeOK, Answer
  <2>9. /\ req[p.by].who.tenant = req[r].who.tenant /\ req[p.by].who.role = req[r].who.role
        /\ {req[p.by].msg, req[r].msg} \subseteq Standalone
        /\ Score[<<req[r].msg, req[p.by].msg>>] >= Threshold
    <3>1. req[p.by].who.tenant = req[r].who.tenant /\ req[p.by].who.role = req[r].who.role
      BY <2>3, <2>5 DEF Bucket
    <3>2. req[p.by].msg = e.msg /\ req[r].msg \in Standalone
      BY <1>2, <2>3, <2>5 DEF Eligible, IsStandalone
    <3> HIDE DEF p, e, b
    <3> QED BY <2>1, <2>3, <3>1, <3>2
  <2> HIDE DEF p
  <2>10. InScope(r)'
    BY <2>7, <2>8, <2>9 DEF InScope
  <2>11. thread' \in [Requests -> {"none", "paused", "ended"}]
    BY <2>7 DEF DoorInv, DoorTypeOK
  <2>12. Answer(r, p, "semantic")
    BY <1>2 DEF p
  <2> QED BY <1>1, <1>2, <2>5, <2>6, <2>7, <2>10, <2>11, <2>12, AnswerKeeps DEF PCs, Early, Replayed
<1>3. CASE UNCHANGED <<out, via>> /\ Goto(r, "run")
  BY <1>3, MoveKeeps DEF SemLookup, redis, PCs, Early
<1> QED BY <1>2, <1>3 DEF SemLookup

(* The replies a request makes itself. *)
LEMMA PayloadType ==
  ASSUME DoorInv, NEW r \in Requests, NEW status, NEW agents, NEW text,
         NEW interrupt \in {"none", "offer", "pause"},
         status \in {"", "invalid_request", "clarification", "interrupted", "executed",
                     "service_degraded", "failed", "error"} \cup {o.status : o \in Outcomes},
         agents \in {o.agents : o \in Outcomes} \cup {{}},
         text \in {o.text : o \in Outcomes} \cup {"useful", "short"}
  PROVE  LET p == Payload(r, status, agents, text, interrupt) IN p \in Payloads /\ p.by = r
<1>1. sid[r] \in Sessions \cup {NoSid}
  BY DEF DoorInv, DoorTypeOK
<1> DEFINE Ss == {o.status : o \in Outcomes} \cup
                 {"", "invalid_request", "clarification", "interrupted", "executed",
                  "service_degraded", "failed", "error"}
           As == {o.agents : o \in Outcomes} \cup {{}}
           Ts == {o.text : o \in Outcomes} \cup {"useful", "short"}
<1>2. /\ status \in Ss /\ agents \in As /\ text \in Ts
      /\ Payloads = [by : Requests, status : Ss, agents : As, text : Ts,
                     interrupt : {"none", "offer", "pause"}, sid : Sessions \cup {NoSid}]
  BY DEF Payloads
<1> HIDE DEF Ss, As, Ts
<1> QED BY <1>1, <1>2 DEF Payload

(* The dispatcher refuses what it cannot bind, with a reply of its own. *)
LEMMA DispatchKeeps ==
  ASSUME DoorInv, NEW r \in Requests, Dispatch(r)
  PROVE  DoorInv'
<1>1. UNCHANGED <<req, sid, thr, resuming, exact, sem, marker, thread>> /\ pc[r] = "dispatch"
  BY DEF Dispatch, redis
<1>2. thread' \in [Requests -> {"none", "paused", "ended"}]
  BY <1>1 DEF DoorInv, DoorTypeOK
<1>3. CASE UNCHANGED <<out, via>> /\ Goto(r, "run")
  BY <1>1, <1>3, MoveKeeps DEF PCs, Early
<1>4. CASE req[r].msg \in BadInputs
  <2> DEFINE st == IF req[r].door = "ws" THEN "invalid_request" ELSE "clarification"
             p == Payload(r, st, {}, "useful", "none")
  <2>1. p \in Payloads /\ p.by = r
    <3>1. /\ st \in {"", "invalid_request", "clarification", "interrupted", "executed",
                     "service_degraded", "failed", "error"} \cup {o.status : o \in Outcomes}
          /\ {} \in {o.agents : o \in Outcomes} \cup {{}}
          /\ "useful" \in {o.text : o \in Outcomes} \cup {"useful", "short"}
      OBVIOUS
    <3> HIDE DEF st
    <3> QED BY <3>1, PayloadType
  <2>2. Answer(r, p, "run") /\ Goto(r, "done")
    BY <1>4 DEF Dispatch
  <2> HIDE DEF p
  <2> QED BY <1>1, <1>2, <2>1, <2>2, OwnAnswerKeeps DEF PCs, Early
<1> QED BY <1>3, <1>4 DEF Dispatch

(* The key under which a request's marker is kept, and the thread a marker  *)
(* or an earlier step names.                                               *)
LEMMA KeyFacts ==
  ASSUME DoorInv, NEW r \in Requests, pc[r] \notin Early
  PROVE  /\ req[r] \in Inputs /\ Key(r) \in Tenants \X Sessions
         /\ Key(r)[1] = req[r].who.tenant /\ Key(r)[2] = sid[r]
         /\ marker[Key(r)] \in Requests => Owns(marker[Key(r)], req[r].who.tenant, sid[r])
         /\ marker[Key(r)] \in Requests \cup {NoMarker, Cleared}
         /\ thr[r] \in Requests \ {r} => Owns(thr[r], req[r].who.tenant, sid[r])
         /\ thr[r] \in Requests \cup {Cleared}
<1>1. req[r] \in Inputs /\ sid[r] \in Sessions
  BY DEF DoorInv, StageOK, Early
<1>2. req[r].who.tenant \in Tenants
  BY <1>1, DoorAssumption DEF Tenants
<1>3. Key(r) \in Tenants \X Sessions /\ Key(r)[1] = req[r].who.tenant /\ Key(r)[2] = sid[r]
  BY <1>1, <1>2 DEF Key
<1>4. marker[Key(r)] \in Requests => Owns(marker[Key(r)], req[r].who.tenant, sid[r])
  BY <1>3 DEF DoorInv, ThreadsOK
<1>5. marker[Key(r)] \in Requests \cup {NoMarker, Cleared} /\ thr[r] \in Requests \cup {Cleared}
  BY <1>3 DEF DoorInv, DoorTypeOK
<1>6. thr[r] \in Requests \ {r} => Owns(thr[r], req[r].who.tenant, sid[r])
  BY DEF DoorInv, ThreadsOK
<1> QED BY <1>1, <1>3, <1>4, <1>5, <1>6

(* A request that moves on with a thread and a marker of its own session.  *)
LEMMA ThreadStepKeeps ==
  ASSUME DoorInv, NEW r \in Requests, NEW l \in PCs \ Early, Goto(r, l), pc[r] \notin Early,
         pc[r] # "done", l # "park",
         NEW t \in Requests \cup {Cleared}, thr' = [thr EXCEPT ![r] = t],
         t \in Requests \ {r} => Owns(t, req[r].who.tenant, sid[r]),
         NEW b \in BOOLEAN, resuming' = [resuming EXCEPT ![r] = b],
         l = "graph" /\ ~ b => t = r,
         NEW m \in Requests \cup {NoMarker, Cleared}, marker' = [marker EXCEPT ![Key(r)] = m],
         m \in Requests => Owns(m, req[r].who.tenant, sid[r]),
         UNCHANGED <<req, sid, out, via, exact, sem, thread>>
  PROVE  DoorInv'
<1>1. DoorTypeOK' /\ pc'[r] = l /\ thr'[r] = t /\ resuming'[r] = b
  <2>1. marker' \in [Tenants \X Sessions -> Requests \cup {NoMarker, Cleared}]
    BY DEF DoorInv, DoorTypeOK
  <2>2. pc' \in [Requests -> PCs] /\ pc'[r] = l
    BY DEF DoorInv, DoorTypeOK, Goto
  <2>3. /\ thr' \in [Requests -> Requests \cup {Cleared}] /\ thr'[r] = t
        /\ resuming' \in [Requests -> BOOLEAN] /\ resuming'[r] = b
    BY DEF DoorInv, DoorTypeOK
  <2> QED BY <2>1, <2>2, <2>3 DEF DoorInv, DoorTypeOK
<1>2. \A q \in Requests \ {r} : SameFor(q)
  BY DEF DoorInv, DoorTypeOK, Goto, SameFor
<1>3. Monotone
  BY <1>1, <1>2 DEF Monotone, SameFor
<1>4. CachesOK'
  BY <1>3, CachesStay
<1>5. Markers'
  <2> SUFFICES ASSUME NEW k \in Tenants \X Sessions, NEW x \in Requests, marker'[k] = x
               PROVE  Owns(x, k[1], k[2])'
    BY DEF Markers, Owns
  <2>1. marker \in [Tenants \X Sessions -> Requests \cup {NoMarker, Cleared}]
    BY DEF DoorInv, DoorTypeOK
  <2>2. Owns(x, k[1], k[2])
    <3>1. CASE k = Key(r)
      <4>1. marker'[k] = m
        BY <2>1, <3>1
      <4> QED BY <3>1, <4>1, KeyFacts
    <3>2. CASE k # Key(r)
      <4>1. marker'[k] = marker[k]
        BY <2>1, <3>2
      <4> QED BY <4>1 DEF DoorInv, ThreadsOK
    <3> QED BY <3>1, <3>2
  <2> QED BY <1>3, <2>2 DEF Owns, Monotone
<1>6. Mine(r) /\ out[r].by \in Requests
  BY ByRequest DEF DoorInv, DoorTypeOK, Payloads
<1>7. Stage(r)'
  BY <1>1, <1>3, <1>6 DEF Mine, Stage, Monotone, Early
<1>8. Resumed(r)'
  BY <1>1, <1>3 DEF Resumed, Owns, Monotone
<1>9. InScope(r)'
  BY <1>6 DEF Mine, InScope
<1>10. Mine(r)'
  BY <1>7, <1>8, <1>9 DEF Mine
<1> QED BY <1>1, <1>2, <1>3, <1>4, <1>5, <1>10, Assemble

(* The resume of the chat door takes its thread from its session's marker, *)
(* and so does the streaming door's; a parked turn leaves its own there.   *)
LEMMA ThreadKeeps ==
  ASSUME DoorInv, NEW r \in Requests, PendingGet(r) \/ PendingClear(r) \/ Run(r) \/ Park(r)
  PROVE  DoorInv'
<1>1. pc[r] \notin Early /\ pc[r] # "done" /\ UNCHANGED <<req, sid, out, via, exact, sem, thread>>
  BY DEF PendingGet, PendingClear, Run, Park, redis, local, Early
<1>2. resuming \in [Requests -> BOOLEAN] /\ thr \in [Requests -> Requests \cup {Cleared}]
  BY DEF DoorInv, DoorTypeOK
<1>3. /\ Key(r) \in Tenants \X Sessions
      /\ marker[Key(r)] \in Requests => Owns(marker[Key(r)], req[r].who.tenant, sid[r])
      /\ marker[Key(r)] \in Requests \cup {NoMarker, Cleared}
      /\ thr[r] \in Requests \ {r} => Owns(thr[r], req[r].who.tenant, sid[r])
  BY <1>1, KeyFacts
<1>4. /\ UNCHANGED marker => marker' = [marker EXCEPT ![Key(r)] = marker[Key(r)]]
      /\ UNCHANGED thr => thr' = [thr EXCEPT ![r] = thr[r]]
      /\ UNCHANGED resuming => resuming' = [resuming EXCEPT ![r] = resuming[r]]
  BY <1>2, <1>3 DEF DoorInv, DoorTypeOK
<1>5. CASE PendingGet(r)
  <2>1. UNCHANGED <<marker, resuming>>
    BY <1>5 DEF PendingGet, redis
  <2>2. CASE marker[Key(r)] # NoMarker /\ thr' = [thr EXCEPT ![r] = marker[Key(r)]] /\ Goto(r, "clear")
    <3>1. marker[Key(r)] \in Requests \cup {Cleared}
      BY <1>3, <2>2
    <3>2. marker[Key(r)] \in Requests \ {r} => Owns(marker[Key(r)], req[r].who.tenant, sid[r])
      BY <1>3
    <3>3. "clear" \in PCs \ Early /\ resuming[r] \in BOOLEAN
      BY <1>2 DEF PCs, Early
    <3> QED BY <1>1, <1>3, <1>4, <2>1, <2>2, <3>1, <3>2, <3>3, ThreadStepKeeps
  <2>3. CASE UNCHANGED thr /\ Goto(r, "run")
    BY <1>1, <1>2, <1>3, <1>4, <2>1, <2>3, ThreadStepKeeps DEF PCs, Early
  <2> QED BY <1>5, <2>2, <2>3 DEF PendingGet
<1>6. CASE PendingClear(r)
  <2>1. Goto(r, "graph") /\ UNCHANGED thr /\ resuming' = [resuming EXCEPT ![r] = TRUE]
    BY <1>6 DEF PendingClear
  <2>2. \/ marker' = [marker EXCEPT ![Key(r)] = Cleared]
        \/ marker' = [marker EXCEPT ![Key(r)] = marker[Key(r)]]
    BY <1>4, <1>6 DEF PendingClear
  <2>3. Cleared \notin Requests
    BY ThreadAssumption
  <2> QED BY <1>1, <1>2, <1>3, <1>4, <2>1, <2>2, <2>3, ThreadStepKeeps DEF PCs, Early
<1>7. CASE Run(r)
  <2> DEFINE b == Mode = "local" /\ req[r].door = "chat_stream" /\ req[r].resume
  <2>1. Goto(r, "graph") /\ UNCHANGED marker /\ resuming' = [resuming EXCEPT ![r] = b]
    BY <1>7 DEF Run, redis
  <2>2. b \in BOOLEAN /\ resuming'[r] = b
    BY <1>2, <2>1
  <2>3. PICK t \in {r} \cup RunMarker(r) : thr' = [thr EXCEPT ![r] = t] /\ (~ resuming'[r] => t = r)
    BY <1>7 DEF Run
  <2>4. t \in Requests /\ (t # r => Owns(t, req[r].who.tenant, sid[r]))
    BY <1>3, <2>3 DEF RunMarker
  <2> HIDE DEF b
  <2> QED BY <1>1, <1>3, <1>4, <2>1, <2>2, <2>3, <2>4, ThreadStepKeeps DEF PCs, Early
<1>8. CASE Park(r)
  <2>1. Goto(r, AfterRun(r)) /\ UNCHANGED <<thr, resuming>> /\ pc[r] = "park"
    BY <1>8 DEF Park, local
  <2>2. AfterRun(r) \in {"done", "store", "touch"}
    BY DEF AfterRun
  <2>3. \/ marker' = [marker EXCEPT ![Key(r)] = thr[r]]
        \/ marker' = [marker EXCEPT ![Key(r)] = marker[Key(r)]]
    BY <1>4, <1>8 DEF Park
  <2>4. thr[r] \in Requests /\ Owns(thr[r], req[r].who.tenant, sid[r])
    BY <1>1, <1>3, <2>1 DEF DoorInv, StageOK, Owns
  <2> QED BY <1>1, <1>2, <1>3, <1>4, <2>1, <2>2, <2>3, <2>4, ThreadStepKeeps DEF PCs, Early
<1> QED BY <1>5, <1>6, <1>7, <1>8

(* The ways a turn ends. *)
LEMMA TurnKeeps ==
  ASSUME DoorInv, NEW r \in Requests,
         TurnEnds(r) \/ TurnPauses(r) \/ TurnDegraded(r) \/ TurnRaises(r)
  PROVE  DoorInv'
<1>1. pc[r] = "graph" /\ UNCHANGED <<req, sid, thr, resuming, exact, sem, marker>>
  BY DEF TurnEnds, TurnPauses, TurnDegraded, TurnRaises, redis
<1>2. AfterRun(r) \in {"done", "store", "touch"}
  BY DEF AfterRun
<1>3. thread \in [Requests -> {"none", "paused", "ended"}]
  BY DEF DoorInv, DoorTypeOK
<1>4. resuming[r] \/ thr[r] = r
  BY <1>1 DEF DoorInv, StageOK
<1>5. CASE TurnEnds(r)
  <2>1. PICK o \in Outcomes :
          Answer(r, Payload(r, o.status, o.agents, o.text,
                            IF ChatResume(r) \/ Mode = "nats" THEN "none" ELSE Offer(o)), "run")
    BY <1>5 DEF TurnEnds
  <2> DEFINE it == IF ChatResume(r) \/ Mode = "nats" THEN "none" ELSE Offer(o)
             p == Payload(r, o.status, o.agents, o.text, it)
  <2>2. it \in {"none", "offer", "pause"}
    BY DEF Offer
  <2> HIDE DEF it
  <2>3. p \in Payloads /\ p.by = r
    BY <2>2, PayloadType
  <2>4. Answer(r, p, "run")
    BY <2>1 DEF it
  <2>5. Goto(r, AfterRun(r)) /\ thread' = [thread EXCEPT ![thr[r]] = "ended"]
    BY <1>5 DEF TurnEnds
  <2>6. /\ thread' \in [Requests -> {"none", "paused", "ended"}]
        /\ \A q \in Requests : thread[q] # "none" => thread'[q] # "none"
    BY <1>3, <2>5
  <2> HIDE DEF p
  <2> QED BY <1>1, <1>2, <2>3, <2>4, <2>5, <2>6, OwnAnswerKeeps DEF PCs, Early
<1>6. CASE TurnPauses(r)
  <2>1. thr[r] \in Requests
    BY <1>4, <1>6 DEF TurnPauses, Graph
  <2>2. thread' = [thread EXCEPT ![thr[r]] = "paused"]
    BY <1>6 DEF TurnPauses
  <2>3. /\ thread' \in [Requests -> {"none", "paused", "ended"}] /\ thread'[thr[r]] # "none"
        /\ \A q \in Requests : thread[q] # "none" => thread'[q] # "none"
    BY <1>3, <2>1, <2>2
  <2> DEFINE p1 == Payload(r, "", {}, "short", "none")
             p2 == Payload(r, "interrupted", {}, "useful", "pause")
  <2>4. \/ Answer(r, p1, "run") /\ Goto(r, AfterRun(r))
        \/ Answer(r, p2, "run") /\ Goto(r, "park")
    BY <1>6 DEF TurnPauses
  <2>5. p1 \in Payloads /\ p1.by = r /\ p2 \in Payloads /\ p2.by = r
    BY PayloadType
  <2> HIDE DEF p1, p2
  <2> QED BY <1>1, <1>2, <2>1, <2>3, <2>4, <2>5, OwnAnswerKeeps DEF PCs, Early
<1>7. CASE TurnDegraded(r)
  <2> DEFINE p1 == Payload(r, "executed", {}, "short", "none")
             p2 == Payload(r, "service_degraded", {}, "useful", "none")
  <2>1. (Answer(r, p1, "run") \/ Answer(r, p2, "run")) /\ Goto(r, AfterRun(r)) /\ UNCHANGED thread
    BY <1>7 DEF TurnDegraded
  <2>2. p1 \in Payloads /\ p1.by = r /\ p2 \in Payloads /\ p2.by = r
    BY PayloadType
  <2> HIDE DEF p1, p2
  <2> QED BY <1>1, <1>2, <1>3, <2>1, <2>2, OwnAnswerKeeps DEF PCs, Early
<1>8. CASE TurnRaises(r)
  <2> DEFINE st == CASE req[r].door \in Streaming -> "failed"
                     [] req[r].door = "ws" -> "service_degraded"
                     [] OTHER -> "error"
             p == Payload(r, st, {}, "useful", "none")
             l == IF req[r].door \in Streaming THEN "touch" ELSE "done"
  <2>1. Answer(r, p, "run") /\ Goto(r, l) /\ UNCHANGED thread
    BY <1>8 DEF TurnRaises
  <2>2. st \in {"failed", "service_degraded", "error"} /\ l \in {"touch", "done"}
    OBVIOUS
  <2> HIDE DEF st, l
  <2>3. p \in Payloads /\ p.by = r
    <3>1. /\ st \in {"", "invalid_request", "clarification", "interrupted", "executed",
                     "service_degraded", "failed", "error"} \cup {o.status : o \in Outcomes}
          /\ {} \in {o.agents : o \in Outcomes} \cup {{}}
          /\ "useful" \in {o.text : o \in Outcomes} \cup {"useful", "short"}
      BY <2>2
    <3> QED BY <3>1, PayloadType
  <2> HIDE DEF p
  <2> QED BY <1>1, <1>3, <2>1, <2>2, <2>3, OwnAnswerKeeps DEF PCs, Early
<1> QED BY <1>5, <1>6, <1>7, <1>8

(* A bucket after a push holds the new entry and entries that were there.  *)
LEMMA PushFacts ==
  ASSUME NEW S, NEW entries \in Seq(S), NEW msg, NEW payload,
         NEW e \in S, e = [msg |-> msg, payload |-> payload],
         NEW new, new = Push(entries, msg, payload)
  PROVE  /\ new \in Seq(S)
         /\ \A i \in DOMAIN new : new[i] = e \/ \E j \in DOMAIN entries : new[i] = entries[j]
<1> DEFINE all == <<e>> \o entries
           n == IF Len(all) > BucketMax THEN BucketMax ELSE Len(all)
<1>2. /\ all \in Seq(S) /\ Len(all) = 1 + Len(entries)
      /\ \A i \in 1 .. Len(all) : all[i] = IF i = 1 THEN e ELSE entries[i - 1]
  OBVIOUS
<1> HIDE DEF all
<1>3. n \in Nat /\ n <= Len(all)
  BY <1>2, BucketAssumption
<1> HIDE DEF n
<1>1. new = SubSeq(all, 1, n)
  BY DEF Push, all, n
<1>4. /\ new \in Seq(S) /\ DOMAIN new = 1 .. n
      /\ \A i \in 1 .. n : new[i] = all[i]
  BY <1>1, <1>2, <1>3
<1>5. \A i \in 1 .. n : i # 1 => i - 1 \in DOMAIN entries
  BY <1>2, <1>3
<1>6. \A i \in DOMAIN new : new[i] = e \/ \E j \in DOMAIN entries : new[i] = entries[j]
  BY <1>2, <1>3, <1>4, <1>5
<1> QED BY <1>4, <1>6

(* What the caches hold after a step was there before it, or is a reply    *)
(* that the request r has made itself and stores under its own key.        *)
Kept(k) == k \in DOMAIN exact /\ exact'[k] = exact[k]
Fresh(r) == pc'[r] = "done" /\ out[r].by = r /\ ShouldCache(out[r])
OwnKey(r, k) ==
  /\ k.door = "chat" => k = CacheKey(req[r].who, sid[r], req[r].msg)
  /\ k.door = "fast_path" => k = EdgeKey(req[r].who, NoSid, req[r].msg)
Own(r, b, e) ==
  /\ e = [msg |-> req[r].msg, payload |-> out[r]] /\ req[r].msg \in Standalone
  /\ b = Bucket(req[r].who)

LEMMA CachesGrow ==
  ASSUME DoorInv, NEW r \in Requests, Monotone, pc[r] \notin Early,
         \A k \in DOMAIN exact' : Kept(k) \/ (Fresh(r) /\ exact'[k] = out[r] /\ OwnKey(r, k)),
         \A b \in Buckets : \A i \in DOMAIN sem'[b] :
            \/ \E j \in DOMAIN sem[b] : sem'[b][i] = sem[b][j]
            \/ Fresh(r) /\ Own(r, b, sem'[b][i])
  PROVE  CachesOK'
<1>1. \A k \in DOMAIN exact : exact[k].by \in Requests
  BY DEF DoorInv, DoorTypeOK, Payloads
<1>2. \A b \in Buckets : \A i \in DOMAIN sem[b] : sem[b][i].payload.by \in Requests
  <2> SUFFICES ASSUME NEW b \in Buckets, NEW i \in DOMAIN sem[b]
               PROVE  sem[b][i].payload.by \in Requests
    OBVIOUS
  <2>1. sem[b] \in Seq(Entries)
    BY DEF DoorInv, DoorTypeOK
  <2>2. sem[b][i] \in Entries
    BY <2>1
  <2> QED BY <2>2 DEF Payloads, Entries
<1>3. \A q \in Requests : pc[q] = "done" => pc'[q] = "done" /\ req'[q] = req[q] /\ sid'[q] = sid[q]
  BY DEF Monotone, Early
<1>4. req'[r] = req[r] /\ sid'[r] = sid[r]
  BY DEF Monotone
<1>5. ASSUME NEW k \in DOMAIN exact', NEW p, p = exact'[k]
      PROVE  /\ pc'[p.by] = "done" /\ ShouldCache(p)
             /\ k.door = "chat" => k = CacheKey(req'[p.by].who, sid'[p.by], req'[p.by].msg)
             /\ k.door = "fast_path" => k = EdgeKey(req'[p.by].who, NoSid, req'[p.by].msg)
  <2>1. CASE Kept(k)
    BY <1>1, <1>3, <1>5, <2>1 DEF DoorInv, CachesOK, Kept
  <2>2. CASE Fresh(r) /\ exact'[k] = out[r] /\ OwnKey(r, k)
    BY <1>4, <1>5, <2>2 DEF Fresh, OwnKey
  <2> QED BY <2>1, <2>2
<1>6. ASSUME NEW b \in Buckets, NEW i \in DOMAIN sem'[b], NEW e, e = sem'[b][i]
      PROVE  /\ pc'[e.payload.by] = "done" /\ ShouldCache(e.payload)
             /\ e.msg = req'[e.payload.by].msg /\ e.msg \in Standalone
             /\ b = Bucket(req'[e.payload.by].who)
  <2>1. CASE \E j \in DOMAIN sem[b] : sem'[b][i] = sem[b][j]
    <3>1. PICK j \in DOMAIN sem[b] : e = sem[b][j]
      BY <1>6, <2>1
    <3> QED BY <1>2, <1>3, <3>1 DEF DoorInv, CachesOK
  <2>2. CASE Fresh(r) /\ Own(r, b, sem'[b][i])
    <3>1. e.msg = req[r].msg /\ e.payload = out[r]
      BY <1>6, <2>2 DEF Own
    <3> QED BY <1>4, <2>2, <3>1 DEF Fresh, Own
  <2> QED BY <2>1, <2>2
<1> QED BY <1>5, <1>6 DEF CachesOK

(* The write-back stores a request's own reply, under its own key or in    *)
(* its own bucket.                                                         *)
LEMMA StoreKeeps ==
  ASSUME DoorInv, NEW r \in Requests, Store(r)
  PROVE  DoorInv'
<1> DEFINE p == out[r]
           b0 == Bucket(req[r].who)
<1>1. /\ pc[r] = "store" /\ Goto(r, "done")
      /\ UNCHANGED <<req, sid, out, via, thr, resuming, marker, thread>>
  BY DEF Store, local
<1>2. /\ pc' \in [Requests -> PCs] /\ pc'[r] = "done" /\ pc[r] \notin Early /\ p \in Payloads
      /\ \A q \in Requests \ {r} : SameFor(q)
  BY <1>1 DEF DoorInv, DoorTypeOK, Goto, SameFor, PCs, Early
<1>3. Monotone
  BY <1>1, <1>2 DEF Monotone, SameFor, Early
<1>4. req[r] \in Inputs /\ b0 \in Buckets
  <2>1. req[r] \in Inputs
    BY <1>1 DEF DoorInv, StageOK
  <2> QED BY <2>1, DoorAssumption DEF Buckets
<1>5. PICK stores \in BOOLEAN :
        /\ stores => via[r] = "run" /\ ShouldCache(p)
        /\ \/ exact' = exact
           \/ stores /\ exact' = Put(exact, CacheKey(req[r].who, sid[r], req[r].msg), p)
           \/ stores /\ exact' = Put(exact, EdgeKey(req[r].who, NoSid, req[r].msg), p)
        /\ \/ sem' = sem
           \/ /\ stores /\ Eligible(r)
              /\ sem' = [sem EXCEPT ![b0] = Push(sem[b0], req[r].msg, p)]
  <2>1. PICK up \in BOOLEAN :
          LET stores == up /\ via[r] = "run" /\ ~ChatResume(r) /\ ShouldCache(p) IN
          /\ exact' = CASE stores /\ req[r].door = "chat" ->
                             Put(exact, CacheKey(req[r].who, sid[r], req[r].msg), p)
                        [] stores /\ req[r].door = "fast" ->
                             Put(exact, EdgeKey(req[r].who, NoSid, req[r].msg), p)
                        [] OTHER -> exact
          /\ sem' = IF stores /\ Eligible(r)
                    THEN [sem EXCEPT ![b0] = Push(sem[b0], req[r].msg, p)] ELSE sem
    BY DEF Store
  <2> DEFINE st == up /\ via[r] = "run" /\ ~ChatResume(r) /\ ShouldCache(p)
  <2>2. st \in BOOLEAN /\ (st => via[r] = "run" /\ ShouldCache(p))
    OBVIOUS
  <2>3. \/ exact' = exact
        \/ st /\ exact' = Put(exact, CacheKey(req[r].who, sid[r], req[r].msg), p)
        \/ st /\ exact' = Put(exact, EdgeKey(req[r].who, NoSid, req[r].msg), p)
    BY <2>1
  <2>4. sem' = sem \/ (st /\ Eligible(r) /\ sem' = [sem EXCEPT ![b0] = Push(sem[b0], req[r].msg, p)])
    BY <2>1
  <2> HIDE DEF st, p, b0
  <2> QED BY <2>2, <2>3, <2>4
<1>6. stores => Fresh(r)
  BY <1>2, <1>5 DEF Fresh, DoorInv, StageOK
<1>7. ASSUME NEW k \in DOMAIN exact'
      PROVE  Kept(k) \/ (Fresh(r) /\ exact'[k] = p /\ OwnKey(r, k))
  <2>1. CASE exact' = exact
    BY <1>7, <2>1 DEF Kept
  <2>2. ASSUME NEW key, stores, exact' = Put(exact, key, p), OwnKey(r, key)
        PROVE  Kept(k) \/ (Fresh(r) /\ exact'[k] = p /\ OwnKey(r, k))
    <3> HIDE DEF p
    <3>1. /\ DOMAIN exact' = DOMAIN exact \cup {key} /\ exact'[key] = p
          /\ \A j \in DOMAIN exact \ {key} : exact'[j] = exact[j]
      BY <2>2 DEF Put
    <3> QED BY <1>6, <1>7, <2>2, <3>1 DEF Kept
  <2>3. /\ OwnKey(r, CacheKey(req[r].who, sid[r], req[r].msg))
        /\ OwnKey(r, EdgeKey(req[r].who, NoSid, req[r].msg))
    BY DEF OwnKey, CacheKey, EdgeKey
  <2> QED BY <1>5, <2>1, <2>2, <2>3
<1>8. /\ sem' \in [Buckets -> Seq(Entries)]
      /\ \A b \in Buckets : \A i \in DOMAIN sem'[b] :
            \/ \E j \in DOMAIN sem[b] : sem'[b][i] = sem[b][j]
            \/ Fresh(r) /\ Own(r, b, sem'[b][i])
  <2>1. sem \in [Buckets -> Seq(Entries)]
    BY DEF DoorInv, DoorTypeOK
  <2>2. CASE sem' = sem
    BY <2>1, <2>2
  <2>3. CASE stores /\ Eligible(r) /\ sem' = [sem EXCEPT ![b0] = Push(sem[b0], req[r].msg, p)]
    <3> DEFINE e == [msg |-> req[r].msg, payload |-> p]
               new == Push(sem[b0], req[r].msg, p)
    <3>1. e \in Entries
      BY <1>2, <1>4 DEF Entries
    <3>2. /\ new \in Seq(Entries)
          /\ \A i \in DOMAIN new : new[i] = e \/ \E j \in DOMAIN sem[b0] : new[i] = sem[b0][j]
      <4>1. sem[b0] \in Seq(Entries)
        BY <1>4, <2>1
      <4>2. e = [msg |-> req[r].msg, payload |-> p] /\ new = Push(sem[b0], req[r].msg, p)
        OBVIOUS
      <4> HIDE DEF b0, p, e, new
      <4> QED BY <3>1, <4>1, <4>2, PushFacts
    <3>3. Own(r, b0, e)
      BY <2>3 DEF Own, Eligible, IsStandalone
    <3> HIDE DEF new, e, b0, p
    <3>4. sem' \in [Buckets -> Seq(Entries)] /\ sem'[b0] = new
      BY <1>4, <2>1, <2>3, <3>2 DEF new
    <3>5. \A b \in Buckets \ {b0} : sem'[b] = sem[b]
      BY <2>1, <2>3
    <3> QED BY <1>6, <2>3, <3>2, <3>3, <3>4, <3>5
  <2> QED BY <1>5, <2>2, <2>3
<1>9. CachesOK'
  BY <1>2, <1>3, <1>7, <1>8, CachesGrow
<1>10. DoorTypeOK'
  <2>1. \A k \in DOMAIN exact' : exact'[k] \in Payloads
    BY <1>2, <1>7 DEF Kept, DoorInv, DoorTypeOK
  <2> QED BY <1>1, <1>2, <1>8, <2>1 DEF DoorInv, DoorTypeOK
<1>11. Mine(r) /\ out[r].by \in Requests
  BY ByRequest DEF DoorInv, DoorTypeOK, Payloads
<1>12. Stage(r)' /\ Resumed(r)' /\ InScope(r)'
  <2>1. Stage(r)'
    BY <1>1, <1>2, <1>3, <1>11 DEF Mine, Stage, Monotone, Early
  <2>2. Resumed(r)'
    BY <1>1, <1>2, <1>3, <1>11 DEF Mine, Resumed, Owns, Monotone
  <2>3. InScope(r)'
    BY <1>1, <1>11 DEF Mine, InScope
  <2> QED BY <2>1, <2>2, <2>3
<1>13. Mine(r)'
  BY <1>12 DEF Mine
<1>14. Markers'
  BY <1>1, <1>3, MarkersStay
<1> QED BY <1>2, <1>3, <1>9, <1>10, <1>13, <1>14, Assemble

(* Steps outside the requests: sessions come and go, cached entries and    *)
(* markers expire.                                                         *)
LEMMA QuietKeeps ==
  ASSUME DoorInv, UNCHANGED <<pc, req, sid, out, via, thr, resuming, exact, sem, marker, thread>>
  PROVE  DoorInv'
BY DEF DoorInv, DoorTypeOK, StageOK, CachesOK, ThreadsOK, CachedReplyInScope, Owns

LEMMA ExpiryKeeps ==
  ASSUME DoorInv, CacheExpires
  PROVE  DoorInv'
<1>1. UNCHANGED <<pc, req, sid, out, via, thr, resuming, thread>>
  BY DEF CacheExpires, local
<1>2. StageOK' /\ CachedReplyInScope'
  BY <1>1 DEF DoorInv, StageOK, CachedReplyInScope
<1>3. /\ marker \in [Tenants \X Sessions -> Requests \cup {NoMarker, Cleared}]
      /\ sem \in [Buckets -> Seq(Entries)] /\ \A k \in DOMAIN exact : exact[k] \in Payloads
  BY DEF DoorInv, DoorTypeOK
<1>4. CASE \E k \in DOMAIN exact :
             exact' = [j \in DOMAIN exact \ {k} |-> exact[j]] /\ UNCHANGED <<sem, marker>>
  <2>1. DOMAIN exact' \subseteq DOMAIN exact /\ \A j \in DOMAIN exact' : exact'[j] = exact[j]
    BY <1>4
  <2>2. DoorTypeOK'
    BY <1>1, <1>3, <1>4, <2>1 DEF DoorInv, DoorTypeOK
  <2>3. CachesOK'
    BY <1>1, <1>4, <2>1 DEF DoorInv, CachesOK
  <2>4. ThreadsOK'
    BY <1>1, <1>4 DEF DoorInv, ThreadsOK, Owns
  <2> QED BY <1>2, <2>2, <2>3, <2>4 DEF DoorInv
<1>5. CASE \E b \in DOMAIN sem : sem' = [sem EXCEPT ![b] = <<>>] /\ UNCHANGED <<exact, marker>>
  <2>1. /\ sem' \in [Buckets -> Seq(Entries)]
        /\ \A b \in Buckets : sem'[b] = sem[b] \/ DOMAIN sem'[b] = {}
    BY <1>3, <1>5
  <2>2. DoorTypeOK'
    BY <1>1, <1>5, <2>1 DEF DoorInv, DoorTypeOK
  <2>3. CachesOK'
    BY <1>1, <1>5, <2>1 DEF DoorInv, CachesOK
  <2>4. ThreadsOK'
    BY <1>1, <1>5 DEF DoorInv, ThreadsOK, Owns
  <2> QED BY <1>2, <2>2, <2>3, <2>4 DEF DoorInv
<1>6. CASE \E k \in DOMAIN marker : marker' = [marker EXCEPT ![k] = NoMarker] /\ UNCHANGED <<exact, sem>>
  <2>1. /\ marker' \in [Tenants \X Sessions -> Requests \cup {NoMarker, Cleared}]
        /\ \A k \in Tenants \X Sessions : marker'[k] \in Requests => marker'[k] = marker[k]
    BY <1>3, <1>6, ThreadAssumption
  <2>2. DoorTypeOK'
    BY <1>1, <1>6, <2>1 DEF DoorInv, DoorTypeOK
  <2>3. CachesOK'
    BY <1>1, <1>6 DEF DoorInv, CachesOK
  <2>4. ThreadsOK'
    BY <1>1, <2>1 DEF DoorInv, ThreadsOK, Owns
  <2> QED BY <1>2, <2>2, <2>3, <2>4 DEF DoorInv
<1> QED BY <1>4, <1>5, <1>6 DEF CacheExpires

-----------------------------------------------------------------------------
(* The first state: nobody has asked, and nothing is cached or paused.     *)
LEMMA DoorInit == ASSUME Init PROVE DoorInv
<1>0. DOMAIN exact = {} /\ \A b \in Buckets : DOMAIN sem[b] = {}
  <2>1. exact = << >> /\ \A b \in Buckets : sem[b] = << >>
    BY DEF Init, Buckets
  <2> QED BY <2>1
<1>1. DoorTypeOK
  <2>1. pc \in [Requests -> PCs] /\ req \in [Requests -> Inputs \cup {NoInput}]
    BY DEF Init, PCs, Early
  <2>2. out \in [Requests -> Payloads]
    BY DEF Init, Payloads
  <2>3. \A k \in DOMAIN exact : exact[k] \in Payloads
    BY <1>0
  <2>4. sem \in [Buckets -> Seq(Entries)]
    <3>1. sem = [b \in Buckets |-> << >>]
      BY DEF Init, Buckets
    <3>2. << >> \in Seq(Entries)
      OBVIOUS
    <3> QED BY <3>1, <3>2
  <2> QED BY <2>1, <2>2, <2>3, <2>4 DEF Init, DoorTypeOK
<1>2. StageOK
  BY DEF Init, StageOK, Early, Replayed
<1>3. CachesOK
  BY <1>0 DEF CachesOK
<1>4. ThreadsOK
  BY ThreadAssumption DEF Init, ThreadsOK
<1>5. CachedReplyInScope
  BY DEF Init, CachedReplyInScope
<1> QED BY <1>1, <1>2, <1>3, <1>4, <1>5 DEF DoorInv

(* Every step of the doors keeps the invariant. *)
LEMMA DoorStep == ASSUME DoorInv, [Next]_vars PROVE DoorInv'
<1>1. ASSUME NEW r \in Requests,
             \/ Arrive(r) \/ Handler(r) \/ TurnEnds(r) \/ TurnPauses(r) \/ TurnRaises(r)
             \/ Disconnect(r)
      PROVE  DoorInv'
  BY <1>1, SessionStepKeeps, TouchKeeps, LookupKeeps, EdgeLookupKeeps, SemLookupKeeps,
     DispatchKeeps, ThreadKeeps, TurnKeeps, StoreKeeps DEF Handler
<1>2. ASSUME NEW p \in Principals, SessionCreate(p)
      PROVE  DoorInv'
  BY <1>2, QuietKeeps DEF SessionCreate, local
<1>3. ASSUME NEW t \in Tenants, NEW s \in Sessions, SessionDelete(t, s) \/ SessionExpires(t, s)
      PROVE  DoorInv'
  BY <1>3, QuietKeeps DEF SessionDelete, SessionExpires, local
<1>4. ASSUME NEW u \in Users, NEW s \in Sessions, ListFinds(u, s)
      PROVE  DoorInv'
  BY <1>4, QuietKeeps DEF ListFinds, local, redis
<1>5. CASE ListPrunes
  BY <1>5, QuietKeeps DEF ListPrunes, local
<1>6. CASE CacheExpires
  BY <1>6, ExpiryKeeps
<1>7. CASE UNCHANGED vars
  BY <1>7, QuietKeeps DEF vars, local, redis
<1> QED BY <1>1, <1>2, <1>3, <1>4, <1>5, <1>6, <1>7 DEF Next

(* The doors' invariant: types, where each request stands, what the caches *)
(* and the markers may hold, and the scope of every replayed answer.       *)
THEOREM DoorInvariant == Spec => []DoorInv
<1>1. Init => DoorInv
  BY DoorInit
<1>2. DoorInv /\ [Next]_vars => DoorInv'
  BY DoorStep
<1> QED BY <1>1, <1>2, PTL DEF Spec

(* A reply from a cache answers the question that was asked, for the       *)
(* principals and sessions its key promises (cache_key, _bucket).          *)
THEOREM CachedInScope == Spec => []CachedReplyInScope
<1>1. DoorInv => CachedReplyInScope
  BY DEF DoorInv
<1> QED BY <1>1, DoorInvariant, PTL

(* A pause, an offer or a fulfilment reply is never replayed to another    *)
(* request (should_cache).                                                 *)
THEOREM StatefulStays == Spec => []StatefulReplyNeverReplayed
<1>1. DoorInv => StatefulReplyNeverReplayed
  <2> SUFFICES ASSUME DoorInv, NEW r \in Requests, out[r].by # r
               PROVE  /\ out[r].interrupt \notin {"pause", "offer"}
                      /\ out[r].status # "interrupted"
                      /\ "uc08_fulfillment" \notin out[r].agents
    BY DEF StatefulReplyNeverReplayed
  <2>1. via[r] \in Replayed
    BY DEF DoorInv, DoorTypeOK, StageOK
  <2>2. ShouldCache(out[r])
    BY <2>1 DEF DoorInv, StageOK
  <2> QED BY <2>2 DEF ShouldCache
<1> QED BY <1>1, DoorInvariant, PTL

(* A resume continues a started thread of its own tenant and session (the  *)
(* key of the interrupt marker).                                           *)
THEOREM ResumeInSession == Spec => []ResumeStaysInSession
<1>1. DoorInv => ResumeStaysInSession
  BY DEF DoorInv, ThreadsOK, Owns, ResumeStaysInSession
<1> QED BY <1>1, DoorInvariant, PTL
=============================================================================
