---------------------------- MODULE RouterProofs ----------------------------
(***************************************************************************)
(* Theorems about Router, and about the Registry it reads, for every       *)
(* number of turns, agents, operators and edits, and for every reply of    *)
(* the splitter, the rewriter, the disambiguator and the vector index.     *)
(*                                                                         *)
(* KnownRecords speaks of the routes of a turn.  What they are bound to is *)
(* decided three steps earlier, when the rewriter's reply passes the       *)
(* guards, or in another turn altogether, when the route comes from the    *)
(* cache.  RecordsInv therefore follows the records along: the ids of the  *)
(* rewritten text have a source (SubOK), so have the routes found so far   *)
(* (FunnelOK), the key under which they will be stored holds all the       *)
(* sources (FunnelOK), and every cached route has the sources its key      *)
(* names (RouteCacheOK).                                                   *)
(*                                                                         *)
(* SurvivorsAllowed needs the same of the decision cache: a cached "allow" *)
(* is the policy's own answer for the attributes the key holds, so that it *)
(* holds for any version of a card with these attributes (DecisionsOK).    *)
(*                                                                         *)
(* OneLiveVersion: an operation applied to a coherent envelope gives a     *)
(* coherent one, whatever became of the stored copy meanwhile, so it is    *)
(* enough that every copy an operator holds is coherent too (RegInv).      *)
(***************************************************************************)
EXTENDS Router, FiniteSetTheorems, FunctionTheorems, TLAPS

(* Where the records of a sub-query come from: the message, the words of   *)
(* the sub-query, the conversation, the focus, or a message of bare digits *)
(* that was completed.                                                     *)
Sourced(text, focus, history, said, id) ==
  \/ id \in Ids(text) \cup Ids(said) \cup AllHistoryIds(history)
  \/ focus # NoId /\ id = focus
  \/ BareDigitMessage(said) /\ id[2] = said.toks[1].n

RouteSourced(text, focus, history, route) ==
  \A a \in DOMAIN route.params : \A f \in EntityFields \cap DOMAIN route.params[a] :
    Sourced(text, focus, history, route.said, route.params[a][f])

(* The stages of a turn: before the cache is asked, inside the funnel, and *)
(* while there is a sub-query at hand.                                     *)
Entry == {"idle", "focus", "control", "enter", "fast"}
InFunnel == {"split", "rewrite", "funnel", "filter", "pick", "store"}
AtSub == {"rewrite", "funnel", "filter", "pick"}

(* A turn: its shape, and what it is about. *)
Fields == {"pc", "ask", "focus", "key", "subs", "text", "cands", "surv", "refused", "denied", "routes", "unrouted", "out", "plan", "window"}
TurnOK(t, r) ==
  /\ DOMAIN r = Fields
  /\ r.pc \in Entry => r.routes = <<>>
  /\ r.pc # "idle" =>
       /\ r.ask \in Asks(t)
       /\ r.focus \in {NoId, r.ask.focus} \cup Ids(r.ask.text) \cup AllHistoryIds(r.ask.history)

(* Inside the funnel: the key the decision will be stored under, and the   *)
(* routes found so far.                                                    *)
FunnelOK(r) ==
  r.pc \in InFunnel =>
    /\ r.key[1] = r.ask.text /\ r.key[3] = r.focus /\ r.key[5] = r.ask.history
    /\ r.routes \in Seq(Sets(r.routes))
    /\ \A i \in DOMAIN r.routes : RouteSourced(r.ask.text, r.focus, r.ask.history, r.routes[i])

(* The sub-queries left, and the words the funnel reads. *)
SubOK(r) ==
  r.pc \in AtSub =>
    /\ r.subs \in Seq(Sets(r.subs)) /\ r.subs # <<>>
    /\ \A i \in DOMAIN r.subs : r.subs[i].text \in SubTexts
    /\ r.pc # "rewrite" =>
         /\ r.text \in Texts
         /\ \A id \in Ids(r.text) : Sourced(r.ask.text, r.focus, r.ask.history, r.subs[1].text, id)

(* The records its routes are bound to. *)
RoutesKnown(r) ==
  \A i \in DOMAIN r.routes : RouteSourced(r.ask.text, r.ask.focus, r.ask.history, r.routes[i])

RecordsOK(t, r) == TurnOK(t, r) /\ FunnelOK(r) /\ SubOK(r) /\ RoutesKnown(r)

(* A cached route is about the records its key accounts for. *)
RouteCacheOK ==
  \A k \in DOMAIN routeCache : \A i \in DOMAIN routeCache[k].routes :
    RouteSourced(k[1], k[3], k[5], routeCache[k].routes[i])

(* The inductive invariant behind KnownRecords. *)
RecordsInv ==
  /\ DOMAIN turn = Turns
  /\ \A t \in Turns : RecordsOK(t, turn[t])
  /\ RouteCacheOK

(* A cached "allow" is what the policy says of the attributes its key      *)
(* holds.                                                                  *)
DecisionsOK ==
  \A k \in DOMAIN decisions : decisions[k] = "allow" =>
    Reasons([tenant |-> k[1], role |-> k[2]],
            [id |-> k[3], tenant |-> k[1], tier |-> k[4], cls |-> k[5], audience |-> k[6]]) = {}

(* What was read for a survivor is allowed to the caller. *)
SurvivorsOK(r) ==
  /\ r.surv \in Seq(Sets(r.surv))
  /\ \A i \in DOMAIN r.surv :
       LET c == r.surv[i]
       IN Reasons([tenant |-> r.ask.tenant, role |-> r.ask.role],
                  Descriptor(c.agent, Card[c.agent][c.version], r.ask.tenant)) = {}

(* The inductive invariant behind SurvivorsAllowed. *)
AccessInv ==
  /\ DOMAIN turn = Turns
  /\ \A t \in Turns : DOMAIN turn[t] = Fields /\ SurvivorsOK(turn[t])
  /\ DecisionsOK

(* The rewriter's replies say that they changed the words: the guards look *)
(* at no other reply.                                                      *)
RepliesOwnUp == \A x \in SubTexts : \A r \in RewriteReplies(x) : r.changed

-----------------------------------------------------------------------------
(* The registry. *)

(* A copy under edit. *)
Held == [agent : Agents \cup {"none"}, e : Envelopes]

(* The shapes the induction needs. *)
RegTypeOK ==
  /\ env \in [Agents -> Envelopes]
  /\ loaded \in [Operators -> Held]

(* The inductive invariant: the shapes, and coherence of the stored        *)
(* envelopes and of the copies under edit.                                 *)
RegInv == RegTypeOK /\ OneLiveVersion

-----------------------------------------------------------------------------
(* An envelope that does not exist is coherent. *)
LEMMA AbsentCoherent == Absent \in Envelopes /\ Coherent(Absent)
BY DEF Absent, Envelopes, Coherent, Statuses

(* create writes one version, whatever status it has, and no pointer. *)
LEMMA CreateCoherent ==
  ASSUME NEW status \in Statuses
  PROVE  LET e == [st |-> <<status>>, active |-> 0, given |-> {1}] IN e \in Envelopes /\ Coherent(e)
BY DEF Envelopes, Coherent

(* update appends a version and leaves the pointer. *)
LEMMA UpdateCoherent ==
  ASSUME NEW e \in Envelopes, Coherent(e), NEW status \in Statuses
  PROVE  LET f == [e EXCEPT !.st = Append(@, status), !.given = @ \cup {Len(e.st) + 1}] IN f \in Envelopes /\ Coherent(f)
<1> DEFINE f == [e EXCEPT !.st = Append(@, status), !.given = @ \cup {Len(e.st) + 1}]
<1>1. e.st \in Seq(Statuses) /\ e.active \in Nat /\ e.given \in SUBSET Nat
  BY DEF Envelopes
<1>2. f.st = Append(e.st, status) /\ f.active = e.active /\ f.given = e.given \cup {Len(e.st) + 1}
  BY DEF Envelopes
<1>3. f \in Envelopes
  <2>1. Append(e.st, status) \in Seq(Statuses) /\ e.given \cup {Len(e.st) + 1} \in SUBSET Nat
    BY <1>1
  <2> QED BY <1>1, <2>1 DEF Envelopes
<1>4. \A v \in DOMAIN f.st \ f.given : v \in DOMAIN e.st \ e.given /\ f.st[v] = e.st[v]
  BY <1>1, <1>2
<1>5. \A v \in DOMAIN e.st : v \in DOMAIN f.st /\ f.st[v] = e.st[v] /\ (v \notin e.given => v \notin f.given)
  BY <1>1, <1>2
<1>6. Coherent(f)
  BY <1>1, <1>2, <1>4, <1>5 DEF Coherent
<1> QED BY <1>3, <1>6

(* activate retires the version that was active and points to the new one. *)
LEMMA ActivateCoherent ==
  ASSUME NEW e \in Envelopes, Coherent(e), NEW v \in DOMAIN e.st
  PROVE  LET prior == IF e.active \in DOMAIN e.st /\ e.active # v
                      THEN [e.st EXCEPT ![e.active] = "retired"] ELSE e.st
             f == [st |-> [prior EXCEPT ![v] = "active"], active |-> v, given |-> e.given \ {v}]
         IN f \in Envelopes /\ Coherent(f)
<1> DEFINE prior == IF e.active \in DOMAIN e.st /\ e.active # v
                    THEN [e.st EXCEPT ![e.active] = "retired"] ELSE e.st
           st == [prior EXCEPT ![v] = "active"]
<1>1. e.st \in Seq(Statuses) /\ e.active \in Nat /\ v \in Nat /\ e.given \in SUBSET Nat
  BY DEF Envelopes
<1>2. prior \in Seq(Statuses) /\ DOMAIN prior = DOMAIN e.st
  BY <1>1 DEF Statuses
<1>3. st \in Seq(Statuses) /\ DOMAIN st = DOMAIN e.st
  BY <1>2 DEF Statuses
<1>4. st[v] = "active"
  BY <1>2
<1>5. ASSUME NEW w \in DOMAIN st \ (e.given \ {v}), w # v PROVE st[w] # "active"
  BY <1>1, <1>2, <1>3, <1>5 DEF Coherent
<1> QED BY <1>1, <1>3, <1>4, <1>5 DEF Envelopes, Coherent

(* deprecate and retire take a version out of service; retire clears the   *)
(* pointer when it named that version.                                     *)
LEMMA DemoteCoherent ==
  ASSUME NEW e \in Envelopes, Coherent(e), NEW v \in DOMAIN e.st
  PROVE  LET f == [st |-> [e.st EXCEPT ![v] = "deprecated"], active |-> e.active, given |-> e.given \ {v}]
             g == [st |-> [e.st EXCEPT ![v] = "retired"], active |-> IF e.active = v THEN 0 ELSE e.active,
                   given |-> e.given \ {v}]
         IN /\ f \in Envelopes /\ Coherent(f)
            /\ g \in Envelopes /\ Coherent(g)
<1> DEFINE f == [st |-> [e.st EXCEPT ![v] = "deprecated"], active |-> e.active, given |-> e.given \ {v}]
           g == [st |-> [e.st EXCEPT ![v] = "retired"], active |-> IF e.active = v THEN 0 ELSE e.active,
                 given |-> e.given \ {v}]
<1>1. e.st \in Seq(Statuses) /\ e.active \in Nat /\ v \in Nat /\ e.given \in SUBSET Nat
  BY DEF Envelopes
<1>2. f.st \in Seq(Statuses) /\ DOMAIN f.st = DOMAIN e.st
  BY <1>1 DEF Statuses
<1>3. g.st \in Seq(Statuses) /\ DOMAIN g.st = DOMAIN e.st
  BY <1>1 DEF Statuses
<1>4. f \in Envelopes /\ Coherent(f)
  BY <1>1, <1>2 DEF Envelopes, Coherent
<1>5. g \in Envelopes /\ Coherent(g)
  BY <1>1, <1>3 DEF Envelopes, Coherent
<1> QED BY <1>4, <1>5

-----------------------------------------------------------------------------
(* Writing a coherent envelope keeps the invariant: the copies others hold *)
(* do not change, and the operator lets its own go.                        *)
LEMMA WriteKeeps ==
  ASSUME RegInv, NEW o \in Operators, NEW e \in Envelopes, Coherent(e), Write(o, e)
  PROVE  RegInv'
<1>1. NotLoaded \in Held /\ Coherent(NotLoaded.e)
  BY AbsentCoherent DEF NotLoaded, Held
<1>2. RegTypeOK'
  BY <1>1 DEF RegInv, RegTypeOK, Write, Held
<1>3. \A a \in Agents : Coherent(env[a])'
  BY DEF RegInv, RegTypeOK, OneLiveVersion, Write, Coherent
<1>4. \A p \in Operators : Coherent(loaded[p].e)'
  BY <1>1 DEF RegInv, RegTypeOK, OneLiveVersion, Write, Coherent
<1> QED BY <1>2, <1>3, <1>4 DEF RegInv, OneLiveVersion

(* One operation of one operator keeps the invariant. *)
LEMMA EditKeeps ==
  ASSUME RegInv, NEW o \in Operators, Edit(o)
  PROVE  RegInv'
<1> DEFINE e == loaded[o].e
<1>1. e \in Envelopes /\ Coherent(e)
  BY DEF RegInv, RegTypeOK, OneLiveVersion, Held
<1>2. NotLoaded \in Held /\ Coherent(NotLoaded.e)
  BY AbsentCoherent DEF NotLoaded, Held
<1>3. ASSUME NEW a \in Edited, Load(o, a) PROVE RegInv'
  <2>1. a \in Agents
    BY RegistryAssumption
  <2>2. [agent |-> a, e |-> env[a]] \in Held /\ Coherent(env[a])
    BY <2>1 DEF RegInv, RegTypeOK, OneLiveVersion, Held
  <2>3. RegTypeOK'
    BY <1>3, <2>2 DEF RegInv, RegTypeOK, Load
  <2>4. OneLiveVersion'
    BY <1>3, <2>2 DEF RegInv, RegTypeOK, OneLiveVersion, Load, Coherent
  <2> QED BY <2>3, <2>4 DEF RegInv
<1>4. ASSUME NEW status \in Given, Create(o, status) PROVE RegInv'
  <2>1. status \in Statuses
    BY RegistryAssumption
  <2> QED BY <1>4, <2>1, CreateCoherent, WriteKeeps DEF Create
<1>5. ASSUME NEW status \in Given, Update(o, status) PROVE RegInv'
  <2>1. status \in Statuses
    BY RegistryAssumption
  <2> QED BY <1>5, <1>1, <2>1, UpdateCoherent, WriteKeeps DEF Update
<1>6. ASSUME NEW v \in DOMAIN e.st, Activate(o, v) PROVE RegInv'
  <2> DEFINE prior == IF e.active \in DOMAIN e.st /\ e.active # v
                      THEN [e.st EXCEPT ![e.active] = "retired"] ELSE e.st
             f == [st |-> [prior EXCEPT ![v] = "active"], active |-> v, given |-> e.given \ {v}]
  <2>1. Write(o, f)
    BY <1>6 DEF Activate
  <2>2. f \in Envelopes /\ Coherent(f)
    BY <1>1, ActivateCoherent
  <2> QED BY <2>1, <2>2, WriteKeeps
<1>7. ASSUME NEW v \in DOMAIN e.st, Deprecate(o, v) PROVE RegInv'
  BY <1>7, <1>1, DemoteCoherent, WriteKeeps DEF Deprecate
<1>8. ASSUME NEW v \in DOMAIN e.st, Retire(o, v) PROVE RegInv'
  BY <1>8, <1>1, DemoteCoherent, WriteKeeps DEF Retire
<1>9. CASE Delete(o)
  BY <1>9, AbsentCoherent, WriteKeeps DEF Delete
<1>10. CASE Refuse(o)
  BY <1>10, <1>2 DEF RegInv, RegTypeOK, OneLiveVersion, Refuse, Coherent
<1> QED BY <1>3, <1>4, <1>5, <1>6, <1>7, <1>8, <1>9, <1>10 DEF Edit

-----------------------------------------------------------------------------
(* The store starts from what the registry was seeded with. *)
LEMMA RegistryStart == RegInit => RegInv
<1> SUFFICES ASSUME RegInit PROVE RegInv
  OBVIOUS
<1>1. NotLoaded \in Held /\ Coherent(NotLoaded.e)
  BY AbsentCoherent DEF NotLoaded, Held
<1> QED BY <1>1, RegistryAssumption DEF RegInit, RegInv, RegTypeOK, OneLiveVersion

(* The versioned store (registry/store.py) with any number of processes    *)
(* that load, change and write back envelopes without a common lock, and   *)
(* with any status in the versions the callers write: a lost update is     *)
(* possible, but the pointer never names a version that activate did not   *)
(* put in service, or that was retired since, and of the versions it did   *)
(* put in service at most one is active.                                   *)
THEOREM OneLiveVersionSafe == RegSpec => []OneLiveVersion
<1>1. RegInit => RegInv
  BY RegistryStart
<1>2. RegInv /\ [RegNext]_regVars => RegInv'
  <2> SUFFICES ASSUME RegInv, [RegNext]_regVars PROVE RegInv'
    OBVIOUS
  <2>1. CASE RegNext
    BY <2>1, EditKeeps DEF RegNext
  <2>2. CASE UNCHANGED regVars
    BY <2>2 DEF RegInv, RegTypeOK, OneLiveVersion, regVars, Coherent
  <2> QED BY <2>1, <2>2
<1>3. RegInv => OneLiveVersion
  BY DEF RegInv
<1> QED BY <1>1, <1>2, <1>3, PTL DEF RegSpec

(* The steps of a turn read the envelopes and change none; what they do    *)
(* change of the registry's state is the memo of its fingerprint.          *)
LEMMA TurnsReadOnly ==
  ASSUME NEW t, Begin(t) \/ Step(t)
  PROVE  UNCHANGED <<env, loaded>>
BY Zenon DEF Begin, Step, UpdateFocus, ControlGate, FastPath, ForcedDispatch, EnterRoute, Split, Rewrite, RewriteFails,
       Retrieve, RetrieveFails, Filter, Disambiguates, RouteCacheStore, FinalizeRoute, TimeFilter, regVars

LEMMA RegistryStep ==
  ASSUME RegInv, [Next]_vars
  PROVE  RegInv'
<1>1. CASE UNCHANGED <<env, loaded>>
  BY <1>1 DEF RegInv, RegTypeOK, OneLiveVersion, Coherent
<1>2. ASSUME NEW t \in Turns, Begin(t) \/ Step(t) PROVE RegInv'
  BY <1>1, <1>2, TurnsReadOnly
<1>3. CASE RegNext
  BY <1>3, EditKeeps DEF RegNext
<1>4. CASE CacheExpires
  BY <1>1, <1>4 DEF CacheExpires
<1>5. CASE UNCHANGED vars
  BY <1>1, <1>5 DEF vars
<1> QED BY <1>2, <1>3, <1>4, <1>5 DEF Next

(* The same while turns are routed against the registry: whatever the      *)
(* operators do between two stages of the funnel, get reads the one        *)
(* version that activate put in service.                                   *)
THEOREM OneLiveVersionWhileRouting == Spec => []OneLiveVersion
<1>1. Init => RegInv
  BY RegistryStart DEF Init
<1>2. RegInv /\ [Next]_vars => RegInv'
  BY RegistryStep
<1>3. RegInv => OneLiveVersion
  BY DEF RegInv
<1> QED BY <1>1, <1>2, <1>3, PTL DEF Spec

-----------------------------------------------------------------------------
(* Sorting and filtering: P[i] is the set of the elements before i.  In a  *)
(* finite strict total order every place is taken.                         *)
LEMMA OrderRanks ==
  ASSUME NEW K, IsFiniteSet(K), NEW P \in [K -> SUBSET K],
         \A i \in K : i \notin P[i],
         \A i, j, k \in K : i \in P[j] /\ j \in P[k] => i \in P[k],
         \A i, j \in K : i # j => i \in P[j] \/ j \in P[i]
  PROVE  /\ Cardinality(K) \in Nat
         /\ \A k \in 1 .. Cardinality(K) : \E i \in K : 1 + Cardinality(P[i]) = k
<1> DEFINE f == [i \in K |-> 1 + Cardinality(P[i])]
           n == Cardinality(K)
<1>1. n \in Nat
  BY FS_CardinalityType
<1>2. ASSUME NEW i \in K PROVE IsFiniteSet(P[i]) /\ Cardinality(P[i]) \in 0 .. (n - 1)
  <2>1. P[i] \in SUBSET K /\ P[i] # K
    OBVIOUS
  <2>2. /\ IsFiniteSet(P[i]) /\ Cardinality(P[i]) <= n
        /\ n = Cardinality(P[i]) => K = P[i]
    BY <2>1, FS_Subset
  <2>3. Cardinality(P[i]) \in Nat
    BY <2>2, FS_CardinalityType
  <2> QED BY <1>1, <2>1, <2>2, <2>3
<1>3. ASSUME NEW i \in K, NEW j \in K, i \in P[j]
      PROVE  Cardinality(P[i]) < Cardinality(P[j])
  <2>1. P[i] \in SUBSET P[j] /\ i \in P[j] /\ i \notin P[i]
    BY <1>3
  <2>2. IsFiniteSet(P[j]) /\ Cardinality(P[i]) \in Int /\ Cardinality(P[j]) \in Int
    BY <1>2
  <2>3. Cardinality(P[i]) <= Cardinality(P[j]) /\ Cardinality(P[i]) # Cardinality(P[j])
    BY <2>1, <2>2, FS_Subset
  <2> QED BY <2>2, <2>3
<1>4. f \in Injection(K, 1 .. n)
  <2>1. \A i \in K : f[i] = 1 + Cardinality(P[i]) /\ f[i] \in 1 .. n
    BY <1>1, <1>2
  <2>2. \A i, j \in K : f[i] = f[j] => i = j
    <3> SUFFICES ASSUME NEW i \in K, NEW j \in K, i # j PROVE f[i] # f[j]
      OBVIOUS
    <3>1. Cardinality(P[i]) \in Int /\ Cardinality(P[j]) \in Int
      BY <1>2
    <3>2. Cardinality(P[i]) # Cardinality(P[j])
      BY <1>3, <3>1
    <3> QED BY <2>1, <3>1, <3>2
  <2>3. f \in [K -> 1 .. n]
    BY <2>1
  <2> HIDE DEF f
  <2> QED BY <2>2, <2>3 DEF Injection, IsInjective
<1>5. IsFiniteSet(1 .. n) /\ Cardinality(1 .. n) = n
  BY <1>1, FS_Interval
<1> HIDE DEF f
<1>6. f \in Surjection(K, 1 .. n)
  BY <1>4, <1>5, FS_Injection
<1> QED BY <1>1, <1>6 DEF Surjection, f

(* The part of a sequence at some positions holds elements of these. *)
LEMMA PartFacts ==
  ASSUME NEW D, NEW s \in Seq(D), NEW kept \in SUBSET DOMAIN s, NEW S, \A i \in kept : s[i] \in S
  PROVE  AtPositions(s, kept) \in Seq(S)
<1> DEFINE P == [i \in kept |-> {j \in kept : j < i}]
           upto(i) == {j \in kept : j <= i}
           nth(k) == CHOOSE i \in kept : Cardinality(upto(i)) = k
<1>1. kept \in SUBSET (1 .. Len(s)) /\ Len(s) \in Nat
  OBVIOUS
<1>2. IsFiniteSet(kept)
  <2>1. IsFiniteSet(1 .. Len(s))
    BY <1>1, FS_Interval
  <2> QED BY <1>1, <2>1, FS_Subset
<1>3. \A i \in kept : i \in Int
  BY <1>1
<1>4. P \in [kept -> SUBSET kept] /\ \A i, j \in kept : i \in P[j] <=> i < j
  OBVIOUS
<1> HIDE DEF P
<1>5. /\ \A i \in kept : i \notin P[i]
      /\ \A i, j, k \in kept : i \in P[j] /\ j \in P[k] => i \in P[k]
      /\ \A i, j \in kept : i # j => i \in P[j] \/ j \in P[i]
  BY <1>3, <1>4
<1>6. /\ Cardinality(kept) \in Nat
      /\ \A k \in 1 .. Cardinality(kept) : \E i \in kept : 1 + Cardinality(P[i]) = k
  BY <1>2, <1>4, <1>5, OrderRanks
<1>7. ASSUME NEW i \in kept PROVE Cardinality(upto(i)) = 1 + Cardinality(P[i])
  <2>1. upto(i) = P[i] \cup {i} /\ i \notin P[i] /\ P[i] \in SUBSET kept
    <3>1. \A j \in kept : j <= i <=> (j \in P[i] \/ j = i)
      BY <1>3, <1>4
    <3> QED BY <1>4, <1>5, <3>1
  <2>2. IsFiniteSet(P[i])
    BY <1>2, <2>1, FS_Subset
  <2>3. Cardinality(P[i]) \in Nat
    BY <2>2, FS_CardinalityType
  <2> HIDE DEF upto
  <2>4. Cardinality(P[i] \cup {i}) = Cardinality(P[i]) + 1
    BY <2>1, <2>2, FS_AddElement
  <2> QED BY <2>1, <2>3, <2>4
<1>8. ASSUME NEW k \in 1 .. Cardinality(kept) PROVE s[nth(k)] \in S
  <2> HIDE DEF upto
  <2>1. \E i \in kept : Cardinality(upto(i)) = k
    BY <1>6, <1>7
  <2>2. nth(k) \in kept
    BY <2>1
  <2> QED BY <2>2
<1>9. AtPositions(s, kept) = [k \in 1 .. Cardinality(kept) |-> s[nth(k)]]
  BY DEF AtPositions
<1> HIDE DEF nth
<1>10. [k \in 1 .. Cardinality(kept) |-> s[nth(k)]] \in [1 .. Cardinality(kept) -> S]
  BY <1>8
<1> DEFINE m == Cardinality(kept)
           g == [k \in 1 .. m |-> s[nth(k)]]
<1>11. m \in Nat /\ g \in [1 .. m -> S] /\ AtPositions(s, kept) = g
  BY <1>6, <1>9, <1>10
<1> HIDE DEF m, g
<1>12. g \in Seq(S)
  BY <1>11
<1> QED BY <1>11, <1>12


(* The first of the elements kept is one of them. *)
LEMMA FirstKept ==
  ASSUME NEW D, NEW s \in Seq(D), NEW kept \in SUBSET DOMAIN s, kept # {}
  PROVE  \E i \in kept : AtPositions(s, kept)[1] = s[i]
<1> DEFINE S == {s[i] : i \in kept}
<1>1. AtPositions(s, kept) \in Seq(S)
  BY PartFacts
<1>2. IsFiniteSet(kept)
  <2>1. kept \in SUBSET (1 .. Len(s)) /\ Len(s) \in Nat
    OBVIOUS
  <2>2. IsFiniteSet(1 .. Len(s))
    BY <2>1, FS_Interval
  <2> QED BY <2>1, <2>2, FS_Subset
<1>3. Cardinality(kept) \in Nat /\ Cardinality(kept) # 0
  BY <1>2, FS_CardinalityType, FS_EmptySet
<1>4. DOMAIN AtPositions(s, kept) = 1 .. Cardinality(kept)
  BY DEF AtPositions
<1>5. 1 \in DOMAIN AtPositions(s, kept)
  BY <1>3, <1>4
<1> HIDE DEF S
<1>6. AtPositions(s, kept)[1] \in S
  BY <1>1, <1>5
<1> QED BY <1>6 DEF S

(* Leaving repetitions out invents nothing. *)
LEMMA DedupFacts ==
  ASSUME NEW S, NEW s \in Seq(S)
  PROVE  Dedup(s) \in Seq(S)
<1> DEFINE kept == {i \in DOMAIN s : \A j \in 1 .. (i - 1) : s[j] # s[i]}
<1>1. kept \in SUBSET DOMAIN s /\ \A i \in kept : s[i] \in S
  OBVIOUS
<1>2. Dedup(s) = AtPositions(s, kept)
  BY DEF Dedup
<1> HIDE DEF kept
<1> QED BY <1>1, <1>2, PartFacts

(* The ids listed for a text are the ids in it. *)
LEMMA EntitiesFacts ==
  ASSUME NEW text \in Texts
  PROVE  Entities(text) \in Seq(Ids(text))
<1> DEFINE ids == [i \in DOMAIN text.toks |-> Normalize(text.toks[i]).id]
           good == {i \in DOMAIN text.toks : Normalize(text.toks[i]).ok}
           S == {ids[i] : i \in DOMAIN text.toks}
<1>1. text.toks \in Seq(Toks)
  BY DEF Texts
<1>2. DOMAIN text.toks = 1 .. Len(text.toks) /\ Len(text.toks) \in Nat
  BY <1>1
<1>3. ids \in Seq(S) /\ good \in SUBSET DOMAIN ids
  <2>1. ids \in [1 .. Len(text.toks) -> S]
    BY <1>2
  <2>2. DOMAIN ids = DOMAIN text.toks
    OBVIOUS
  <2> HIDE DEF ids, S
  <2> QED BY <1>2, <2>1, <2>2
<1>4. ASSUME NEW i \in good PROVE ids[i] \in Ids(text)
  <2>1. text.toks[i] \in Range(text.toks) /\ Normalize(text.toks[i]).ok
    BY DEF Range
  <2>2. ids[i] = Normalize(text.toks[i]).id
    OBVIOUS
  <2> QED BY <2>1, <2>2 DEF Ids
<1>5. Entities(text) = Dedup(AtPositions(ids, good))
  BY DEF Entities
<1> HIDE DEF ids, good, S
<1>6. AtPositions(ids, good) \in Seq(Ids(text))
  BY <1>3, <1>4, PartFacts
<1> QED BY <1>5, <1>6, DedupFacts

(* A turn of the conversation contributes ids it mentions. *)
LEMMA CollectFacts ==
  ASSUME NEW history \in Histories, NEW i \in DOMAIN history
  PROVE  CollectTurnIds(history[i]) \in Seq(Ids(history[i].text))
<1>1. history[i].text \in Texts
  <2>1. history[i] \in HistoryTurns
    BY DEF Histories
  <2> QED BY <2>1 DEF HistoryTurns
<1>2. Entities(history[i].text) \in Seq(Ids(history[i].text))
  BY <1>1, EntitiesFacts
<1>3. CollectTurnIds(history[i]) \in {<<>>, Entities(history[i].text)}
  BY Zenon DEF CollectTurnIds
<1>4. <<>> \in Seq(Ids(history[i].text))
  OBVIOUS
<1> QED BY <1>2, <1>3, <1>4

(* So do the turns of a role, in whatever order they are read. *)
LEMMA OfRoleFacts ==
  ASSUME NEW history \in Histories, NEW role
  PROVE  OfRole(history, role) \in Seq(AllHistoryIds(history))
<1> DEFINE ids == [i \in DOMAIN history |-> CollectTurnIds(history[i])]
           who == {j \in DOMAIN history : history[j].role = role}
           K == UNION {{i} \X DOMAIN ids[i] : i \in who}
           before(p, q) == p[1] > q[1] \/ (p[1] = q[1] /\ p[2] < q[2])
           P == [p \in K |-> {q \in K : before(q, p)}]
           at(k) == CHOOSE p \in K : Cardinality({q \in K : before(q, p)}) = k - 1
           n == Cardinality(K)
           order == [k \in 1 .. n |-> at(k)]
           out == [k \in DOMAIN order |-> ids[order[k][1]][order[k][2]]]
<1>1. DOMAIN history = 1 .. Len(history) /\ Len(history) \in Nat
  BY DEF Histories
<1>2. ASSUME NEW i \in who
      PROVE  /\ i \in DOMAIN history /\ i \in Nat
             /\ ids[i] \in Seq(Ids(history[i].text))
             /\ DOMAIN ids[i] = 1 .. Len(ids[i]) /\ Len(ids[i]) \in Nat
             /\ IsFiniteSet({i} \X DOMAIN ids[i])
  <2>1. i \in DOMAIN history /\ i \in Nat
    BY <1>1
  <2>2. ids[i] = CollectTurnIds(history[i])
    BY <2>1
  <2>3. ids[i] \in Seq(Ids(history[i].text))
    BY <2>1, <2>2, CollectFacts
  <2> HIDE DEF ids
  <2>4. DOMAIN ids[i] = 1 .. Len(ids[i]) /\ Len(ids[i]) \in Nat
    BY <2>3
  <2>5. IsFiniteSet({i}) /\ IsFiniteSet(1 .. Len(ids[i]))
    <3>1. IsFiniteSet({i})
      BY FS_Singleton, Zenon
    <3>2. 1 \in Int /\ Len(ids[i]) \in Int
      BY <2>4
    <3>3. IsFiniteSet(1 .. Len(ids[i]))
      BY <3>2, FS_Interval
    <3> QED BY <3>1, <3>3
  <2>6. IsFiniteSet({i} \X DOMAIN ids[i])
    BY <2>4, <2>5, FS_Product
  <2> QED BY <2>1, <2>3, <2>4, <2>6
<1>3. ASSUME NEW p \in K
      PROVE  /\ p = <<p[1], p[2]>> /\ p[1] \in who /\ p[2] \in DOMAIN ids[p[1]]
             /\ p[1] \in Int /\ p[2] \in Int
             /\ ids[p[1]][p[2]] \in AllHistoryIds(history)
  <2> HIDE DEF ids, who
  <2>1. PICK i \in who : p \in {i} \X DOMAIN ids[i]
    OBVIOUS
  <2>2. p = <<p[1], p[2]>> /\ p[1] = i /\ p[2] \in DOMAIN ids[i]
    BY <2>1
  <2>0. /\ ids[i] \in Seq(Ids(history[i].text)) /\ i \in Nat
        /\ DOMAIN ids[i] = 1 .. Len(ids[i]) /\ Len(ids[i]) \in Nat
    BY <1>2, <2>1
  <2>3. p[1] \in Int /\ p[2] \in Int
    BY <2>0, <2>2
  <2>4. ids[i][p[2]] \in Ids(history[i].text)
    BY <2>0, <2>2
  <2>5. ids[i][p[2]] \in AllHistoryIds(history)
    BY <1>2, <2>1, <2>4 DEF AllHistoryIds
  <2> QED BY <2>1, <2>2, <2>3, <2>5
<1>4. IsFiniteSet(K)
  <2> DEFINE parts == [i \in who |-> {i} \X DOMAIN ids[i]]
             all == {parts[i] : i \in who}
  <2>1. IsFiniteSet(who)
    <3>1. IsFiniteSet(1 .. Len(history))
      BY <1>1, FS_Interval
    <3>2. who \in SUBSET (1 .. Len(history))
      BY <1>1
    <3> QED BY <3>1, <3>2, FS_Subset
  <2>2. parts \in Surjection(who, all)
    <3>1. parts \in [who -> all] /\ \A x \in all : \E i \in who : parts[i] = x
      OBVIOUS
    <3> HIDE DEF parts, all
    <3> QED BY <3>1 DEF Surjection
  <2>3. IsFiniteSet(all)
    BY <2>1, <2>2, FS_Surjection
  <2>4. \A T \in all : IsFiniteSet(T)
    BY <1>2
  <2>5. K = UNION all
    OBVIOUS
  <2> HIDE DEF all
  <2> QED BY <2>3, <2>4, <2>5, FS_UNION
<1>5. P \in [K -> SUBSET K] /\ \A p, q \in K : p \in P[q] <=> before(p, q)
  <2> HIDE DEF K, before
  <2> QED OBVIOUS
<1> HIDE DEF K, ids, who
<1>6. /\ \A p \in K : p \notin P[p]
      /\ \A p, q, r \in K : p \in P[q] /\ q \in P[r] => p \in P[r]
      /\ \A p, q \in K : p # q => p \in P[q] \/ q \in P[p]
  <2>1. \A p, q \in K : p[1] \in Int /\ p[2] \in Int /\ (p[1] = q[1] /\ p[2] = q[2] => p = q)
    BY <1>3
  <2> HIDE DEF P
  <2>2. \A p \in K : ~before(p, p)
    BY <2>1
  <2>3. \A p, q, r \in K : before(p, q) /\ before(q, r) => before(p, r)
    BY <2>1
  <2>4. \A p, q \in K : p # q => before(p, q) \/ before(q, p)
    BY <2>1
  <2> HIDE DEF before
  <2> QED BY <1>5, <2>2, <2>3, <2>4
<1>7. n \in Nat /\ \A k \in 1 .. n : \E p \in K : 1 + Cardinality(P[p]) = k
  <2> HIDE DEF P
  <2> QED BY <1>4, <1>5, <1>6, OrderRanks
<1>8. ASSUME NEW k \in 1 .. n PROVE at(k) \in K
  <2>1. PICK p \in K : 1 + Cardinality(P[p]) = k
    BY <1>7
  <2>2. P[p] = {q \in K : before(q, p)} /\ IsFiniteSet(P[p])
    BY <1>4, FS_Subset
  <2>3. Cardinality(P[p]) \in Nat
    BY <2>2, FS_CardinalityType
  <2>4. Cardinality({q \in K : before(q, p)}) = k - 1
    BY <2>1, <2>2, <2>3
  <2> HIDE DEF before
  <2> QED BY <2>4
<1>9. OfRole(history, role) = out
  BY Zenon DEF OfRole, InOrder, ids, who, K
<1>10. DOMAIN out = 1 .. n /\ \A k \in 1 .. n : out[k] = ids[at(k)[1]][at(k)[2]]
  <2> HIDE DEF at
  <2> QED OBVIOUS
<1>11. \A k \in 1 .. n : out[k] \in AllHistoryIds(history)
  <2> HIDE DEF at, out
  <2> QED BY <1>3, <1>8, <1>10
<1>12. out \in [1 .. n -> AllHistoryIds(history)]
  <2> HIDE DEF at
  <2> QED BY <1>11
<1> HIDE DEF out, n
<1> QED BY <1>7, <1>9, <1>12

-----------------------------------------------------------------------------
(* The ids of a text, token by token. *)
LEMMA TokenIds ==
  ASSUME NEW x \in Texts
  PROVE  /\ \A id \in Ids(x) : \E i \in DOMAIN x.toks :
              /\ x.toks[i].form = "id" /\ Known(x.toks[i])
              /\ id = <<x.toks[i].pre, x.toks[i].n, x.toks[i].w>>
         /\ \A i \in DOMAIN x.toks : x.toks[i].form = "id" /\ Known(x.toks[i]) =>
              <<x.toks[i].pre, x.toks[i].n, x.toks[i].w>> \in Ids(x)
<1>1. \A tok : /\ Normalize(tok).id = <<tok.pre, tok.n, tok.w>>
               /\ Normalize(tok).ok <=> tok.form = "id" /\ Known(tok)
  BY DEF Normalize
<1>2. Ids(x) = {Normalize(y).id : y \in {z \in {x.toks[i] : i \in DOMAIN x.toks} : Normalize(z).ok}}
  BY Zenon DEF Ids, Range
<1>3. ASSUME NEW id \in Ids(x)
      PROVE  \E i \in DOMAIN x.toks : Normalize(x.toks[i]).ok /\ id = Normalize(x.toks[i]).id
  BY <1>2
<1>4. ASSUME NEW i \in DOMAIN x.toks, Normalize(x.toks[i]).ok
      PROVE  Normalize(x.toks[i]).id \in Ids(x)
  BY <1>2, <1>4
<1>5. ASSUME NEW id \in Ids(x)
      PROVE  \E i \in DOMAIN x.toks :
               /\ x.toks[i].form = "id" /\ Known(x.toks[i])
               /\ id = <<x.toks[i].pre, x.toks[i].n, x.toks[i].w>>
  <2>1. PICK i \in DOMAIN x.toks : Normalize(x.toks[i]).ok /\ id = Normalize(x.toks[i]).id
    BY <1>3
  <2> QED BY <1>1, <2>1
<1>6. ASSUME NEW i \in DOMAIN x.toks, x.toks[i].form = "id", Known(x.toks[i])
      PROVE  <<x.toks[i].pre, x.toks[i].n, x.toks[i].w>> \in Ids(x)
  <2>1. Normalize(x.toks[i]).ok
    BY <1>1, <1>6
  <2>2. Normalize(x.toks[i]).id \in Ids(x)
    BY <1>4, <2>1
  <2> QED BY <1>1, <2>2
<1> QED BY <1>5, <1>6

(* They are record ids, and writing one out gives it back. *)
LEMMA IdShape ==
  ASSUME NEW x \in Texts
  PROVE  Ids(x) \subseteq RecordIds
<1> SUFFICES ASSUME NEW id \in Ids(x) PROVE id \in RecordIds
  OBVIOUS
<1>1. PICK i \in DOMAIN x.toks : id = <<x.toks[i].pre, x.toks[i].n, x.toks[i].w>>
  BY TokenIds
<1>2. x.toks[i] \in Toks
  BY DEF Texts
<1> QED BY <1>1, <1>2 DEF Toks, RecordIds

LEMMA HistoryShape ==
  ASSUME NEW history \in Histories
  PROVE  AllHistoryIds(history) \subseteq RecordIds
<1> SUFFICES ASSUME NEW i \in DOMAIN history PROVE Ids(history[i].text) \subseteq RecordIds
  BY Zenon DEF AllHistoryIds
<1>1. history[i] \in HistoryTurns
  BY DEF Histories
<1>2. history[i].text \in Texts
  BY <1>1 DEF HistoryTurns
<1> QED BY <1>2, IdShape

LEMMA WrittenFacts ==
  ASSUME NEW id \in RecordIds
  PROVE  /\ Written(id) \in Toks
         /\ <<Written(id).pre, Written(id).n, Written(id).w>> = id
<1>1. id = <<id[1], id[2], id[3]>> /\ id[1] \in STRING /\ id[2] \in Nat /\ id[3] \in Nat
  BY DEF RecordIds
<1>2. Written(id) = [form |-> "id", pre |-> id[1], n |-> id[2], w |-> id[3]]
  BY DEF Written
<1>3. "id" \in Forms
  BY DEF Forms
<1>4. Written(id) \in Toks
  BY <1>1, <1>2, <1>3 DEF Toks
<1>5. Written(id).pre = id[1] /\ Written(id).n = id[2] /\ Written(id).w = id[3]
  BY <1>2
<1> QED BY <1>1, <1>4, <1>5

(* The ids of the conversation that the guards and the focus use are ids   *)
(* of the conversation.                                                    *)
LEMMA HistoryFocusFacts ==
  ASSUME NEW history \in Histories
  PROVE  /\ HistoryFocusIds(history) \in Seq(AllHistoryIds(history))
         /\ HistoryFocusIdsUserOnly(history) \in Seq(AllHistoryIds(history))
<1> DEFINE u == OfRole(history, "user")
           v == OfRole(history, "assistant")
           S == AllHistoryIds(history)
<1>1. u \in Seq(S) /\ v \in Seq(S)
  BY OfRoleFacts
<1>2. HistoryFocusIds(history) = Dedup(u \o v) /\ HistoryFocusIdsUserOnly(history) = Dedup(u)
  BY DEF HistoryFocusIds, HistoryFocusIdsUserOnly
<1> HIDE DEF u, v, S
<1>3. u \o v \in Seq(S)
  BY <1>1
<1>4. Dedup(u \o v) \in Seq(S) /\ Dedup(u) \in Seq(S)
  BY <1>1, <1>3, DedupFacts
<1> QED BY <1>2, <1>4 DEF S

LEMMA FirstOf ==
  ASSUME NEW S, NEW s \in Seq(S), s # <<>>
  PROVE  s[1] \in S
OBVIOUS

LEMMA SeenFacts ==
  ASSUME NEW history \in Histories
  PROVE  ExtractFocusFromHistory(history) \in {NoId} \cup AllHistoryIds(history)
<1> DEFINE found == HistoryFocusIdsUserOnly(history)
<1>1. found \in Seq(AllHistoryIds(history))
  BY HistoryFocusFacts
<1>2. ExtractFocusFromHistory(history) = IF found = <<>> THEN NoId ELSE found[1]
  BY DEF ExtractFocusFromHistory
<1> HIDE DEF found
<1>3. CASE found = <<>>
  BY <1>2, <1>3
<1>4. CASE found # <<>>
  BY <1>1, <1>2, <1>4, FirstOf
<1> QED BY <1>3, <1>4

(* update_focus: the focus is in the message, carried, or from the         *)
(* conversation.                                                           *)
LEMMA FocusFacts ==
  ASSUME NEW text \in Texts, NEW carried, NEW history \in Histories, NEW label
  PROVE  ApplyFocusIntent(ResolveFocus(text, carried, history), label)
           \in {NoId, carried} \cup Ids(text) \cup AllHistoryIds(history)
<1> DEFINE found == HistoryFocusIdsUserOnly(history)
           focus == ResolveFocus(text, carried, history)
<1>1. found \in Seq(AllHistoryIds(history)) /\ Entities(text) \in Seq(Ids(text))
  BY HistoryFocusFacts, EntitiesFacts
<1>2. /\ Entities(text) # <<>> => Entities(text)[1] \in Ids(text)
      /\ found # <<>> => found[1] \in AllHistoryIds(history)
  <2> HIDE DEF found
  <2> QED BY <1>1, FirstOf
<1>3. focus.id \in {NoId, carried} \cup Ids(text) \cup AllHistoryIds(history)
  <2>1. CASE Entities(text) # <<>>
    BY <1>2, <2>1, Zenon DEF ResolveFocus
  <2>2. CASE Entities(text) = <<>> /\ carried # NoId
    BY <2>2, Zenon DEF ResolveFocus
  <2>3. CASE Entities(text) = <<>> /\ carried = NoId
    <3>1. CASE found # <<>>
      BY <1>2, <2>3, <3>1, Zenon DEF ResolveFocus
    <3>2. CASE found = <<>>
      BY <2>3, <3>2, Zenon DEF ResolveFocus
    <3> QED BY <3>1, <3>2
  <2> QED BY <2>1, <2>2, <2>3
<1> HIDE DEF focus
<1>4. ApplyFocusIntent(focus, label) \in {NoId, focus.id}
  BY Zenon DEF ApplyFocusIntent
<1> QED BY <1>3, <1>4 DEF focus

-----------------------------------------------------------------------------
(* The rewriter's guards.  A text is good when every id in it is accounted *)
(* for by the words of the sub-query, the conversation or the focus.       *)
Good(said, focus, history, x) ==
  x \in Texts /\ \A id \in Ids(x) : Sourced(said, focus, history, said, id)

LEMMA AppendedIds ==
  ASSUME NEW text \in Texts, NEW h \in RecordIds
  PROVE  LET e == [text EXCEPT !.toks = Append(@, Written(h)), !.words = @ + 2]
         IN e \in Texts /\ Ids(e) \subseteq Ids(text) \cup {h}
<1> DEFINE e == [text EXCEPT !.toks = Append(@, Written(h)), !.words = @ + 2]
<1>1. Written(h) \in Toks /\ <<Written(h).pre, Written(h).n, Written(h).w>> = h
  BY WrittenFacts
<1>2. text.toks \in Seq(Toks) /\ text.words \in Nat
  BY DEF Texts
<1>3. e.toks = Append(text.toks, Written(h))
  BY DEF Texts
<1>4. e \in Texts
  <2>1. Append(text.toks, Written(h)) \in Seq(Toks) /\ text.words + 2 \in Nat
    BY <1>1, <1>2
  <2> QED BY <2>1 DEF Texts
<1>5. ASSUME NEW id \in Ids(e) PROVE id \in Ids(text) \cup {h}
  <2> HIDE DEF e
  <2>1. PICK i \in DOMAIN e.toks :
              /\ e.toks[i].form = "id" /\ Known(e.toks[i])
              /\ id = <<e.toks[i].pre, e.toks[i].n, e.toks[i].w>>
    BY <1>4, TokenIds
  <2>2. (i \in DOMAIN text.toks /\ e.toks[i] = text.toks[i]) \/ e.toks[i] = Written(h)
    BY <1>1, <1>2, <1>3, <2>1
  <2>3. CASE i \in DOMAIN text.toks /\ e.toks[i] = text.toks[i]
    BY <2>1, <2>3, TokenIds
  <2>4. CASE e.toks[i] = Written(h)
    BY <1>1, <2>1, <2>4
  <2> QED BY <2>2, <2>3, <2>4
<1> QED BY <1>4, <1>5

LEMMA CompletedIds ==
  ASSUME NEW text \in Texts, NEW h \in RecordIds
  PROVE  LET e == [text EXCEPT !.toks = <<Written(h)>>] IN e \in Texts /\ Ids(e) \subseteq {h}
<1> DEFINE e == [text EXCEPT !.toks = <<Written(h)>>]
<1>1. Written(h) \in Toks /\ <<Written(h).pre, Written(h).n, Written(h).w>> = h
  BY WrittenFacts
<1>2. e.toks = <<Written(h)>>
  BY DEF Texts
<1>3. e \in Texts
  <2>1. <<Written(h)>> \in Seq(Toks)
    BY <1>1
  <2> QED BY <2>1 DEF Texts
<1>4. ASSUME NEW id \in Ids(e) PROVE id = h
  <2> HIDE DEF e
  <2>1. PICK i \in DOMAIN e.toks : id = <<e.toks[i].pre, e.toks[i].n, e.toks[i].w>>
    BY <1>3, TokenIds
  <2>2. e.toks[i] = Written(h)
    BY <1>2, <2>1
  <2> QED BY <1>1, <2>1, <2>2
<1> QED BY <1>3, <1>4

LEMMA ReplacedIds ==
  ASSUME NEW text \in Texts, NEW old, NEW h \in RecordIds
  PROVE  Replace(text, old, h) \in Texts /\ Ids(Replace(text, old, h)) \subseteq Ids(text) \cup {h}
<1> DEFINE swap == [i \in DOMAIN text.toks |-> IF text.toks[i] = Written(old) THEN Written(h) ELSE text.toks[i]]
           e == [text EXCEPT !.toks = swap]
<1>1. Written(h) \in Toks /\ <<Written(h).pre, Written(h).n, Written(h).w>> = h
  BY WrittenFacts
<1>2. text.toks \in Seq(Toks)
  BY DEF Texts
<1>3. Replace(text, old, h) = e
  BY DEF Replace
<1>4. swap \in Seq(Toks) /\ DOMAIN swap = DOMAIN text.toks
  <2>1. DOMAIN text.toks = 1 .. Len(text.toks) /\ Len(text.toks) \in Nat
    BY <1>2
  <2>2. \A i \in DOMAIN text.toks : swap[i] \in Toks
    BY <1>1, <1>2
  <2>3. swap \in [1 .. Len(text.toks) -> Toks]
    BY <2>1, <2>2
  <2> HIDE DEF swap
  <2> QED BY <2>1, <2>3
<1>5. \A i \in DOMAIN text.toks : swap[i] \in {Written(h), text.toks[i]}
  OBVIOUS
<1> HIDE DEF swap
<1>6. e \in Texts /\ e.toks = swap
  BY <1>4 DEF Texts
<1>7. ASSUME NEW id \in Ids(e) PROVE id \in Ids(text) \cup {h}
  <2> HIDE DEF e
  <2>1. PICK i \in DOMAIN e.toks :
              /\ e.toks[i].form = "id" /\ Known(e.toks[i])
              /\ id = <<e.toks[i].pre, e.toks[i].n, e.toks[i].w>>
    BY <1>6, TokenIds
  <2>2. i \in DOMAIN text.toks /\ e.toks[i] \in {Written(h), text.toks[i]}
    BY <1>4, <1>5, <1>6, <2>1
  <2>3. CASE e.toks[i] = text.toks[i]
    BY <2>1, <2>2, <2>3, TokenIds
  <2>4. CASE e.toks[i] = Written(h)
    BY <1>1, <2>1, <2>4
  <2> QED BY <2>2, <2>3, <2>4
<1> QED BY <1>3, <1>6, <1>7

(* The words themselves are good. *)
LEMMA OwnWords ==
  ASSUME NEW text \in Texts, NEW focus, NEW history
  PROVE  Good(text, focus, history, text)
BY DEF Good, Sourced

(* _enforce_linked_phrase_guard adds an id of the conversation at most. *)
LEMMA LinkedGood ==
  ASSUME NEW text \in Texts, NEW focus, NEW history \in Histories, NEW x, Good(text, focus, history, x)
  PROVE  Good(text, focus, history, EnforceLinkedPhrase(text, x, history))
<1> DEFINE ids == HistoryFocusIds(history)
           e == [text EXCEPT !.toks = Append(@, Written(ids[1])), !.words = @ + 2]
<1>1. ids \in Seq(AllHistoryIds(history))
  BY HistoryFocusFacts
<1>2. EnforceLinkedPhrase(text, x, history) \in {x, text} \/ (ids # <<>> /\ EnforceLinkedPhrase(text, x, history) = e)
  BY Zenon DEF EnforceLinkedPhrase
<1>3. ASSUME ids # <<>> PROVE Good(text, focus, history, e)
  <2> HIDE DEF ids
  <2>1. ids[1] \in AllHistoryIds(history)
    BY <1>1, <1>3
  <2>2. ids[1] \in RecordIds
    BY <2>1, HistoryShape
  <2>3. e \in Texts /\ Ids(e) \subseteq Ids(text) \cup {ids[1]}
    BY <2>2, AppendedIds
  <2> HIDE DEF e
  <2> QED BY <2>1, <2>3 DEF Good, Sourced
<1>4. Good(text, focus, history, text)
  BY OwnWords
<1> HIDE DEF e, ids
<1> QED BY <1>2, <1>3, <1>4

(* _reject_hallucinated_ids lets no other id through. *)
LEMMA RejectedGood ==
  ASSUME NEW text \in Texts, NEW focus, NEW history \in Histories, NEW x \in Texts
  PROVE  Good(text, focus, history, RejectHallucinatedIds(text, x, history))
<1> DEFINE ids == HistoryFocusIds(history)
           allowed == Ids(text) \cup Range(ids) \cup BareDigitAllowed(text, Ids(x), history)
<1>1. ids \in Seq(AllHistoryIds(history))
  BY HistoryFocusFacts
<1>2. Range(ids) \subseteq AllHistoryIds(history)
  <2> HIDE DEF ids
  <2> QED BY <1>1 DEF Range
<1>3. ASSUME NEW id \in allowed PROVE Sourced(text, focus, history, text, id)
  BY <1>2 DEF Sourced, BareDigitAllowed
<1>4. RejectHallucinatedIds(text, x, history) = IF Ids(x) \subseteq allowed THEN x ELSE text
  BY DEF RejectHallucinatedIds
<1>5. Good(text, focus, history, text)
  BY OwnWords
<1> HIDE DEF allowed
<1>6. CASE Ids(x) \subseteq allowed
  <2>1. Good(text, focus, history, x)
    BY <1>3, <1>6 DEF Good
  <2> QED BY <1>4, <1>6, <2>1
<1>7. CASE ~(Ids(x) \subseteq allowed)
  BY <1>4, <1>5, <1>7
<1> QED BY <1>6, <1>7

(* The whole chain of revert guards, applied to any reply. *)
LEMMA RevertGood ==
  ASSUME NEW text \in Texts, NEW focus, NEW history \in Histories, NEW x \in Texts
  PROVE  Good(text, focus, history, RevertGuards(text, x, history))
<1> DEFINE g1 == RejectHallucinatedIds(text, x, history)
           g2 == IF g1 = text THEN text ELSE EnforceLinkedPhrase(text, g1, history)
           g3 == IF g2 = text THEN text ELSE RejectFocusInjection(text, g2)
           g4 == IF g3 = text THEN text ELSE RejectTopicReplacement(text, g3)
           g5 == IF g4 = text THEN text ELSE RevertRephrase(text, g4)
<1>0. Good(text, focus, history, text)
  BY OwnWords
<1>1. Good(text, focus, history, g1)
  BY RejectedGood
<1>2. Good(text, focus, history, g2)
  <2> HIDE DEF g1
  <2>1. Good(text, focus, history, EnforceLinkedPhrase(text, g1, history))
    BY <1>1, LinkedGood
  <2> QED BY <1>0, <2>1
<1>3. RevertGuards(text, x, history) = g5
  BY DEF RevertGuards
<1> HIDE DEF g1, g2
<1>4. g3 \in {text, g2}
  BY Zenon DEF RejectFocusInjection
<1> HIDE DEF g3
<1>5. g4 \in {text, g3}
  BY Zenon DEF RejectTopicReplacement
<1> HIDE DEF g4
<1>6. g5 \in {text, g4}
  BY Zenon DEF RevertRephrase
<1> QED BY <1>0, <1>2, <1>3, <1>4, <1>5, <1>6

(* A stale id is replaced by one that is accounted for. *)
LEMMA CorrectedGood ==
  ASSUME NEW text, NEW focus, NEW history, NEW x, Good(text, focus, history, x),
         NEW right \in RecordIds, Sourced(text, focus, history, text, right)
  PROVE  Good(text, focus, history, CorrectStale(text, x, right))
<1>1. CorrectStale(text, x, right) = x \/ \E old : CorrectStale(text, x, right) = Replace(x, old, right)
  BY Zenon DEF CorrectStale
<1>2. ASSUME NEW old PROVE Good(text, focus, history, Replace(x, old, right))
  <2>1. x \in Texts
    BY DEF Good
  <2>2. Replace(x, old, right) \in Texts /\ Ids(Replace(x, old, right)) \subseteq Ids(x) \cup {right}
    BY <2>1, ReplacedIds
  <2> QED BY <2>2 DEF Good
<1> QED BY <1>1, <1>2

LEMMA EnforcedGood ==
  ASSUME NEW text \in Texts, NEW focus, focus = NoId \/ focus \in RecordIds, NEW history \in Histories,
         NEW x, Good(text, focus, history, x)
  PROVE  Good(text, focus, history, EnforceFocus(text, x, history, focus))
<1>1. CASE focus # NoId
  <2>1. focus \in RecordIds /\ Sourced(text, focus, history, text, focus)
    BY <1>1 DEF Sourced
  <2>2. Good(text, focus, history, CorrectStale(text, x, focus))
    BY <2>1, CorrectedGood
  <2>3. EnforceFocus(text, x, history, focus) \in {x, CorrectStale(text, x, focus)}
    BY <1>1, Zenon DEF EnforceFocus, EnforceAuthoritativeFocus
  <2> QED BY <2>2, <2>3
<1>2. CASE focus = NoId
  <2> DEFINE chain == HistoryFocusIdsUserOnly(history)
  <2>1. chain \in Seq(AllHistoryIds(history))
    BY HistoryFocusFacts
  <2>2. EnforceFocus(text, x, history, focus) = x
          \/ (chain # <<>> /\ EnforceFocus(text, x, history, focus) = CorrectStale(text, x, chain[1]))
    BY <1>2, Zenon DEF EnforceFocus, EnforceMostRecentFocus
  <2> HIDE DEF chain
  <2>3. ASSUME chain # <<>> PROVE Good(text, focus, history, CorrectStale(text, x, chain[1]))
    <3>1. chain[1] \in AllHistoryIds(history)
      BY <2>1, <2>3
    <3>2. chain[1] \in RecordIds /\ Sourced(text, focus, history, text, chain[1])
      BY <3>1, HistoryShape DEF Sourced
    <3> QED BY <3>2, CorrectedGood
  <2> QED BY <2>2, <2>3
<1> QED BY <1>1, <1>2

(* A message of bare digits is completed from the conversation. *)
LEMMA CompletedText ==
  ASSUME NEW text \in Texts, NEW history \in Histories
  PROVE  CompleteBareDigit(text, history) \in Texts
<1> DEFINE ids == HistoryFocusIds(history)
           h == <<ids[1][1], text.toks[1].n, CanonicalWidth>>
           e == [text EXCEPT !.toks = <<Written(h)>>]
<1>1. CompleteBareDigit(text, history) = IF BareDigitMessage(text) /\ ids # <<>> THEN e ELSE text
  BY DEF CompleteBareDigit
<1>2. ASSUME BareDigitMessage(text), ids # <<>> PROVE e \in Texts
  <2>1. ids \in Seq(AllHistoryIds(history))
    BY HistoryFocusFacts
  <2> HIDE DEF ids
  <2>2. ids[1] \in AllHistoryIds(history)
    BY <1>2, <2>1
  <2>3. ids[1] \in RecordIds
    BY <2>2, HistoryShape
  <2>4. text.toks[1] \in Toks
    <3>1. text.toks \in Seq(Toks) /\ Len(text.toks) = 1
      BY <1>2 DEF BareDigitMessage, Texts
    <3> QED BY <3>1
  <2>5. h \in RecordIds
    BY <2>3, <2>4 DEF RecordIds, Toks, CanonicalWidth
  <2> HIDE DEF h
  <2> QED BY <2>5, CompletedIds
<1> HIDE DEF e, ids
<1> QED BY <1>1, <1>2

(* _apply_rewrite_guards as a whole, for a reply that owns up to a change. *)
LEMMA GuardedGood ==
  ASSUME NEW text \in Texts, NEW focus, focus = NoId \/ focus \in RecordIds, NEW history \in Histories,
         NEW reply, reply.text \in Texts, reply.changed
  PROVE  Good(text, focus, history, ApplyRewriteGuards(text, reply, history, focus))
<1> DEFINE said == reply.changed /\ reply.text # text
           keep == said /\ ~HasCanonicalId(text)
           base == IF said /\ HasCanonicalId(text) THEN text ELSE reply.text
           digits == CompleteBareDigit(text, history)
           guarded == IF keep THEN RevertGuards(text, reply.text, history)
                      ELSE IF digits # text THEN RevertGuards(text, digits, history)
                      ELSE base
<1>1. digits \in Texts
  BY CompletedText
<1>2. Good(text, focus, history, RevertGuards(text, reply.text, history))
  BY RevertGood
<1>3. Good(text, focus, history, RevertGuards(text, digits, history))
  <2> HIDE DEF digits
  <2> QED BY <1>1, RevertGood
<1>4. Good(text, focus, history, text)
  BY OwnWords
<1>5. ~keep => base = text
  OBVIOUS
<1>6. ApplyRewriteGuards(text, reply, history, focus) = EnforceFocus(text, guarded, history, focus)
  BY DEF ApplyRewriteGuards
<1> HIDE DEF keep, base, digits
<1>7. Good(text, focus, history, guarded)
  BY <1>2, <1>3, <1>4, <1>5
<1> HIDE DEF guarded
<1> QED BY <1>6, <1>7, EnforcedGood

-----------------------------------------------------------------------------
(* Scoping and binding: the ids a sub-query is about, and the parameters   *)
(* made of them.                                                           *)

LEMMA OwnElements ==
  ASSUME NEW S, NEW s \in Seq(S)
  PROVE  s \in Seq(Sets(s))
<1>1. DOMAIN s = 1 .. Len(s) /\ Len(s) \in Nat
  OBVIOUS
<1>2. \A i \in DOMAIN s : s[i] \in Sets(s)
  BY DEF Sets
<1>3. s \in [1 .. Len(s) -> Sets(s)]
  BY <1>1, <1>2
<1> QED BY <1>1, <1>3

LEMMA ScopeFacts ==
  ASSUME NEW text \in Texts, NEW message, NEW focus, NEW history \in Histories, NEW said,
         \A id \in Ids(text) : Sourced(message, focus, history, said, id)
  PROVE  LET ents == ScopeSubquery(text, focus, history)
         IN ents \in Seq(Sets(ents)) /\ \A i \in DOMAIN ents : Sourced(message, focus, history, said, ents[i])
<1> DEFINE ents == ScopeSubquery(text, focus, history)
           seen == ExtractFocusFromHistory(history)
<1>1. Entities(text) \in Seq(Ids(text)) /\ seen \in {NoId} \cup AllHistoryIds(history)
  BY EntitiesFacts, SeenFacts
<1>2. ents = Entities(text) \/ (focus # NoId /\ ents = <<focus>>) \/ (seen # NoId /\ ents = <<seen>>) \/ ents = <<>>
  BY Zenon DEF ScopeSubquery
<1> HIDE DEF ents, seen
<1>3. CASE ents = Entities(text)
  <2>1. ents \in Seq(Sets(ents))
    BY <1>1, <1>3, OwnElements
  <2>2. \A i \in DOMAIN ents : ents[i] \in Ids(text)
    BY <1>1, <1>3
  <2> QED BY <2>1, <2>2 DEF ents
<1>4. CASE focus # NoId /\ ents = <<focus>>
  <2>1. ents \in Seq({focus}) /\ DOMAIN ents = {1} /\ ents[1] = focus
    BY <1>4
  <2>2. ents \in Seq(Sets(ents))
    BY <2>1, OwnElements
  <2>3. Sourced(message, focus, history, said, focus)
    BY <1>4 DEF Sourced
  <2> QED BY <2>1, <2>2, <2>3 DEF ents
<1>5. CASE seen # NoId /\ ents = <<seen>>
  <2>1. ents \in Seq({seen}) /\ DOMAIN ents = {1} /\ ents[1] = seen
    BY <1>5
  <2>2. ents \in Seq(Sets(ents))
    BY <2>1, OwnElements
  <2>3. Sourced(message, focus, history, said, seen)
    BY <1>1, <1>5 DEF Sourced
  <2> QED BY <2>1, <2>2, <2>3 DEF ents
<1>6. CASE ents = <<>>
  <2>1. ents \in Seq(Sets(ents)) /\ DOMAIN ents = {}
    BY <1>6
  <2> QED BY <2>1 DEF ents
<1> QED BY <1>2, <1>3, <1>4, <1>5, <1>6

(* A parameter bound to a record is bound to one of the ids in scope. *)
LEMMA BindFacts ==
  ASSUME NEW reg, NEW a, NEW S, NEW ents \in Seq(S),
         NEW f \in EntityFields \cap DOMAIN ChatBind(reg, a, ents)
  PROVE  \E i \in DOMAIN ents : ChatBind(reg, a, ents)[f] = ents[i]
<1> DEFINE card == reg[a]
           bound == BindFastPathFields(card, ents)
           e == FirstCompatible(card, ents)
           fit(p) == {i \in DOMAIN ents : Service(ents[i]) \in ParamAccepts[p]}
           open == {p \in card.toolParams \cap EntityFields : p \notin DOMAIN bound /\ fit(p) # {}}
           full == [p \in open \cup DOMAIN bound |->
                      IF p \in open THEN AtPositions(ents, fit(p))[1] ELSE bound[p]]
<1>1. ChatBind(reg, a, ents) \in {<<>>, full}
  BY Zenon DEF ChatBind, BindToolParams
<1>2. ChatBind(reg, a, ents) = full
  <2>1. DOMAIN ChatBind(reg, a, ents) # {}
    OBVIOUS
  <2>2. ChatBind(reg, a, ents) # <<>>
    BY <2>1
  <2> QED BY <1>1, <2>2
<1>3. "service_id" \notin EntityFields
  BY DEF EntityFields
<1>4. ASSUME f \in DOMAIN bound PROVE \E i \in DOMAIN ents : bound[f] = ents[i]
  <2> DEFINE ok == {i \in DOMAIN ents : card.services = {} \/ Service(ents[i]) \in card.services}
             names == {card.fields[i].name : i \in DOMAIN card.fields}
             derived == {card.fields[i].name : i \in {j \in DOMAIN card.fields :
                           card.fields[j].from \in names \cap EntityFields /\ card.fields[j].name = "service_id"}}
             binds == [x \in (names \cap EntityFields) \cup derived |-> IF x = "service_id" THEN Service(e) ELSE e]
  <2>1. bound = IF e = NoId THEN <<>> ELSE binds
    BY DEF BindFastPathFields
  <2> HIDE DEF names, derived
  <2>2. e # NoId /\ bound = binds
    <3>1. bound # <<>>
      <4>1. DOMAIN bound # {}
        BY <1>4
      <4> QED BY <4>1
    <3> QED BY <2>1, <3>1
  <2>3. bound[f] = e
    <3>1. f # "service_id"
      BY <1>3
    <3> HIDE DEF e
    <3>2. f \in DOMAIN binds
      BY <1>4, <2>2
    <3> QED BY <2>2, <3>1, <3>2
  <2>4. e = IF ok = {} THEN NoId ELSE AtPositions(ents, ok)[1]
    BY DEF FirstCompatible
  <2>5. ok \in SUBSET DOMAIN ents
    OBVIOUS
  <2> HIDE DEF ok, e
  <2>6. ok # {} /\ e = AtPositions(ents, ok)[1]
    BY <2>2, <2>4
  <2>7. \E i \in ok : AtPositions(ents, ok)[1] = ents[i]
    BY <2>5, <2>6, FirstKept
  <2> QED BY <2>3, <2>5, <2>6, <2>7
<1>5. ASSUME f \in open PROVE \E i \in DOMAIN ents : full[f] = ents[i]
  <2>1. fit(f) # {} /\ fit(f) \in SUBSET DOMAIN ents
    BY <1>5
  <2>2. full[f] = AtPositions(ents, fit(f))[1]
    <3> HIDE DEF open
    <3> QED BY <1>5
  <2> HIDE DEF fit
  <2>3. \E i \in fit(f) : AtPositions(ents, fit(f))[1] = ents[i]
    BY <2>1, FirstKept
  <2> HIDE DEF full
  <2> QED BY <2>1, <2>2, <2>3
<1>6. ASSUME f \in DOMAIN bound, f \notin open PROVE full[f] = bound[f]
  <2> HIDE DEF open, bound
  <2> QED BY <1>6
<1>7. f \in open \cup DOMAIN bound
  <2> HIDE DEF open, bound, fit
  <2> QED BY <1>2
<1> HIDE DEF full, open, bound
<1> QED BY <1>2, <1>4, <1>5, <1>6, <1>7

-----------------------------------------------------------------------------
(* The splitter's clean-up keeps the words of the sub-queries. *)
SaysFrom(subs, T) == subs \in Seq(Sets(subs)) /\ \A i \in DOMAIN subs : subs[i].text \in T

LEMMA DedupSays ==
  ASSUME NEW T, NEW subs, SaysFrom(subs, T)
  PROVE  SaysFrom(DedupByText(subs), T)
<1> DEFINE kept == {i \in DOMAIN subs : \A j \in 1 .. (i - 1) : subs[j].text # subs[i].text}
           S == {subs[i] : i \in kept}
           out == AtPositions(subs, kept)
<1>1. subs \in Seq(Sets(subs)) /\ kept \in SUBSET DOMAIN subs
  BY DEF SaysFrom
<1>2. DedupByText(subs) = out
  BY DEF DedupByText
<1>3. \A x \in S : x.text \in T
  BY DEF SaysFrom
<1>4. \A i \in kept : subs[i] \in S
  OBVIOUS
<1> HIDE DEF kept, S
<1>5. out \in Seq(S)
  BY <1>1, <1>4, PartFacts
<1> HIDE DEF out
<1>6. out \in Seq(Sets(out)) /\ \A i \in DOMAIN out : out[i] \in S
  BY <1>5, OwnElements
<1> QED BY <1>2, <1>3, <1>6 DEF SaysFrom

LEMMA RollupSays ==
  ASSUME NEW T, NEW subs, SaysFrom(subs, T)
  PROVE  SaysFrom(DropRollup(subs), T)
<1> DEFINE n == Len(subs)
           front == [i \in 1 .. (n - 1) |-> subs[i]]
<1>1. subs \in Seq(Sets(subs)) /\ n \in Nat /\ DOMAIN subs = 1 .. n
  BY DEF SaysFrom
<1>2. DropRollup(subs) = subs \/ (n >= 4 /\ DropRollup(subs) = Front(subs))
  BY Zenon DEF DropRollup
<1>3. ASSUME n >= 4 PROVE SaysFrom(Front(subs), T)
  <2>1. Front(subs) = SubSeq(subs, 1, n - 1)
    BY DEF Front
  <2>2. n - 1 \in 1 .. n /\ n - 1 \in Nat
    BY <1>1, <1>3
  <2>3. SubSeq(subs, 1, n - 1) \in Seq(Sets(subs)) /\ DOMAIN SubSeq(subs, 1, n - 1) = 1 .. (n - 1)
    BY <1>1, <2>2
  <2>4. \A i \in 1 .. (n - 1) : SubSeq(subs, 1, n - 1)[i] = subs[i] /\ i \in DOMAIN subs
    BY <1>1, <2>2
  <2>5. SubSeq(subs, 1, n - 1) \in Seq(Sets(SubSeq(subs, 1, n - 1)))
    BY <2>3, OwnElements
  <2> QED BY <2>1, <2>3, <2>4, <2>5 DEF SaysFrom
<1> QED BY <1>2, <1>3

LEMMA RemapSays ==
  ASSUME NEW T, NEW subs, SaysFrom(subs, T)
  PROVE  SaysFrom(Remap(subs), T)
<1> DEFINE out == Remap(subs)
           S == {out[i] : i \in DOMAIN subs}
<1>1. DOMAIN subs = 1 .. Len(subs) /\ Len(subs) \in Nat
  BY DEF SaysFrom
<1>2. out = [i \in DOMAIN subs |-> out[i]] /\ \A i \in DOMAIN subs : out[i].text = subs[i].text
  BY DEF Remap
<1> HIDE DEF out
<1>3. out \in [1 .. Len(subs) -> S]
  BY <1>1, <1>2
<1> HIDE DEF S
<1>4. out \in Seq(S)
  BY <1>1, <1>3
<1>5. out \in Seq(Sets(out))
  BY <1>4, OwnElements
<1> QED BY <1>2, <1>5 DEF SaysFrom, out

LEMMA DecomposeFacts ==
  ASSUME NEW T, NEW text \in T, NEW reply \in Seq(SubQueries), \A i \in DOMAIN reply : reply[i].text \in T
  PROVE  SaysFrom(Decompose(text, reply), T) /\ Decompose(text, reply) # <<>>
<1> DEFINE raw == [i \in DOMAIN reply |-> [reply[i] EXCEPT !.binds = ParseBindings(reply[i])]]
           clean == Sanitize(raw)
           S == {raw[i] : i \in DOMAIN reply}
<1>1. DOMAIN reply = 1 .. Len(reply) /\ Len(reply) \in Nat
  OBVIOUS
<1>2. ASSUME NEW i \in DOMAIN reply PROVE raw[i].text = reply[i].text
  <2>1. reply[i] \in SubQueries
    OBVIOUS
  <2> QED BY <2>1 DEF SubQueries
<1>3. SaysFrom(raw, T)
  <2>1. raw \in [1 .. Len(reply) -> S] /\ DOMAIN raw = DOMAIN reply
    BY <1>1
  <2> HIDE DEF raw, S
  <2>2. raw \in Seq(S)
    BY <1>1, <2>1
  <2>3. raw \in Seq(Sets(raw))
    BY <2>2, OwnElements
  <2> QED BY <1>2, <2>1, <2>3 DEF SaysFrom
<1>4. Decompose(text, reply) = IF SelfDependent(raw) \/ SelfDependent(clean) \/ clean = <<>>
                               THEN Passthrough(text) ELSE clean
  BY DEF Decompose
<1> HIDE DEF raw
<1>5. SaysFrom(clean, T)
  <2>1. SaysFrom(Remap(DropRollup(DedupByText(raw))), T)
    BY <1>3, DedupSays, RollupSays, RemapSays
  <2> QED BY <1>3, <2>1, Zenon DEF Sanitize
<1>6. SaysFrom(Passthrough(text), T) /\ Passthrough(text) # <<>>
  <2> DEFINE sub == [id |-> "sq1", text |-> text, deps |-> {}, binds |-> {}]
             p == <<sub>>
  <2>1. Passthrough(text) = p /\ sub.text = text
    BY DEF Passthrough
  <2> HIDE DEF sub
  <2>2. p \in Seq({sub}) /\ DOMAIN p = {1} /\ p[1] = sub /\ p # <<>>
    OBVIOUS
  <2> HIDE DEF p
  <2>3. p \in Seq(Sets(p))
    BY <2>2, OwnElements
  <2> QED BY <2>1, <2>2, <2>3 DEF SaysFrom
<1> HIDE DEF clean
<1> QED BY <1>4, <1>5, <1>6, Zenon

-----------------------------------------------------------------------------
(* Access.  The key of a decision holds every attribute the policy reads.  *)
LEMMA KeyHoldsAll ==
  ASSUME NEW tenant, NEW role, NEW a, NEW card, NEW k,
         k = DecisionKey([tenant |-> tenant, role |-> role], Descriptor(a, card, tenant))
  PROVE  /\ [tenant |-> k[1], role |-> k[2]] = [tenant |-> tenant, role |-> role]
         /\ [id |-> k[3], tenant |-> k[1], tier |-> k[4], cls |-> k[5], audience |-> k[6]]
              = Descriptor(a, card, tenant)
<1>1. k = <<tenant, role, a, card.tier, card.cls, card.audience>>
  BY DEF DecisionKey, Descriptor
<1>2. k[1] = tenant /\ k[2] = role /\ k[3] = a /\ k[4] = card.tier /\ k[5] = card.cls /\ k[6] = card.audience
  BY <1>1
<1> QED BY <1>2 DEF Descriptor

(* An "allow", fresh or from the cache, is the policy's. *)
LEMMA CheckSound ==
  ASSUME DecisionsOK, NEW tenant, NEW role, NEW a, NEW card,
         Check(decisions, [tenant |-> tenant, role |-> role], Descriptor(a, card, tenant)) = "allow"
  PROVE  Reasons([tenant |-> tenant, role |-> role], Descriptor(a, card, tenant)) = {}
<1> DEFINE p == [tenant |-> tenant, role |-> role]
           r == Descriptor(a, card, tenant)
           k == DecisionKey(p, r)
<1>1. Check(decisions, p, r) = IF k \in DOMAIN decisions THEN decisions[k]
                               ELSE IF Reasons(p, r) = {} THEN "allow" ELSE "deny"
  BY DEF Check
<1>2. CASE k \in DOMAIN decisions
  <2>1. decisions[k] = "allow"
    BY <1>1, <1>2
  <2>2. Reasons([tenant |-> k[1], role |-> k[2]],
                [id |-> k[3], tenant |-> k[1], tier |-> k[4], cls |-> k[5], audience |-> k[6]]) = {}
    <3> HIDE DEF k
    <3> QED BY <1>2, <2>1 DEF DecisionsOK
  <2>3. /\ [tenant |-> k[1], role |-> k[2]] = p
        /\ [id |-> k[3], tenant |-> k[1], tier |-> k[4], cls |-> k[5], audience |-> k[6]] = r
    <3> HIDE DEF k
    <3> SUFFICES k = DecisionKey(p, r)
      BY KeyHoldsAll
    <3> QED BY DEF k
  <2> HIDE DEF k, p, r
  <2>4. Reasons(p, r) = {}
    BY <2>2, <2>3
  <2> QED BY <2>4 DEF p, r
<1>3. CASE k \notin DOMAIN decisions
  <2>1. Reasons(p, r) = {}
    <3> HIDE DEF k, p, r
    <3>1. Check(decisions, p, r) = "allow"
      BY DEF p, r
    <3> QED BY <1>1, <1>3, <3>1
  <2> QED BY <2>1
<1> QED BY <1>2, <1>3

(* So the cache stays sound when a decision is added. *)
LEMMA RememberSound ==
  ASSUME DecisionsOK, NEW tenant, NEW role, NEW a, NEW card,
         decisions' = Remember(decisions, [tenant |-> tenant, role |-> role], Descriptor(a, card, tenant))
  PROVE  DecisionsOK'
<1> DEFINE p == [tenant |-> tenant, role |-> role]
           r == Descriptor(a, card, tenant)
           key == DecisionKey(p, r)
           new == [k \in DOMAIN decisions \cup {key} |-> IF k = key THEN Check(decisions, p, r) ELSE decisions[k]]
           fair(k) == Reasons([tenant |-> k[1], role |-> k[2]],
                              [id |-> k[3], tenant |-> k[1], tier |-> k[4], cls |-> k[5], audience |-> k[6]]) = {}
<1>1. decisions' = new
  BY DEF Remember
<1>2. SUFFICES ASSUME NEW k \in DOMAIN decisions \cup {key}, new[k] = "allow" PROVE fair(k)
  <2>1. DOMAIN new = DOMAIN decisions \cup {key}
    OBVIOUS
  <2>2. \A k \in DOMAIN decisions' : decisions'[k] = "allow" => fair(k)
    <3> HIDE DEF new, fair, key
    <3> QED BY <1>1, <1>2, <2>1
  <2> QED BY <2>2 DEF DecisionsOK
<1>3. new[k] = IF k = key THEN Check(decisions, p, r) ELSE decisions[k]
  <2> HIDE DEF key, p, r
  <2> QED OBVIOUS
<1>4. CASE k # key
  <2>1. k \in DOMAIN decisions /\ decisions[k] = "allow"
    <3> HIDE DEF new, key, p, r
    <3> QED BY <1>2, <1>3, <1>4
  <2> QED BY <2>1 DEF DecisionsOK
<1>5. CASE k = key
  <2>1. Check(decisions, p, r) = "allow"
    <3> HIDE DEF new, key, p, r
    <3> QED BY <1>2, <1>3, <1>5
  <2>2. Reasons(p, r) = {}
    BY <2>1, CheckSound
  <2>3. /\ [tenant |-> k[1], role |-> k[2]] = p
        /\ [id |-> k[3], tenant |-> k[1], tier |-> k[4], cls |-> k[5], audience |-> k[6]] = r
    BY <1>5, KeyHoldsAll
  <2> HIDE DEF p, r
  <2> QED BY <2>2, <2>3
<1> QED BY <1>4, <1>5

(* The shape of a fresh turn and of one that has ended. *)
LEMMA IdleFields ==
  /\ DOMAIN Idle = Fields
  /\ Idle.pc = "idle" /\ Idle.surv = <<>> /\ Idle.routes = <<>> /\ Idle.subs = <<>> /\ Idle.focus = NoId
BY DEF Idle, Fields

LEMMA EndFields ==
  ASSUME NEW t, NEW out, NEW plan
  PROVE  /\ DOMAIN End(t, out, plan) = Fields
         /\ End(t, out, plan).pc = "end" /\ End(t, out, plan).surv = <<>>
         /\ End(t, out, plan).ask = turn[t].ask /\ End(t, out, plan).routes = turn[t].routes
         /\ End(t, out, plan).focus = NoId
BY DEF End, Idle, Fields

LEMMA RoutedFields ==
  ASSUME NEW t, DOMAIN turn[t] = Fields, NEW agents, NEW ents
  PROVE  LET r == Routed(t, agents, ents)
         IN /\ DOMAIN r = Fields /\ r.surv = <<>>
            /\ r.ask = turn[t].ask /\ r.focus = turn[t].focus /\ r.key = turn[t].key
            /\ r.subs = Tail(turn[t].subs)
            /\ r.pc = IF Len(turn[t].subs) = 1 THEN "store" ELSE "rewrite"
            /\ r.routes = IF agents = <<>> THEN turn[t].routes
                          ELSE Append(turn[t].routes,
                                 [sq |-> Sub(t).id, agents |-> agents, deps |-> Sub(t).deps, binds |-> Sub(t).binds,
                                  said |-> Sub(t).text, params |-> [a \in Sets(agents) |-> ChatBind(Reg, a, ents)]])
BY DEF Routed, Fields

LEMMA RoutedDrops ==
  ASSUME NEW t, DOMAIN turn[t] = Fields, NEW agents, NEW ents
  PROVE  DOMAIN Routed(t, agents, ents) = Fields /\ Routed(t, agents, ents).surv = <<>>
BY DEF Routed, Fields

LEMMA NoMatchFields ==
  ASSUME NEW t, DOMAIN turn[t] = Fields, NEW denied
  PROVE  LET r == NoMatchFor(t, denied)
             q == Routed(t, <<>>, <<>>)
         IN /\ DOMAIN r = Fields /\ r.surv = q.surv /\ r.ask = q.ask /\ r.focus = q.focus /\ r.key = q.key
            /\ r.subs = q.subs /\ r.pc = q.pc /\ r.routes = q.routes
<1> DEFINE q == Routed(t, <<>>, <<>>)
<1>1. DOMAIN q = Fields
  BY RoutedFields
<1> HIDE DEF q
<1>2. NoMatchFor(t, denied) = [q EXCEPT !.denied = @ \/ denied]
  BY DEF NoMatchFor, q
<1> QED BY <1>1, <1>2 DEF Fields, q

-----------------------------------------------------------------------------
(* A candidate that passes is allowed what the version read says. *)
LEMMA SurvivorAllowed ==
  ASSUME DecisionsOK, NEW t, NEW c, Considered(t, c.agent), Allowed(t, c.agent)
  PROVE  LET s == Survivor(t, c)
         IN Reasons(Principal(t), Descriptor(s.agent, Card[s.agent][s.version], turn[t].ask.tenant)) = {}
<1> DEFINE a == c.agent
<1>1. Survivor(t, c).agent = a /\ Survivor(t, c).version = GetOptional(a)
  BY DEF Survivor
<1>2. Reg[a] = Card[a][GetOptional(a)]
  BY DEF Considered, Reg
<1>3. Check(decisions, [tenant |-> turn[t].ask.tenant, role |-> turn[t].ask.role],
            Descriptor(a, Card[a][GetOptional(a)], turn[t].ask.tenant)) = "allow"
  BY <1>2 DEF Allowed, Principal, Resource
<1>4. Reasons(Principal(t), Descriptor(a, Card[a][GetOptional(a)], turn[t].ask.tenant)) = {}
  BY <1>3, CheckSound DEF Principal
<1> HIDE DEF a
<1> QED BY <1>1, <1>4

(* A turn is replaced by one whose survivors are allowed. *)
LEMMA AccessSet ==
  ASSUME AccessInv, DecisionsOK', NEW t \in Turns, NEW r, Set(t, r), DOMAIN r = Fields, SurvivorsOK(r)
  PROVE  AccessInv'
<1>1. turn' = [turn EXCEPT ![t] = r] /\ DOMAIN turn = Turns
  BY DEF Set, AccessInv
<1>2. DOMAIN turn' = Turns
  BY <1>1
<1>3. ASSUME NEW u \in Turns PROVE DOMAIN turn'[u] = Fields /\ SurvivorsOK(turn'[u])
  <2>1. turn'[u] = r \/ turn'[u] = turn[u]
    BY <1>1
  <2> QED BY <2>1 DEF AccessInv
<1> QED BY <1>2, <1>3 DEF AccessInv, SurvivorsOK

LEMMA NoSurvivors ==
  ASSUME NEW r, r.surv = <<>>
  PROVE  SurvivorsOK(r)
BY DEF SurvivorsOK

LEMMA SameSurvivors ==
  ASSUME AccessInv, NEW t \in Turns, NEW r, r.surv = turn[t].surv, r.ask = turn[t].ask
  PROVE  SurvivorsOK(r)
<1>1. SurvivorsOK(turn[t])
  BY DEF AccessInv
<1> QED BY <1>1 DEF SurvivorsOK

LEMMA SameDecisions ==
  ASSUME AccessInv, UNCHANGED decisions
  PROVE  DecisionsOK'
BY DEF AccessInv, DecisionsOK

(* One lemma per kind of step: a stage of a turn that leaves the survivors *)
(* alone or drops them, the funnel, and the steps of nobody's turn.        *)
LEMMA AccessQuiet ==
  ASSUME AccessInv, NEW t \in Turns, UNCHANGED decisions, NEW r, Set(t, r), DOMAIN r = Fields,
         r.surv = <<>> \/ (r.surv = turn[t].surv /\ r.ask = turn[t].ask)
  PROVE  AccessInv'
<1>1. SurvivorsOK(r)
  BY NoSurvivors, SameSurvivors
<1> QED BY <1>1, AccessSet, SameDecisions

LEMMA AccessEnd ==
  ASSUME AccessInv, NEW t \in Turns, UNCHANGED decisions, NEW out, NEW plan, Set(t, End(t, out, plan))
  PROVE  AccessInv'
BY EndFields, AccessQuiet

(* A candidate less, and perhaps a survivor more. *)
LEMMA FilteredAllowed ==
  ASSUME AccessInv, NEW t \in Turns, NEW c
  PROVE  LET r == Filtered(t, c) IN DOMAIN r = Fields /\ SurvivorsOK(r)
<1> DEFINE rest == [turn[t] EXCEPT !.cands = Tail(@)]
           s == Survivor(t, c)
           more == [rest EXCEPT !.surv = Append(@, s)]
           less == [rest EXCEPT !.refused = TRUE]
           r == Filtered(t, c)
<1>1. DOMAIN turn[t] = Fields /\ SurvivorsOK(turn[t]) /\ DecisionsOK
  BY DEF AccessInv
<1>2. r = rest \/ r = less \/ (r = more /\ Considered(t, c.agent) /\ Allowed(t, c.agent))
  BY Zenon DEF Filtered
<1>3. /\ DOMAIN rest = Fields /\ rest.surv = turn[t].surv /\ rest.ask = turn[t].ask
      /\ DOMAIN less = Fields /\ less.surv = turn[t].surv /\ less.ask = turn[t].ask
      /\ DOMAIN more = Fields /\ more.surv = Append(turn[t].surv, s) /\ more.ask = turn[t].ask
  <2> HIDE DEF s
  <2> QED BY <1>1 DEF Fields
<1> HIDE DEF rest, less, more, s, r
<1>4. SUFFICES DOMAIN r = Fields /\ SurvivorsOK(r)
  BY DEF r
<1>5. CASE r = rest \/ r = less
  BY <1>3, <1>5, SameSurvivors
<1>6. CASE r = more /\ Considered(t, c.agent) /\ Allowed(t, c.agent)
  <2>1. Reasons(Principal(t), Descriptor(s.agent, Card[s.agent][s.version], turn[t].ask.tenant)) = {}
    BY <1>1, <1>6, SurvivorAllowed DEF s
  <2> DEFINE old == turn[t].surv
             new == Append(old, s)
             S == Sets(old) \cup {s}
  <2>2. old \in Seq(Sets(old)) /\ \A i \in DOMAIN old :
          Reasons(Principal(t), Descriptor(old[i].agent, Card[old[i].agent][old[i].version], turn[t].ask.tenant)) = {}
    BY <1>1 DEF SurvivorsOK, Principal
  <2> HIDE DEF old
  <2>3. new \in Seq(S) /\ \A i \in DOMAIN new : (i \in DOMAIN old /\ new[i] = old[i]) \/ new[i] = s
    BY <2>2
  <2>4. \A i \in DOMAIN new :
          Reasons(Principal(t), Descriptor(new[i].agent, Card[new[i].agent][new[i].version], turn[t].ask.tenant)) = {}
    <3> HIDE DEF new
    <3> QED BY <2>1, <2>2, <2>3
  <2> HIDE DEF S
  <2>5. new \in Seq(Sets(new))
    BY <2>3, OwnElements
  <2>6. r.surv = new /\ r.ask = turn[t].ask
    BY <1>3, <1>6 DEF old
  <2> HIDE DEF new
  <2>7. SurvivorsOK(r)
    BY <2>4, <2>5, <2>6 DEF SurvivorsOK, Principal
  <2> QED BY <1>3, <1>6, <2>7
<1> QED BY <1>2, <1>5, <1>6

(* What is left of a turn when its last candidate is filtered. *)
LEMMA AfterFilterKinds ==
  ASSUME NEW t, NEW r
  PROVE  \/ \E denied : AfterFilter(t, r) = NoMatchFor(t, denied)
         \/ \E agents : AfterFilter(t, r) = Routed(t, agents, Scoped(t))
         \/ AfterFilter(t, r) = [r EXCEPT !.pc = "pick"]
BY Zenon DEF AfterFilter

LEMMA AccessRetrieve ==
  ASSUME AccessInv, NEW t \in Turns, Retrieve(t)
  PROVE  AccessInv'
<1>0. DOMAIN turn[t] = Fields
  BY DEF AccessInv
<1>1. \/ Set(t, NoMatchFor(t, FALSE))
      \/ \E cands : Set(t, [turn[t] EXCEPT !.pc = "filter", !.cands = cands])
  BY Zenon DEF Retrieve
<1>2. UNCHANGED decisions
  BY DEF Retrieve
<1>3. DOMAIN NoMatchFor(t, FALSE) = Fields /\ NoMatchFor(t, FALSE).surv = <<>>
  <2>1. Routed(t, <<>>, <<>>).surv = <<>>
    BY <1>0, RoutedDrops
  <2> QED BY <1>0, <2>1, NoMatchFields
<1>4. \A cands : LET r == [turn[t] EXCEPT !.pc = "filter", !.cands = cands]
                 IN DOMAIN r = Fields /\ r.surv = turn[t].surv /\ r.ask = turn[t].ask
  BY <1>0 DEF Fields
<1> QED BY <1>1, <1>2, <1>3, <1>4, AccessQuiet

LEMMA AccessFilter ==
  ASSUME AccessInv, NEW t \in Turns, Filter(t)
  PROVE  AccessInv'
<1> DEFINE c == Head(turn[t].cands)
           f == Filtered(t, c)
           r == IF f.cands = <<>> THEN AfterFilter(t, f) ELSE f
           p == [tenant |-> turn[t].ask.tenant, role |-> turn[t].ask.role]
<1>1. /\ decisions' = IF Considered(t, c.agent) THEN Remember(decisions, Principal(t), Resource(t, c.agent)) ELSE decisions
      /\ Set(t, r)
  BY Zenon DEF Filter
<1>2. DecisionsOK /\ DOMAIN turn[t] = Fields
  BY DEF AccessInv
<1>3. DecisionsOK'
  <2>1. Principal(t) = p /\ Resource(t, c.agent) = Descriptor(c.agent, Reg[c.agent], turn[t].ask.tenant)
    BY DEF Principal, Resource
  <2>2. CASE Considered(t, c.agent)
    BY <1>1, <1>2, <2>1, <2>2, RememberSound
  <2>3. CASE ~Considered(t, c.agent)
    BY <1>1, <2>3, SameDecisions
  <2> QED BY <2>2, <2>3
<1>4. DOMAIN f = Fields /\ SurvivorsOK(f)
  BY FilteredAllowed
<1> HIDE DEF c, f
<1>5. DOMAIN r = Fields /\ SurvivorsOK(r)
  <2>1. CASE f.cands # <<>>
    BY <1>4, <2>1
  <2>2. CASE f.cands = <<>>
    <3>1. r = AfterFilter(t, f)
      BY <2>2
    <3>2. CASE \E denied : r = NoMatchFor(t, denied)
      <4>1. PICK denied : r = NoMatchFor(t, denied)
        BY <3>2
      <4> HIDE DEF r
      <4>2. DOMAIN r = Fields /\ r.surv = Routed(t, <<>>, <<>>).surv
        BY <1>2, <4>1, NoMatchFields
      <4>3. Routed(t, <<>>, <<>>).surv = <<>>
        BY <1>2, RoutedDrops
      <4> QED BY <4>2, <4>3, NoSurvivors
    <3>3. CASE \E agents : r = Routed(t, agents, Scoped(t))
      <4>1. PICK agents : r = Routed(t, agents, Scoped(t))
        BY <3>3
      <4> HIDE DEF r
      <4>2. DOMAIN r = Fields /\ r.surv = <<>>
        BY <1>2, <4>1, RoutedDrops
      <4> QED BY <4>2, NoSurvivors
    <3>4. CASE r = [f EXCEPT !.pc = "pick"]
      <4> HIDE DEF r
      <4>1. DOMAIN r = Fields /\ r.surv = f.surv /\ r.ask = f.ask
        BY <1>4, <3>4 DEF Fields
      <4> QED BY <1>4, <4>1 DEF SurvivorsOK
    <3> QED BY <3>1, <3>2, <3>3, <3>4, AfterFilterKinds
  <2> QED BY <2>1, <2>2
<1> HIDE DEF r
<1> QED BY <1>1, <1>3, <1>5, AccessSet

LEMMA AccessBegin ==
  ASSUME AccessInv, NEW t \in Turns, Begin(t)
  PROVE  AccessInv'
<1>1. PICK a \in Asks(t) : Set(t, [Idle EXCEPT !.pc = "focus", !.ask = a, !.focus = a.focus])
  BY DEF Begin
<1> DEFINE r == [Idle EXCEPT !.pc = "focus", !.ask = a, !.focus = a.focus]
<1>2. Set(t, r) /\ DOMAIN r = Fields /\ r.surv = <<>>
  BY <1>1 DEF Idle, Fields
<1>3. UNCHANGED decisions
  BY DEF Begin
<1> HIDE DEF r
<1> QED BY <1>2, <1>3, AccessQuiet, Zenon

(* The stages before the funnel. *)
LEMMA AccessEntry ==
  ASSUME AccessInv, NEW t \in Turns,
         UpdateFocus(t) \/ ControlGate(t) \/ FastPath(t) \/ ForcedDispatch(t) \/ EnterRoute(t)
  PROVE  AccessInv'
<1>0. DOMAIN turn[t] = Fields
  BY DEF AccessInv
<1>1. CASE UpdateFocus(t)
  <2>1. PICK f, pc : Set(t, [turn[t] EXCEPT !.focus = f, !.pc = pc])
    BY <1>1, Zenon DEF UpdateFocus
  <2>2. UNCHANGED decisions
    BY <1>1 DEF UpdateFocus
  <2>3. LET r == [turn[t] EXCEPT !.focus = f, !.pc = pc]
        IN DOMAIN r = Fields /\ r.surv = turn[t].surv /\ r.ask = turn[t].ask
    BY <1>0 DEF Fields
  <2> QED BY <2>1, <2>2, <2>3, AccessQuiet
<1>2. CASE ControlGate(t)
  <2>1. PICK said \in Labels.control :
          Set(t, IF DetectControl(t, said).label \in {"none", "failed"} THEN [turn[t] EXCEPT !.pc = "enter"]
                 ELSE End(t, "control", <<>>))
    BY <1>2, Zenon DEF ControlGate
  <2>2. Set(t, [turn[t] EXCEPT !.pc = "enter"]) \/ Set(t, End(t, "control", <<>>))
    BY <2>1, Zenon
  <2>3. UNCHANGED decisions
    BY <1>2 DEF ControlGate
  <2>4. LET r == [turn[t] EXCEPT !.pc = "enter"]
        IN DOMAIN r = Fields /\ r.surv = turn[t].surv /\ r.ask = turn[t].ask
    BY <1>0 DEF Fields
  <2> QED BY <2>2, <2>3, <2>4, AccessEnd, AccessQuiet
<1>3. CASE FastPath(t)
  <2>1. PICK out, plan : Set(t, End(t, out, plan))
    BY <1>3, Zenon DEF FastPath
  <2>2. UNCHANGED decisions
    BY <1>3 DEF FastPath
  <2> QED BY <2>1, <2>2, AccessEnd
<1>4. CASE ForcedDispatch(t)
  <2>1. PICK out, plan : Set(t, End(t, out, plan))
    BY <1>4, Zenon DEF ForcedDispatch
  <2>2. UNCHANGED decisions
    BY <1>4 DEF ForcedDispatch
  <2> QED BY <2>1, <2>2, AccessEnd
<1>5. CASE EnterRoute(t)
  <2> DEFINE key == RouteCacheKey(t)
             hit == ResultFromCache(t, routeCache[key])
             back == [hit EXCEPT !.key = key]
             missed == [turn[t] EXCEPT !.pc = "split", !.key = key]
  <2>1. Set(t, End(t, "entity_clarification", <<>>)) \/ Set(t, back) \/ Set(t, missed)
    BY <1>5, Zenon DEF EnterRoute
  <2>2. UNCHANGED decisions
    BY <1>5 DEF EnterRoute
  <2> HIDE DEF key
  <2>3. DOMAIN missed = Fields /\ missed.surv = turn[t].surv /\ missed.ask = turn[t].ask
    BY <1>0 DEF Fields
  <2>4. DOMAIN hit = Fields /\ (hit.surv = <<>> \/ (hit.surv = turn[t].surv /\ hit.ask = turn[t].ask))
    <3>1. \/ \E out : hit = End(t, out, <<>>)
          \/ \E plan : hit = [End(t, "routed", plan) EXCEPT !.pc = "scope", !.routes = routeCache[key].routes]
          \/ hit = [turn[t] EXCEPT !.pc = "split"]
      BY Zenon DEF ResultFromCache
    <3>2. CASE \E out : hit = End(t, out, <<>>)
      BY <3>2, EndFields
    <3>3. CASE \E plan : hit = [End(t, "routed", plan) EXCEPT !.pc = "scope", !.routes = routeCache[key].routes]
      <4>1. PICK plan : hit = [End(t, "routed", plan) EXCEPT !.pc = "scope", !.routes = routeCache[key].routes]
        BY <3>3
      <4>2. DOMAIN End(t, "routed", plan) = Fields /\ End(t, "routed", plan).surv = <<>>
        BY EndFields
      <4> DEFINE e == End(t, "routed", plan)
      <4>3. hit = [e EXCEPT !.pc = "scope", !.routes = routeCache[key].routes] /\ DOMAIN e = Fields /\ e.surv = <<>>
        BY <4>1, <4>2
      <4> HIDE DEF e, hit
      <4>4. DOMAIN hit = Fields
        BY <4>3, Zenon
      <4>5. hit.surv = <<>>
        BY <4>3 DEF Fields
      <4> QED BY <4>4, <4>5
    <3>4. CASE hit = [turn[t] EXCEPT !.pc = "split"]
      BY <1>0, <3>4 DEF Fields
    <3> QED BY <3>1, <3>2, <3>3, <3>4
  <2> HIDE DEF hit
  <2>5. DOMAIN back = Fields /\ back.surv = hit.surv /\ back.ask = hit.ask
    BY <2>4 DEF Fields
  <2> HIDE DEF back, missed
  <2> QED BY <2>1, <2>2, <2>3, <2>4, <2>5, AccessEnd, AccessQuiet
<1> QED BY <1>1, <1>2, <1>3, <1>4, <1>5

(* The stages around the funnel and after it. *)
LEMMA AccessRest ==
  ASSUME AccessInv, NEW t \in Turns,
         \/ Split(t) \/ Rewrite(t) \/ RewriteFails(t) \/ RetrieveFails(t) \/ Disambiguates(t)
         \/ RouteCacheStore(t) \/ FinalizeRoute(t) \/ TimeFilter(t)
  PROVE  AccessInv'
<1>0. DOMAIN turn[t] = Fields
  BY DEF AccessInv
<1>1. CASE Split(t)
  <2>1. PICK subs : Set(t, [turn[t] EXCEPT !.pc = "rewrite", !.subs = subs])
    BY <1>1, Zenon DEF Split
  <2>2. UNCHANGED decisions
    BY <1>1 DEF Split
  <2>3. LET r == [turn[t] EXCEPT !.pc = "rewrite", !.subs = subs]
        IN DOMAIN r = Fields /\ r.surv = turn[t].surv /\ r.ask = turn[t].ask
    BY <1>0 DEF Fields
  <2> QED BY <2>1, <2>2, <2>3, AccessQuiet
<1>2. CASE Rewrite(t) \/ RewriteFails(t)
  <2>1. PICK text : Set(t, [turn[t] EXCEPT !.pc = "funnel", !.text = text])
    BY <1>2, Zenon DEF Rewrite, RewriteFails
  <2>2. UNCHANGED decisions
    BY <1>2 DEF Rewrite, RewriteFails
  <2>3. LET r == [turn[t] EXCEPT !.pc = "funnel", !.text = text]
        IN DOMAIN r = Fields /\ r.surv = turn[t].surv /\ r.ask = turn[t].ask
    BY <1>0 DEF Fields
  <2> QED BY <2>1, <2>2, <2>3, AccessQuiet
<1>3. CASE RetrieveFails(t)
  <2>1. Set(t, End(t, "error", <<>>)) /\ UNCHANGED decisions
    BY <1>3 DEF RetrieveFails
  <2> QED BY <2>1, AccessEnd
<1>4. CASE Disambiguates(t)
  <2>1. Set(t, NoMatchFor(t, FALSE)) \/ \E agents : Set(t, Routed(t, agents, Scoped(t)))
    BY <1>4, Zenon DEF Disambiguates
  <2>2. UNCHANGED decisions
    BY <1>4 DEF Disambiguates
  <2>3. DOMAIN NoMatchFor(t, FALSE) = Fields /\ NoMatchFor(t, FALSE).surv = <<>>
    <3>1. Routed(t, <<>>, <<>>).surv = <<>>
      BY <1>0, RoutedDrops
    <3> QED BY <1>0, <3>1, NoMatchFields
  <2>4. \A agents : DOMAIN Routed(t, agents, Scoped(t)) = Fields /\ Routed(t, agents, Scoped(t)).surv = <<>>
    BY <1>0, RoutedDrops
  <2>5. PICK r : Set(t, r) /\ DOMAIN r = Fields /\ r.surv = <<>>
    BY <2>1, <2>3, <2>4, Zenon
  <2> QED BY <2>2, <2>5, AccessQuiet
<1>5. CASE RouteCacheStore(t)
  <2>1. Set(t, End(t, FinalOutcome(t), <<>>)) \/ Set(t, [turn[t] EXCEPT !.pc = "assemble"])
    BY <1>5, Zenon DEF RouteCacheStore
  <2>2. UNCHANGED decisions
    BY <1>5 DEF RouteCacheStore
  <2>3. LET r == [turn[t] EXCEPT !.pc = "assemble"]
        IN DOMAIN r = Fields /\ r.surv = turn[t].surv /\ r.ask = turn[t].ask
    BY <1>0 DEF Fields
  <2> QED BY <2>1, <2>2, <2>3, AccessEnd, AccessQuiet
<1>6. CASE FinalizeRoute(t)
  <2>1. (\E plan : Set(t, [End(t, "routed", plan) EXCEPT !.pc = "scope"])) \/ Set(t, End(t, "error", <<>>))
    BY <1>6, Zenon DEF FinalizeRoute
  <2>2. UNCHANGED decisions
    BY <1>6 DEF FinalizeRoute
  <2>3. ASSUME NEW plan
        PROVE  LET r == [End(t, "routed", plan) EXCEPT !.pc = "scope"] IN DOMAIN r = Fields /\ r.surv = <<>>
    <3>1. DOMAIN End(t, "routed", plan) = Fields /\ End(t, "routed", plan).surv = <<>>
      BY EndFields
    <3> QED BY <3>1 DEF Fields
  <2>4. CASE Set(t, End(t, "error", <<>>))
    BY <2>2, <2>4, AccessEnd
  <2>5. CASE \E plan : Set(t, [End(t, "routed", plan) EXCEPT !.pc = "scope"])
    <3>1. PICK r : Set(t, r) /\ DOMAIN r = Fields /\ r.surv = <<>>
      BY <2>3, <2>5, Zenon
    <3> QED BY <2>2, <3>1, AccessQuiet
  <2> QED BY <2>1, <2>4, <2>5
<1>7. CASE TimeFilter(t)
  <2>1. (\E w : Set(t, [turn[t] EXCEPT !.pc = "end", !.window = w])) \/ Set(t, [turn[t] EXCEPT !.pc = "end"])
    BY <1>7, Zenon DEF TimeFilter
  <2>2. UNCHANGED decisions
    BY <1>7 DEF TimeFilter
  <2>3. \A w : LET r == [turn[t] EXCEPT !.pc = "end", !.window = w]
               IN DOMAIN r = Fields /\ r.surv = turn[t].surv /\ r.ask = turn[t].ask
    BY <1>0 DEF Fields
  <2>4. LET r == [turn[t] EXCEPT !.pc = "end"]
        IN DOMAIN r = Fields /\ r.surv = turn[t].surv /\ r.ask = turn[t].ask
    BY <1>0 DEF Fields
  <2> QED BY <2>1, <2>2, <2>3, <2>4, AccessQuiet
<1> QED BY <1>1, <1>2, <1>3, <1>4, <1>5, <1>6, <1>7

(* The steps of no turn: the operators', the caches', and none at all. *)
LEMMA AccessOthers ==
  ASSUME AccessInv, UNCHANGED turn, UNCHANGED decisions \/ decisions' = <<>>
  PROVE  AccessInv'
<1>1. DecisionsOK'
  <2>1. CASE UNCHANGED decisions
    BY <2>1, SameDecisions
  <2>2. CASE decisions' = <<>>
    BY <2>2 DEF DecisionsOK
  <2> QED BY <2>1, <2>2
<1> QED BY <1>1 DEF AccessInv, SurvivorsOK

LEMMA AccessStep ==
  ASSUME AccessInv, [Next]_vars
  PROVE  AccessInv'
<1>1. CASE \E t \in Turns : Begin(t)
  BY <1>1, AccessBegin
<1>2. CASE \E t \in Turns : Step(t)
  BY <1>2, AccessEntry, AccessRetrieve, AccessFilter, AccessRest DEF Step
<1>3. CASE RegNext /\ UNCHANGED <<turn, routeCache, decisions, labels, index>>
  BY <1>3, AccessOthers
<1>4. CASE CacheExpires
  <2>1. UNCHANGED turn /\ (UNCHANGED decisions \/ decisions' = <<>>)
    BY <1>4 DEF CacheExpires
  <2> QED BY <2>1, AccessOthers
<1>5. CASE UNCHANGED vars
  BY <1>5, AccessOthers DEF vars
<1> QED BY <1>1, <1>2, <1>3, <1>4, <1>5 DEF Next

(* Whatever the cards, the policy, the edits and the decisions cached, an  *)
(* agent that survives stage 3 is one the policy allows the caller, judged *)
(* by the very version of the card that was read (router.py stage 3,       *)
(* authz/ cached decisions).                                               *)
THEOREM SurvivorsAllowedTheorem == Spec => []SurvivorsAllowed
<1>1. Init => AccessInv
  <2> SUFFICES ASSUME Init PROVE AccessInv
    OBVIOUS
  <2>1. turn = [t \in Turns |-> Idle] /\ decisions = <<>>
    BY DEF Init
  <2>2. SurvivorsOK(Idle) /\ DOMAIN Idle = Fields
    BY IdleFields, NoSurvivors
  <2>3. DecisionsOK
    BY <2>1 DEF DecisionsOK
  <2> QED BY <2>1, <2>2, <2>3 DEF AccessInv
<1>2. AccessInv /\ [Next]_vars => AccessInv'
  BY AccessStep
<1>3. AccessInv => SurvivorsAllowed
  BY DEF AccessInv, SurvivorsOK, SurvivorsAllowed, Principal
<1> QED BY <1>1, <1>2, <1>3, PTL DEF Spec

-----------------------------------------------------------------------------
(* Records.  What the focus accounts for, the request does. *)
LEMMA FocusIsAsked ==
  ASSUME NEW text, NEW focus, NEW asked, NEW history, NEW route,
         focus \in {NoId, asked} \cup Ids(text) \cup AllHistoryIds(history),
         RouteSourced(text, focus, history, route)
  PROVE  RouteSourced(text, asked, history, route)
<1>1. \A said, id : Sourced(text, focus, history, said, id) => Sourced(text, asked, history, said, id)
  BY DEF Sourced
<1> QED BY <1>1 DEF RouteSourced

LEMMA RecordsSet ==
  ASSUME RecordsInv, RouteCacheOK', NEW t \in Turns, NEW r, Set(t, r), RecordsOK(t, r)
  PROVE  RecordsInv'
<1>1. turn' = [turn EXCEPT ![t] = r] /\ DOMAIN turn = Turns
  BY DEF Set, RecordsInv
<1>2. DOMAIN turn' = Turns
  BY <1>1
<1>3. ASSUME NEW u \in Turns PROVE RecordsOK(u, turn'[u])
  <2>1. CASE u = t
    BY <1>1, <2>1
  <2>2. CASE u # t
    <3>1. turn'[u] = turn[u]
      BY <1>1, <2>2
    <3> QED BY <3>1 DEF RecordsInv
  <2> QED BY <2>1, <2>2
<1> QED BY <1>2, <1>3 DEF RecordsInv

LEMMA SameCache ==
  ASSUME RecordsInv, UNCHANGED routeCache \/ routeCache' = <<>>
  PROVE  RouteCacheOK'
<1>1. CASE UNCHANGED routeCache
  BY <1>1 DEF RecordsInv, RouteCacheOK
<1>2. CASE routeCache' = <<>>
  BY <1>2 DEF RouteCacheOK
<1> QED BY <1>1, <1>2

(* What a turn asks is well formed. *)
LEMMA AskedFacts ==
  ASSUME NEW t \in Turns, NEW a \in Asks(t)
  PROVE  /\ a.text \in Texts /\ a.history \in Histories /\ a.focus \in RecordIds
         /\ a \in Asked /\ a.text \in SubTexts
<1>1. a \in Asked
  BY DEF Asked
<1> QED BY <1>1, RouterAssumption DEF SubTexts

LEMMA SubTextsAreTexts == SubTexts \subseteq Texts
<1> SUFFICES ASSUME NEW x \in SubTexts PROVE x \in Texts
  OBVIOUS
<1>1. CASE \E a \in Asked : x = a.text
  BY <1>1, RouterAssumption
<1>2. CASE \E a \in Asked : \E s \in SplitReplies(a.text) : \E i \in DOMAIN s : x = s[i].text
  <2>1. PICK a \in Asked : \E s \in SplitReplies(a.text) : \E i \in DOMAIN s : x = s[i].text
    BY <1>2
  <2>2. PICK s \in SplitReplies(a.text) : \E i \in DOMAIN s : x = s[i].text
    BY <2>1
  <2>3. PICK i \in DOMAIN s : x = s[i].text
    BY <2>2
  <2>4. s \in Seq(SubQueries)
    BY <2>1, <2>2, RouterAssumption
  <2>5. s[i] \in SubQueries
    BY <2>3, <2>4
  <2> QED BY <2>3, <2>5 DEF SubQueries
<1> QED BY <1>1, <1>2 DEF SubTexts

LEMMA AnyTurn ==
  ASSUME RecordsInv, NEW t \in Turns
  PROVE  /\ RecordsOK(t, turn[t]) /\ DOMAIN turn[t] = Fields
         /\ turn[t].pc # "idle" =>
              /\ turn[t].ask \in Asks(t)
              /\ turn[t].ask.text \in Texts /\ turn[t].ask.history \in Histories
              /\ turn[t].focus = NoId \/ turn[t].focus \in RecordIds
<1>1. RecordsOK(t, turn[t])
  BY DEF RecordsInv
<1>2. DOMAIN turn[t] = Fields
  BY <1>1 DEF RecordsOK, TurnOK
<1>3. ASSUME turn[t].pc # "idle"
      PROVE  /\ turn[t].ask \in Asks(t)
             /\ turn[t].ask.text \in Texts /\ turn[t].ask.history \in Histories
             /\ turn[t].focus = NoId \/ turn[t].focus \in RecordIds
  <2>1. /\ turn[t].ask \in Asks(t)
        /\ turn[t].focus \in {NoId, turn[t].ask.focus} \cup Ids(turn[t].ask.text) \cup AllHistoryIds(turn[t].ask.history)
    BY <1>1, <1>3 DEF RecordsOK, TurnOK
  <2>2. turn[t].ask.text \in Texts /\ turn[t].ask.history \in Histories /\ turn[t].ask.focus \in RecordIds
    BY <2>1, AskedFacts
  <2>3. Ids(turn[t].ask.text) \subseteq RecordIds /\ AllHistoryIds(turn[t].ask.history) \subseteq RecordIds
    BY <2>2, IdShape, HistoryShape
  <2> QED BY <2>1, <2>2, <2>3
<1> QED BY <1>1, <1>2, <1>3

(* A turn that ends keeps what it asked and the routes it found. *)
LEMMA EndOK ==
  ASSUME NEW t, RecordsOK(t, turn[t]), turn[t].pc # "idle", NEW r, DOMAIN r = Fields,
         r.pc \in {"scope", "end"}, r.ask = turn[t].ask, r.routes = turn[t].routes,
         r.focus = NoId \/ r.focus = turn[t].focus
  PROVE  RecordsOK(t, r)
<1>1. TurnOK(t, r)
  BY DEF RecordsOK, TurnOK, Entry
<1>2. FunnelOK(r) /\ SubOK(r)
  BY DEF FunnelOK, SubOK, InFunnel, AtSub
<1>3. RoutesKnown(r)
  BY DEF RecordsOK, RoutesKnown
<1> QED BY <1>1, <1>2, <1>3 DEF RecordsOK

LEMMA RecordsEnd ==
  ASSUME RecordsInv, NEW t \in Turns, turn[t].pc # "idle", UNCHANGED routeCache,
         NEW out, NEW plan, Set(t, End(t, out, plan))
  PROVE  RecordsInv'
<1> DEFINE r == End(t, out, plan)
<1>1. DOMAIN r = Fields /\ r.pc = "end" /\ r.ask = turn[t].ask /\ r.routes = turn[t].routes /\ r.focus = NoId
  BY EndFields
<1> HIDE DEF r
<1>2. RecordsOK(t, r)
  BY <1>1, AnyTurn, EndOK
<1>3. Set(t, r)
  BY DEF r
<1> QED BY <1>2, <1>3, RecordsSet, SameCache

(* Before the cache is asked there are no routes. *)
LEMMA RecordsEntering ==
  ASSUME RecordsInv, NEW t \in Turns, UNCHANGED routeCache, NEW r, Set(t, r), DOMAIN r = Fields,
         r.pc \in {"focus", "control", "enter", "fast"}, r.routes = <<>>, r.ask \in Asks(t),
         r.focus \in {NoId, r.ask.focus} \cup Ids(r.ask.text) \cup AllHistoryIds(r.ask.history)
  PROVE  RecordsInv'
<1>1. TurnOK(t, r)
  BY DEF TurnOK
<1>2. FunnelOK(r) /\ SubOK(r)
  BY DEF FunnelOK, SubOK, InFunnel, AtSub
<1>3. RoutesKnown(r)
  BY DEF RoutesKnown
<1>4. RecordsOK(t, r)
  BY <1>1, <1>2, <1>3 DEF RecordsOK
<1> QED BY <1>4, RecordsSet, SameCache

LEMMA RecordsBegin ==
  ASSUME RecordsInv, NEW t \in Turns, Begin(t)
  PROVE  RecordsInv'
<1>1. PICK a \in Asks(t) : Set(t, [Idle EXCEPT !.pc = "focus", !.ask = a, !.focus = a.focus])
  BY DEF Begin
<1> DEFINE r == [Idle EXCEPT !.pc = "focus", !.ask = a, !.focus = a.focus]
<1>2. Set(t, r) /\ DOMAIN r = Fields /\ r.pc = "focus" /\ r.ask = a /\ r.focus = a.focus /\ r.routes = <<>>
  BY <1>1 DEF Idle, Fields
<1>3. UNCHANGED routeCache
  BY DEF Begin
<1> HIDE DEF r
<1> QED BY <1>2, <1>3, RecordsEntering

LEMMA RecordsUpdateFocus ==
  ASSUME RecordsInv, NEW t \in Turns, UpdateFocus(t)
  PROVE  RecordsInv'
<1> DEFINE ask == turn[t].ask
           f(label) == ApplyFocusIntent(ResolveFocus(ask.text, ask.focus, ask.history), label)
<1>1. turn[t].pc = "focus" /\ UNCHANGED routeCache
  BY DEF UpdateFocus
<1>2. /\ DOMAIN turn[t] = Fields /\ ask \in Asks(t) /\ ask.text \in Texts /\ ask.history \in Histories
      /\ turn[t].routes = <<>>
  BY <1>1, AnyTurn DEF RecordsOK, TurnOK, Entry
<1>3. PICK label :
        Set(t, [turn[t] EXCEPT !.focus = f(label), !.pc = IF ask.door = "fast" THEN "fast" ELSE "control"])
  BY Zenon DEF UpdateFocus
<1>4. f(label) \in {NoId, ask.focus} \cup Ids(ask.text) \cup AllHistoryIds(ask.history)
  BY <1>2, FocusFacts
<1> HIDE DEF f
<1> DEFINE r == [turn[t] EXCEPT !.focus = f(label), !.pc = IF ask.door = "fast" THEN "fast" ELSE "control"]
<1>5. /\ Set(t, r) /\ DOMAIN r = Fields /\ r.pc \in {"fast", "control"} /\ r.focus = f(label)
      /\ r.ask = ask /\ r.routes = turn[t].routes
  BY <1>2, <1>3 DEF Fields
<1> HIDE DEF r
<1> QED BY <1>1, <1>2, <1>4, <1>5, RecordsEntering

LEMMA RecordsControl ==
  ASSUME RecordsInv, NEW t \in Turns, ControlGate(t)
  PROVE  RecordsInv'
<1>1. turn[t].pc = "control" /\ UNCHANGED routeCache
  BY DEF ControlGate
<1>2. Set(t, [turn[t] EXCEPT !.pc = "enter"]) \/ Set(t, End(t, "control", <<>>))
  BY Zenon DEF ControlGate
<1>3. CASE Set(t, End(t, "control", <<>>))
  BY <1>1, <1>3, RecordsEnd
<1>4. CASE Set(t, [turn[t] EXCEPT !.pc = "enter"])
  <2> DEFINE r == [turn[t] EXCEPT !.pc = "enter"]
  <2>1. /\ DOMAIN turn[t] = Fields /\ turn[t].ask \in Asks(t) /\ turn[t].routes = <<>>
        /\ turn[t].focus \in {NoId, turn[t].ask.focus} \cup Ids(turn[t].ask.text) \cup AllHistoryIds(turn[t].ask.history)
    BY <1>1, AnyTurn DEF RecordsOK, TurnOK, Entry
  <2>2. /\ Set(t, r) /\ DOMAIN r = Fields /\ r.pc = "enter" /\ r.focus = turn[t].focus
        /\ r.ask = turn[t].ask /\ r.routes = turn[t].routes
    BY <1>4, <2>1 DEF Fields
  <2> HIDE DEF r
  <2> QED BY <1>1, <2>1, <2>2, RecordsEntering
<1> QED BY <1>2, <1>3, <1>4

LEMMA RecordsDoors ==
  ASSUME RecordsInv, NEW t \in Turns, FastPath(t) \/ ForcedDispatch(t) \/ RetrieveFails(t)
  PROVE  RecordsInv'
<1>1. turn[t].pc # "idle" /\ UNCHANGED routeCache
  BY DEF FastPath, ForcedDispatch, RetrieveFails
<1>2. PICK out, plan : Set(t, End(t, out, plan))
  BY Zenon DEF FastPath, ForcedDispatch, RetrieveFails
<1> QED BY <1>1, <1>2, RecordsEnd

(* route: the key accounts for everything a cached route is about. *)
LEMMA RecordsEnter ==
  ASSUME RecordsInv, NEW t \in Turns, EnterRoute(t)
  PROVE  RecordsInv'
<1> DEFINE key == RouteCacheKey(t)
           hit == ResultFromCache(t, routeCache[key])
           back == [hit EXCEPT !.key = key]
           missed == [turn[t] EXCEPT !.pc = "split", !.key = key]
           found == routeCache[key].routes
<1>1. turn[t].pc = "enter" /\ UNCHANGED routeCache
  BY DEF EnterRoute
<1>2. \/ Set(t, End(t, "entity_clarification", <<>>))
      \/ key \in DOMAIN routeCache /\ Set(t, back)
      \/ Set(t, missed)
  BY Zenon DEF EnterRoute
<1>3. /\ DOMAIN turn[t] = Fields /\ turn[t].ask \in Asks(t) /\ turn[t].routes = <<>>
      /\ turn[t].focus \in {NoId, turn[t].ask.focus} \cup Ids(turn[t].ask.text) \cup AllHistoryIds(turn[t].ask.history)
  BY <1>1, AnyTurn DEF RecordsOK, TurnOK, Entry
<1>4. key[1] = turn[t].ask.text /\ key[3] = turn[t].focus /\ key[5] = turn[t].ask.history
  BY DEF RouteCacheKey, ConversationDigest
<1> HIDE DEF key
<1>5. CASE Set(t, End(t, "entity_clarification", <<>>))
  BY <1>1, <1>5, RecordsEnd
<1>6. ASSUME NEW r, Set(t, r), DOMAIN r = Fields, r.pc = "split", r.key = key, r.routes = <<>>,
             r.ask = turn[t].ask, r.focus = turn[t].focus
      PROVE  RecordsInv'
  <2>1. TurnOK(t, r)
    BY <1>3, <1>6 DEF TurnOK
  <2>2. FunnelOK(r)
    <3>1. <<>> \in Seq(Sets(<<>>)) /\ DOMAIN <<>> = {}
      OBVIOUS
    <3> QED BY <1>4, <1>6, <3>1 DEF FunnelOK
  <2>3. SubOK(r) /\ RoutesKnown(r)
    BY <1>6 DEF SubOK, AtSub, RoutesKnown
  <2>4. RecordsOK(t, r)
    BY <2>1, <2>2, <2>3 DEF RecordsOK
  <2> QED BY <1>1, <1>6, <2>4, RecordsSet, SameCache
<1>7. CASE Set(t, missed)
  <2>1. /\ DOMAIN missed = Fields /\ missed.pc = "split" /\ missed.key = key /\ missed.routes = <<>>
        /\ missed.ask = turn[t].ask /\ missed.focus = turn[t].focus
    BY <1>3 DEF Fields
  <2> HIDE DEF missed
  <2> QED BY <1>6, <1>7, <2>1
<1>8. CASE key \in DOMAIN routeCache /\ Set(t, back)
  <2>1. \/ \E out : hit = End(t, out, <<>>)
        \/ \E plan : hit = [End(t, "routed", plan) EXCEPT !.pc = "scope", !.routes = found]
        \/ hit = [turn[t] EXCEPT !.pc = "split"]
    BY Zenon DEF ResultFromCache, DeserializeRoutes
  <2>2. CASE \E out : hit = End(t, out, <<>>)
    <3>1. PICK out : hit = End(t, out, <<>>)
      BY <2>2
    <3>2. /\ DOMAIN hit = Fields /\ hit.pc = "end" /\ hit.ask = turn[t].ask /\ hit.routes = turn[t].routes
          /\ hit.focus = NoId
      BY <3>1, EndFields
    <3> HIDE DEF hit
    <3>3. /\ DOMAIN back = Fields /\ back.pc = "end" /\ back.ask = turn[t].ask /\ back.routes = turn[t].routes
          /\ back.focus = NoId
      BY <3>2 DEF Fields
    <3> HIDE DEF back
    <3>4. RecordsOK(t, back)
      BY <1>1, <3>3, AnyTurn, EndOK
    <3> QED BY <1>1, <1>8, <3>4, RecordsSet, SameCache
  <2>3. CASE \E plan : hit = [End(t, "routed", plan) EXCEPT !.pc = "scope", !.routes = found]
    <3>1. PICK plan : hit = [End(t, "routed", plan) EXCEPT !.pc = "scope", !.routes = found]
      BY <2>3
    <3> DEFINE e == End(t, "routed", plan)
    <3>2. DOMAIN e = Fields /\ e.ask = turn[t].ask /\ e.focus = NoId
      BY EndFields
    <3>3. hit = [e EXCEPT !.pc = "scope", !.routes = found]
      BY <3>1
    <3> HIDE DEF e, hit, found
    <3>4. /\ DOMAIN hit = Fields /\ hit.pc = "scope" /\ hit.ask = turn[t].ask /\ hit.routes = found
          /\ hit.focus = NoId
      BY <3>2, <3>3 DEF Fields
    <3>5. /\ DOMAIN back = Fields /\ back.pc = "scope" /\ back.ask = turn[t].ask /\ back.routes = found
          /\ back.focus = NoId
      BY <3>4 DEF Fields
    <3> HIDE DEF back
    <3>6. TurnOK(t, back) /\ FunnelOK(back) /\ SubOK(back)
      BY <1>3, <3>5 DEF TurnOK, FunnelOK, SubOK, InFunnel, AtSub, Entry
    <3>7. RoutesKnown(back)
      <4> SUFFICES ASSUME NEW i \in DOMAIN found
                   PROVE  RouteSourced(turn[t].ask.text, turn[t].ask.focus, turn[t].ask.history, found[i])
        BY <3>5 DEF RoutesKnown
      <4>1. RouteSourced(key[1], key[3], key[5], found[i])
        BY <1>8 DEF RecordsInv, RouteCacheOK, found
      <4>2. RouteSourced(turn[t].ask.text, turn[t].focus, turn[t].ask.history, found[i])
        BY <1>4, <4>1
      <4> QED BY <1>3, <4>2, FocusIsAsked
    <3>8. RecordsOK(t, back)
      BY <3>6, <3>7 DEF RecordsOK
    <3> QED BY <1>1, <1>8, <3>8, RecordsSet, SameCache
  <2>4. CASE hit = [turn[t] EXCEPT !.pc = "split"]
    <3>1. /\ DOMAIN back = Fields /\ back.pc = "split" /\ back.key = key /\ back.routes = <<>>
          /\ back.ask = turn[t].ask /\ back.focus = turn[t].focus
      BY <1>3, <2>4 DEF Fields
    <3> HIDE DEF back
    <3> QED BY <1>6, <1>8, <3>1
  <2> QED BY <2>1, <2>2, <2>3, <2>4
<1> QED BY <1>2, <1>5, <1>7, <1>8

(* Inside the funnel a turn keeps its request, its focus and its key. *)
LEMMA InsideOK ==
  ASSUME NEW t, RecordsOK(t, turn[t]), turn[t].pc \in InFunnel, NEW r, DOMAIN r = Fields,
         r.pc \in InFunnel, r.ask = turn[t].ask, r.focus = turn[t].focus, r.key = turn[t].key,
         r.routes \in Seq(Sets(r.routes)),
         \A i \in DOMAIN r.routes : RouteSourced(r.ask.text, r.focus, r.ask.history, r.routes[i]),
         SubOK(r)
  PROVE  RecordsOK(t, r)
<1>1. turn[t].pc # "idle"
  BY DEF InFunnel
<1>2. TurnOK(t, r)
  BY <1>1 DEF RecordsOK, TurnOK, InFunnel, Entry
<1>3. FunnelOK(r)
  BY DEF RecordsOK, FunnelOK
<1>4. RoutesKnown(r)
  <2> SUFFICES ASSUME NEW i \in DOMAIN r.routes
               PROVE  RouteSourced(r.ask.text, r.ask.focus, r.ask.history, r.routes[i])
    BY DEF RoutesKnown
  <2>1. r.focus \in {NoId, r.ask.focus} \cup Ids(r.ask.text) \cup AllHistoryIds(r.ask.history)
    BY <1>1 DEF RecordsOK, TurnOK
  <2> QED BY <2>1, FocusIsAsked
<1> QED BY <1>2, <1>3, <1>4 DEF RecordsOK

(* The same, for a step that finds no route. *)
LEMMA StillOK ==
  ASSUME NEW t, RecordsOK(t, turn[t]), turn[t].pc \in InFunnel, NEW r, DOMAIN r = Fields,
         r.pc \in InFunnel, r.ask = turn[t].ask, r.focus = turn[t].focus, r.key = turn[t].key,
         r.routes = turn[t].routes, SubOK(r)
  PROVE  RecordsOK(t, r)
<1>1. /\ r.routes \in Seq(Sets(r.routes))
      /\ \A i \in DOMAIN r.routes : RouteSourced(r.ask.text, r.focus, r.ask.history, r.routes[i])
  BY DEF RecordsOK, FunnelOK
<1> QED BY <1>1, InsideOK

LEMMA RecordsSplit ==
  ASSUME RecordsInv, NEW t \in Turns, Split(t)
  PROVE  RecordsInv'
<1> DEFINE ask == turn[t].ask
<1>1. turn[t].pc = "split" /\ UNCHANGED routeCache
  BY DEF Split
<1>2. PICK reply \in SplitReplies(ask.text) \cup {<<>>} :
        Set(t, [turn[t] EXCEPT !.pc = "rewrite", !.subs = Decompose(ask.text, reply)])
  BY Zenon DEF Split, UnifiedSplit
<1>3. RecordsOK(t, turn[t]) /\ DOMAIN turn[t] = Fields /\ ask \in Asks(t)
  BY <1>1, AnyTurn
<1>4. ask \in Asked /\ ask.text \in SubTexts
  BY <1>3, AskedFacts
<1>5. reply \in Seq(SubQueries) /\ \A i \in DOMAIN reply : reply[i].text \in SubTexts
  <2>1. CASE reply = <<>>
    BY <2>1
  <2>2. CASE reply \in SplitReplies(ask.text)
    <3>1. reply \in Seq(SubQueries)
      BY <1>4, <2>2, RouterAssumption
    <3>2. ASSUME NEW i \in DOMAIN reply  PROVE reply[i].text \in SubTexts
      <4> DEFINE parts == {reply[j].text : j \in DOMAIN reply}
                 all == UNION {{r[j].text : j \in DOMAIN r} : r \in SplitReplies(ask.text)}
      <4>1. reply[i].text \in parts
        OBVIOUS
      <4>2. parts \in {{r[j].text : j \in DOMAIN r} : r \in SplitReplies(ask.text)}
        BY <2>2, Zenon
      <4>3. reply[i].text \in all
        BY <4>1, <4>2, Zenon
      <4>4. all \in {UNION {{r[j].text : j \in DOMAIN r} : r \in SplitReplies(a.text)} : a \in Asked}
        BY <1>4, Zenon
      <4> HIDE DEF all
      <4> QED BY <4>3, <4>4, Zenon DEF SubTexts
    <3> QED BY <3>1, <3>2
  <2> QED BY <1>2, <2>1, <2>2
<1> DEFINE subs == Decompose(ask.text, reply)
           r == [turn[t] EXCEPT !.pc = "rewrite", !.subs = subs]
<1>6. SaysFrom(subs, SubTexts) /\ subs # <<>>
  BY <1>4, <1>5, DecomposeFacts
<1> HIDE DEF subs
<1>7. /\ DOMAIN r = Fields /\ r.pc = "rewrite" /\ r.subs = subs /\ r.ask = turn[t].ask /\ r.focus = turn[t].focus
      /\ r.key = turn[t].key /\ r.routes = turn[t].routes
  BY <1>3 DEF Fields
<1>8. Set(t, r)
  BY <1>2 DEF subs
<1> HIDE DEF r
<1>9. SubOK(r)
  BY <1>6, <1>7 DEF SubOK, SaysFrom
<1>10. RecordsOK(t, r)
  BY <1>1, <1>3, <1>7, <1>9, StillOK DEF InFunnel
<1> QED BY <1>1, <1>8, <1>10, RecordsSet, SameCache

(* The rewriter: its reply passes the guards, or the words stay. *)
LEMMA RecordsRewrite ==
  ASSUME RecordsInv, RepliesOwnUp, NEW t \in Turns, Rewrite(t) \/ RewriteFails(t)
  PROVE  RecordsInv'
<1> DEFINE ask == turn[t].ask
           said == Sub(t).text
           focus == turn[t].focus
<1>1. turn[t].pc = "rewrite" /\ UNCHANGED routeCache
  BY DEF Rewrite, RewriteFails
<1>2. /\ RecordsOK(t, turn[t]) /\ DOMAIN turn[t] = Fields /\ ask.history \in Histories
      /\ focus = NoId \/ focus \in RecordIds
  BY <1>1, AnyTurn
<1>3. /\ turn[t].subs \in Seq(Sets(turn[t].subs)) /\ turn[t].subs # <<>>
      /\ \A i \in DOMAIN turn[t].subs : turn[t].subs[i].text \in SubTexts
  BY <1>1, <1>2 DEF RecordsOK, SubOK, AtSub
<1>4. said = turn[t].subs[1].text /\ said \in SubTexts /\ said \in Texts
  <2>1. 1 \in DOMAIN turn[t].subs
    BY <1>3
  <2>2. said = turn[t].subs[1].text
    BY DEF Sub
  <2> QED BY <1>3, <2>1, <2>2, SubTextsAreTexts
<1> HIDE DEF said, focus
<1>5. PICK text : /\ Set(t, [turn[t] EXCEPT !.pc = "funnel", !.text = text])
                  /\ \/ text = said
                     \/ \E reply \in RewriteReplies(said) : text = ApplyRewriteGuards(said, reply, ask.history, focus)
  BY Zenon DEF Rewrite, RewriteFails, said, focus
<1>6. Good(said, focus, ask.history, text)
  <2>1. CASE text = said
    BY <1>4, <2>1, OwnWords
  <2>2. CASE \E reply \in RewriteReplies(said) : text = ApplyRewriteGuards(said, reply, ask.history, focus)
    <3>1. PICK reply \in RewriteReplies(said) : text = ApplyRewriteGuards(said, reply, ask.history, focus)
      BY <2>2
    <3>2. reply.text \in Texts /\ reply.changed
      BY <1>4, <3>1, RouterAssumption DEF RepliesOwnUp
    <3> QED BY <1>2, <1>4, <3>1, <3>2, GuardedGood
  <2> QED BY <1>5, <2>1, <2>2
<1>7. text \in Texts /\ \A id \in Ids(text) : Sourced(ask.text, focus, ask.history, said, id)
  BY <1>6 DEF Good, Sourced
<1> DEFINE r == [turn[t] EXCEPT !.pc = "funnel", !.text = text]
<1>8. /\ DOMAIN r = Fields /\ r.pc = "funnel" /\ r.text = text /\ r.subs = turn[t].subs /\ r.ask = turn[t].ask
      /\ r.focus = turn[t].focus /\ r.key = turn[t].key /\ r.routes = turn[t].routes /\ Set(t, r)
  BY <1>2, <1>5 DEF Fields
<1> HIDE DEF r
<1>9. SubOK(r)
  BY <1>3, <1>4, <1>7, <1>8 DEF SubOK, focus
<1>10. RecordsOK(t, r)
  BY <1>1, <1>2, <1>8, <1>9, StillOK DEF InFunnel
<1> QED BY <1>1, <1>8, <1>10, RecordsSet, SameCache

(* What is left of a list of two or more. *)
LEMMA TailFacts ==
  ASSUME NEW S, NEW s \in Seq(S), s # <<>>, Len(s) # 1
  PROVE  /\ Tail(s) \in Seq(S) /\ Tail(s) # <<>>
         /\ \A i \in DOMAIN Tail(s) : Tail(s)[i] = s[i + 1] /\ i + 1 \in DOMAIN s
<1>1. Len(s) \in Nat /\ DOMAIN s = 1 .. Len(s)
  OBVIOUS
<1>2. Len(s) # 0
  <2> SUFFICES ASSUME Len(s) = 0  PROVE FALSE
    OBVIOUS
  <2> QED OBVIOUS
<1>3. Len(s) > 1
  BY <1>1, <1>2
<1>4. Tail(s) \in Seq(S) /\ Len(Tail(s)) = Len(s) - 1
  BY <1>3
<1>5. \A i \in 1 .. Len(Tail(s)) : Tail(s)[i] = s[i + 1]
  BY <1>3
<1>6. DOMAIN Tail(s) = 1 .. (Len(s) - 1)
  BY <1>4
<1>7. Tail(s) # <<>>
  <2> DEFINE w == Tail(s)
  <2>1. w \in Seq(S) /\ Len(w) > 0
    BY <1>1, <1>3, <1>4
  <2> HIDE DEF w
  <2>2. w # <<>>
    BY <2>1
  <2> QED BY <2>2 DEF w
<1> QED BY <1>1, <1>4, <1>5, <1>6, <1>7

(* A sub-query is routed: its parameters are records in scope. *)
LEMMA RoutedOK ==
  ASSUME RecordsInv, NEW t \in Turns, turn[t].pc \in {"funnel", "filter", "pick"}, NEW agents,
         NEW ents, agents = <<>> \/ ents = Scoped(t)
  PROVE  RecordsOK(t, Routed(t, agents, ents))
<1> DEFINE ask == turn[t].ask
           said == Sub(t).text
           focus == turn[t].focus
           subs == turn[t].subs
           routes == turn[t].routes
           r == Routed(t, agents, ents)
           route == [sq |-> Sub(t).id, agents |-> agents, deps |-> Sub(t).deps, binds |-> Sub(t).binds,
                     said |-> said, params |-> [a \in Sets(agents) |-> ChatBind(Reg, a, ents)]]
<1>1. /\ RecordsOK(t, turn[t]) /\ DOMAIN turn[t] = Fields /\ ask.history \in Histories
      /\ turn[t].pc \in InFunnel
  BY AnyTurn DEF InFunnel
<1>2. /\ subs \in Seq(Sets(subs)) /\ subs # <<>>
      /\ \A i \in DOMAIN subs : subs[i].text \in SubTexts
      /\ turn[t].text \in Texts
      /\ \A id \in Ids(turn[t].text) : Sourced(ask.text, focus, ask.history, said, id)
  BY <1>1 DEF RecordsOK, SubOK, AtSub, Sub
<1>3. /\ DOMAIN r = Fields /\ r.ask = ask /\ r.focus = focus /\ r.key = turn[t].key /\ r.subs = Tail(subs)
      /\ r.pc = IF Len(subs) = 1 THEN "store" ELSE "rewrite"
      /\ r.routes = IF agents = <<>> THEN routes ELSE Append(routes, route)
  BY <1>1, RoutedFields
<1> HIDE DEF r
<1>4. SubOK(r)
  <2>1. CASE Len(subs) = 1
    BY <1>3, <2>1 DEF SubOK, AtSub
  <2>2. CASE Len(subs) # 1
    <3> DEFINE tail == Tail(subs)
    <3>2. /\ tail \in Seq(Sets(subs)) /\ tail # <<>>
          /\ \A i \in DOMAIN tail : tail[i] = subs[i + 1] /\ i + 1 \in DOMAIN subs
      BY <1>2, <2>2, TailFacts
    <3> HIDE DEF tail, subs
    <3>4. tail \in Seq(Sets(tail)) /\ \A i \in DOMAIN tail : tail[i].text \in SubTexts
      BY <1>2, <3>2, OwnElements
    <3>5. r.pc = "rewrite" /\ r.subs = tail
      BY <1>3, <2>2 DEF tail
    <3> QED BY <3>2, <3>4, <3>5 DEF SubOK
  <2> QED BY <2>1, <2>2
<1>5. r.pc \in InFunnel
  BY <1>3 DEF InFunnel
<1>6. /\ routes \in Seq(Sets(routes))
      /\ \A i \in DOMAIN routes : RouteSourced(ask.text, focus, ask.history, routes[i])
  BY <1>1 DEF RecordsOK, FunnelOK
<1>7. CASE agents = <<>>
  <2>1. r.routes = turn[t].routes /\ r.ask = turn[t].ask /\ r.focus = turn[t].focus /\ r.key = turn[t].key
    BY <1>3, <1>7
  <2>2. DOMAIN r = Fields
    BY <1>3
  <2>3. RecordsOK(t, turn[t]) /\ turn[t].pc \in InFunnel
    BY <1>1
  <2>4. RecordsOK(t, r)
    BY <1>4, <1>5, <2>1, <2>2, <2>3, StillOK, Zenon
  <2> QED BY <2>4 DEF r
<1>8. CASE agents # <<>>
  <2>1. ents \in Seq(Sets(ents)) /\ \A i \in DOMAIN ents : Sourced(ask.text, focus, ask.history, said, ents[i])
    BY <1>1, <1>2, <1>8, ScopeFacts DEF Scoped
  <2>2. RouteSourced(ask.text, focus, ask.history, route)
    <3> SUFFICES ASSUME NEW a \in Sets(agents), NEW f \in EntityFields \cap DOMAIN ChatBind(Reg, a, ents)
                 PROVE  Sourced(ask.text, focus, ask.history, said, ChatBind(Reg, a, ents)[f])
      <4>1. route.said = said /\ route.params = [a \in Sets(agents) |-> ChatBind(Reg, a, ents)]
        OBVIOUS
      <4> HIDE DEF route, said
      <4> QED BY <4>1 DEF RouteSourced
    <3>1. \E i \in DOMAIN ents : ChatBind(Reg, a, ents)[f] = ents[i]
      BY <2>1, BindFacts
    <3> QED BY <2>1, <3>1
  <2> HIDE DEF route, routes, ask, focus, said
  <2>3. r.routes = Append(routes, route)
    BY <1>3, <1>8
  <2> DEFINE S == Sets(routes) \cup {route}
             new == Append(routes, route)
  <2>4. routes \in Seq(S) /\ route \in S
    <3>1. Sets(routes) \subseteq S
      OBVIOUS
    <3> HIDE DEF S
    <3>2. routes \in Seq(S)
      BY <1>6, <3>1
    <3> QED BY <3>2 DEF S
  <2> HIDE DEF S
  <2>5. new \in Seq(S)
    BY <2>4
  <2>6. \A i \in DOMAIN new : (i \in DOMAIN routes /\ new[i] = routes[i]) \/ new[i] = route
    BY <1>6
  <2> HIDE DEF new
  <2>7. /\ new \in Seq(Sets(new))
        /\ \A i \in DOMAIN new : RouteSourced(ask.text, focus, ask.history, new[i])
    BY <1>6, <2>2, <2>5, <2>6, OwnElements
  <2>8. r.routes = new /\ r.ask = turn[t].ask /\ r.focus = turn[t].focus /\ r.ask = ask /\ r.focus = focus
    BY <1>3, <2>3 DEF new, ask, focus
  <2>9. /\ r.routes \in Seq(Sets(r.routes))
        /\ \A i \in DOMAIN r.routes : RouteSourced(r.ask.text, r.focus, r.ask.history, r.routes[i])
    BY <2>7, <2>8
  <2>10. DOMAIN r = Fields /\ r.key = turn[t].key
    BY <1>3
  <2>11. RecordsOK(t, turn[t]) /\ turn[t].pc \in InFunnel
    BY <1>1
  <2>12. RecordsOK(t, r)
    BY <1>4, <1>5, <2>8, <2>9, <2>10, <2>11, InsideOK, Zenon
  <2> QED BY <2>12 DEF r
<1> QED BY <1>7, <1>8

LEMMA RoutedStage ==
  ASSUME NEW t, DOMAIN turn[t] = Fields, NEW agents, NEW ents
  PROVE  Routed(t, agents, ents).pc \in {"store", "rewrite"}
<1> DEFINE r == Routed(t, agents, ents)
<1>1. r.pc = IF Len(turn[t].subs) = 1 THEN "store" ELSE "rewrite"
  BY DEF Routed, Fields
<1> HIDE DEF r
<1>2. r.pc \in {"store", "rewrite"}
  BY <1>1
<1> QED BY <1>2 DEF r

LEMMA NoMatchOK ==
  ASSUME RecordsInv, NEW t \in Turns, turn[t].pc \in {"funnel", "filter", "pick"}, NEW denied
  PROVE  RecordsOK(t, NoMatchFor(t, denied))
<1> DEFINE q == Routed(t, <<>>, <<>>)
           r == NoMatchFor(t, denied)
<1>1. DOMAIN turn[t] = Fields
  BY AnyTurn
<1>2. RecordsOK(t, q)
  BY RoutedOK
<1>3. /\ DOMAIN r = Fields /\ r.ask = q.ask /\ r.focus = q.focus /\ r.key = q.key
      /\ r.subs = q.subs /\ r.pc = q.pc /\ r.routes = q.routes
  BY <1>1, NoMatchFields
<1>4. q.pc \in {"store", "rewrite"}
  BY <1>1, RoutedStage
<1> HIDE DEF q, r
<1>5. TurnOK(t, r) /\ RoutesKnown(r)
  BY <1>2, <1>3 DEF RecordsOK, TurnOK, RoutesKnown
<1>6. FunnelOK(r)
  BY <1>2, <1>3 DEF RecordsOK, FunnelOK
<1>7. SubOK(r)
  BY <1>2, <1>3, <1>4 DEF RecordsOK, SubOK, AtSub
<1>8. RecordsOK(t, r)
  BY <1>5, <1>6, <1>7 DEF RecordsOK
<1> QED BY <1>8 DEF r

(* A turn of the funnel whose words and sub-queries stay. *)
LEMMA StaysOK ==
  ASSUME RecordsInv, NEW t \in Turns, turn[t].pc \in {"funnel", "filter"}, NEW r, DOMAIN r = Fields,
         r.pc \in {"filter", "pick"}, r.subs = turn[t].subs, r.text = turn[t].text,
         r.ask = turn[t].ask, r.focus = turn[t].focus, r.key = turn[t].key, r.routes = turn[t].routes
  PROVE  RecordsOK(t, r)
<1>1. RecordsOK(t, turn[t]) /\ DOMAIN turn[t] = Fields
  BY AnyTurn
<1>2. SubOK(r)
  BY <1>1 DEF RecordsOK, SubOK, AtSub
<1> QED BY <1>1, <1>2, StillOK DEF InFunnel

LEMMA RecordsRetrieve ==
  ASSUME RecordsInv, NEW t \in Turns, Retrieve(t)
  PROVE  RecordsInv'
<1>1. turn[t].pc = "funnel" /\ UNCHANGED routeCache
  BY DEF Retrieve
<1>2. \/ Set(t, NoMatchFor(t, FALSE))
      \/ \E cands : Set(t, [turn[t] EXCEPT !.pc = "filter", !.cands = cands])
  BY Zenon DEF Retrieve
<1>3. ASSUME NEW cands PROVE RecordsOK(t, [turn[t] EXCEPT !.pc = "filter", !.cands = cands])
  <2> DEFINE r == [turn[t] EXCEPT !.pc = "filter", !.cands = cands]
  <2>1. DOMAIN turn[t] = Fields
    BY AnyTurn
  <2>2. /\ DOMAIN r = Fields /\ r.pc = "filter" /\ r.subs = turn[t].subs /\ r.text = turn[t].text
        /\ r.ask = turn[t].ask /\ r.focus = turn[t].focus /\ r.key = turn[t].key /\ r.routes = turn[t].routes
    BY <2>1 DEF Fields
  <2> HIDE DEF r
  <2>3. RecordsOK(t, r)
    BY <1>1, <2>2, StaysOK
  <2> QED BY <2>3 DEF r
<1>4. PICK r : Set(t, r) /\ RecordsOK(t, r)
  BY <1>1, <1>2, <1>3, NoMatchOK
<1> QED BY <1>1, <1>4, RecordsSet, SameCache

LEMMA FilteredFields ==
  ASSUME NEW t, DOMAIN turn[t] = Fields, turn[t].pc = "filter", NEW c
  PROVE  LET r == Filtered(t, c)
         IN /\ DOMAIN r = Fields /\ r.pc = "filter" /\ r.subs = turn[t].subs /\ r.text = turn[t].text
            /\ r.ask = turn[t].ask /\ r.focus = turn[t].focus /\ r.key = turn[t].key /\ r.routes = turn[t].routes
BY DEF Filtered, Fields

LEMMA RecordsFilter ==
  ASSUME RecordsInv, NEW t \in Turns, Filter(t)
  PROVE  RecordsInv'
<1> DEFINE f == Filtered(t, Head(turn[t].cands))
           r == IF f.cands = <<>> THEN AfterFilter(t, f) ELSE f
           picked == [f EXCEPT !.pc = "pick"]
<1>1. turn[t].pc = "filter" /\ UNCHANGED routeCache /\ Set(t, r)
  BY Zenon DEF Filter
<1>2. /\ DOMAIN f = Fields /\ f.pc = "filter" /\ f.subs = turn[t].subs /\ f.text = turn[t].text
      /\ f.ask = turn[t].ask /\ f.focus = turn[t].focus /\ f.key = turn[t].key /\ f.routes = turn[t].routes
  <2>1. DOMAIN turn[t] = Fields
    BY AnyTurn
  <2> QED BY <1>1, <2>1, FilteredFields
<1> HIDE DEF f
<1>3. RecordsOK(t, f)
  BY <1>1, <1>2, StaysOK
<1>4. RecordsOK(t, picked)
  <2>1. /\ DOMAIN picked = Fields /\ picked.pc = "pick" /\ picked.subs = f.subs /\ picked.text = f.text
        /\ picked.ask = f.ask /\ picked.focus = f.focus /\ picked.key = f.key /\ picked.routes = f.routes
    BY <1>2 DEF Fields
  <2> HIDE DEF picked
  <2> QED BY <1>1, <1>2, <2>1, StaysOK
<1>5. \/ r = f \/ r = picked
      \/ (\E denied : r = NoMatchFor(t, denied)) \/ (\E agents : r = Routed(t, agents, Scoped(t)))
  BY AfterFilterKinds
<1> HIDE DEF r, picked
<1>6. RecordsOK(t, r)
  BY <1>1, <1>3, <1>4, <1>5, RoutedOK, NoMatchOK
<1> QED BY <1>1, <1>6, RecordsSet, SameCache

LEMMA RecordsPick ==
  ASSUME RecordsInv, NEW t \in Turns, Disambiguates(t)
  PROVE  RecordsInv'
<1>1. turn[t].pc = "pick" /\ UNCHANGED routeCache
  BY DEF Disambiguates
<1>2. Set(t, NoMatchFor(t, FALSE)) \/ \E agents : Set(t, Routed(t, agents, Scoped(t)))
  BY Zenon DEF Disambiguates
<1>3. PICK r : Set(t, r) /\ RecordsOK(t, r)
  BY <1>1, <1>2, RoutedOK, NoMatchOK
<1> QED BY <1>1, <1>3, RecordsSet, SameCache

(* The decision is stored under the key it was found with. *)
LEMMA RecordsStore ==
  ASSUME RecordsInv, NEW t \in Turns, RouteCacheStore(t)
  PROVE  RecordsInv'
<1> DEFINE key == turn[t].key
           routes == turn[t].routes
           entry == SerializeDecision(FinalOutcome(t), routes)
<1>1. turn[t].pc = "store"
  BY DEF RouteCacheStore
<1>2. RecordsOK(t, turn[t]) /\ DOMAIN turn[t] = Fields
  BY AnyTurn
<1>3. routeCache' = routeCache \/ routeCache' = Put(routeCache, key, entry)
  BY DEF RouteCacheStore
<1>4. entry.routes = routes
  BY DEF SerializeDecision
<1> HIDE DEF entry
<1>5. RouteCacheOK'
  <2>1. CASE routeCache' = routeCache
    BY <2>1, SameCache
  <2>2. CASE routeCache' = Put(routeCache, key, entry)
    <3>1. ASSUME NEW i \in DOMAIN routes PROVE RouteSourced(key[1], key[3], key[5], routes[i])
      BY <1>1, <1>2 DEF RecordsOK, FunnelOK, InFunnel
    <3> HIDE DEF key, routes
    <3>2. /\ DOMAIN routeCache' = DOMAIN routeCache \cup {key}
          /\ \A k \in DOMAIN routeCache' : routeCache'[k] = IF k = key THEN entry ELSE routeCache[k]
      BY <2>2 DEF Put
    <3>3. ASSUME NEW k \in DOMAIN routeCache', NEW i \in DOMAIN routeCache'[k].routes
          PROVE  RouteSourced(k[1], k[3], k[5], routeCache'[k].routes[i])
      <4>1. CASE k = key
        BY <1>4, <3>1, <3>2, <3>3, <4>1
      <4>2. CASE k # key
        BY <3>2, <3>3, <4>2 DEF RecordsInv, RouteCacheOK
      <4> QED BY <4>1, <4>2
    <3> QED BY <3>3 DEF RouteCacheOK
  <2> QED BY <1>3, <2>1, <2>2
<1>6. PICK r : /\ Set(t, r) /\ DOMAIN r = Fields /\ r.pc \in {"end", "assemble"} /\ r.ask = turn[t].ask
               /\ r.routes = turn[t].routes /\ (r.focus = NoId \/ r.focus = turn[t].focus)
  <2>1. Set(t, End(t, FinalOutcome(t), <<>>)) \/ Set(t, [turn[t] EXCEPT !.pc = "assemble"])
    BY Zenon DEF RouteCacheStore
  <2>2. CASE Set(t, End(t, FinalOutcome(t), <<>>))
    BY <2>2, EndFields
  <2>3. CASE Set(t, [turn[t] EXCEPT !.pc = "assemble"])
    <3> DEFINE r == [turn[t] EXCEPT !.pc = "assemble"]
    <3>1. /\ DOMAIN r = Fields /\ r.pc = "assemble" /\ r.ask = turn[t].ask /\ r.routes = turn[t].routes
          /\ r.focus = turn[t].focus
      BY <1>2 DEF Fields
    <3> HIDE DEF r
    <3> QED BY <2>3, <3>1 DEF r
  <2> QED BY <2>1, <2>2, <2>3
<1>7. RecordsOK(t, r)
  <2>1. TurnOK(t, r)
    BY <1>1, <1>2, <1>6 DEF RecordsOK, TurnOK, Entry
  <2>2. FunnelOK(r) /\ SubOK(r)
    BY <1>6 DEF FunnelOK, SubOK, InFunnel, AtSub
  <2>3. RoutesKnown(r)
    BY <1>2, <1>6 DEF RecordsOK, RoutesKnown
  <2> QED BY <2>1, <2>2, <2>3 DEF RecordsOK
<1> QED BY <1>5, <1>6, <1>7, RecordsSet

LEMMA RecordsFinish ==
  ASSUME RecordsInv, NEW t \in Turns, FinalizeRoute(t) \/ TimeFilter(t)
  PROVE  RecordsInv'
<1>1. turn[t].pc # "idle" /\ UNCHANGED routeCache
  BY DEF FinalizeRoute, TimeFilter
<1>2. RecordsOK(t, turn[t]) /\ DOMAIN turn[t] = Fields
  BY AnyTurn
<1>3. ASSUME NEW r, Set(t, r), DOMAIN r = Fields, r.pc \in {"scope", "end"}, r.ask = turn[t].ask,
             r.routes = turn[t].routes, r.focus = NoId \/ r.focus = turn[t].focus
      PROVE  RecordsInv'
  <2>1. RecordsOK(t, r)
    BY <1>1, <1>2, <1>3, EndOK
  <2> QED BY <1>1, <1>3, <2>1, RecordsSet, SameCache
<1>4. CASE FinalizeRoute(t)
  <2>1. (\E plan : Set(t, [End(t, "routed", plan) EXCEPT !.pc = "scope"])) \/ Set(t, End(t, "error", <<>>))
    BY <1>4, Zenon DEF FinalizeRoute
  <2>2. CASE Set(t, End(t, "error", <<>>))
    BY <1>1, <2>2, RecordsEnd
  <2>3. ASSUME NEW plan, Set(t, [End(t, "routed", plan) EXCEPT !.pc = "scope"]) PROVE RecordsInv'
    <3> DEFINE e == End(t, "routed", plan)
               r == [e EXCEPT !.pc = "scope"]
    <3>1. DOMAIN e = Fields /\ e.ask = turn[t].ask /\ e.routes = turn[t].routes /\ e.focus = NoId
      BY EndFields
    <3>2. Set(t, r)
      BY <2>3
    <3> HIDE DEF e
    <3>3. DOMAIN r = Fields /\ r.pc = "scope" /\ r.ask = turn[t].ask /\ r.routes = turn[t].routes /\ r.focus = NoId
      BY <3>1 DEF Fields
    <3> HIDE DEF r
    <3> QED BY <1>3, <3>2, <3>3
  <2> QED BY <2>1, <2>2, <2>3
<1>5. CASE TimeFilter(t)
  <2>1. (\E w : Set(t, [turn[t] EXCEPT !.pc = "end", !.window = w])) \/ Set(t, [turn[t] EXCEPT !.pc = "end"])
    BY <1>5, Zenon DEF TimeFilter
  <2>2. ASSUME NEW w, Set(t, [turn[t] EXCEPT !.pc = "end", !.window = w]) PROVE RecordsInv'
    <3> DEFINE r == [turn[t] EXCEPT !.pc = "end", !.window = w]
    <3>1. DOMAIN r = Fields /\ r.pc = "end" /\ r.ask = turn[t].ask /\ r.routes = turn[t].routes
          /\ r.focus = turn[t].focus
      BY <1>2 DEF Fields
    <3>2. Set(t, r)
      BY <2>2
    <3> HIDE DEF r
    <3> QED BY <1>3, <3>1, <3>2
  <2>3. CASE Set(t, [turn[t] EXCEPT !.pc = "end"])
    <3> DEFINE r == [turn[t] EXCEPT !.pc = "end"]
    <3>1. DOMAIN r = Fields /\ r.pc = "end" /\ r.ask = turn[t].ask /\ r.routes = turn[t].routes
          /\ r.focus = turn[t].focus
      BY <1>2 DEF Fields
    <3>2. Set(t, r)
      BY <2>3
    <3> HIDE DEF r
    <3> QED BY <1>3, <3>1, <3>2
  <2> QED BY <2>1, <2>2, <2>3
<1> QED BY <1>4, <1>5

LEMMA RecordsOthers ==
  ASSUME RecordsInv, UNCHANGED turn, UNCHANGED routeCache \/ routeCache' = <<>>
  PROVE  RecordsInv'
<1>1. RouteCacheOK'
  BY SameCache
<1>2. ASSUME NEW t \in Turns PROVE RecordsOK(t, turn'[t])
  BY DEF RecordsInv
<1> QED BY <1>1, <1>2 DEF RecordsInv

LEMMA RecordsStep ==
  ASSUME RecordsInv, RepliesOwnUp, [Next]_vars
  PROVE  RecordsInv'
<1>1. CASE \E t \in Turns : Begin(t)
  BY <1>1, RecordsBegin
<1>2. CASE \E t \in Turns : Step(t)
  BY <1>2, RecordsUpdateFocus, RecordsControl, RecordsDoors, RecordsEnter, RecordsSplit, RecordsRewrite,
     RecordsRetrieve, RecordsFilter, RecordsPick, RecordsStore, RecordsFinish DEF Step
<1>3. CASE RegNext /\ UNCHANGED <<turn, routeCache, decisions, labels, index>>
  BY <1>3, RecordsOthers
<1>4. CASE CacheExpires
  <2>1. UNCHANGED turn /\ (UNCHANGED routeCache \/ routeCache' = <<>>)
    BY <1>4 DEF CacheExpires
  <2> QED BY <2>1, RecordsOthers
<1>5. CASE UNCHANGED vars
  BY <1>5, RecordsOthers DEF vars
<1> QED BY <1>1, <1>2, <1>3, <1>4, <1>5 DEF Next

(* Whatever the message, the conversation, the splitter, the rewriter and  *)
(* the disambiguator say, and whatever the route cache holds, a plan is    *)
(* bound only to records somebody mentioned (router/rewrite.py guards,     *)
(* router/router.py binding), provided that a reply of the rewriter that   *)
(* changes the words says so.                                              *)
THEOREM KnownRecordsTheorem ==
  ASSUME RepliesOwnUp
  PROVE  Spec => []KnownRecords
<1>1. Init => RecordsInv
  <2> SUFFICES ASSUME Init PROVE RecordsInv
    OBVIOUS
  <2>1. turn = [t \in Turns |-> Idle] /\ routeCache = <<>>
    BY DEF Init
  <2>2. ASSUME NEW t \in Turns PROVE RecordsOK(t, Idle)
    <3>1. TurnOK(t, Idle)
      BY IdleFields DEF TurnOK
    <3>2. FunnelOK(Idle) /\ SubOK(Idle) /\ RoutesKnown(Idle)
      BY IdleFields DEF FunnelOK, SubOK, RoutesKnown, InFunnel, AtSub
    <3> QED BY <3>1, <3>2 DEF RecordsOK
  <2>3. RouteCacheOK
    BY <2>1 DEF RouteCacheOK
  <2> QED BY <2>1, <2>2, <2>3 DEF RecordsInv
<1>2. RecordsInv /\ [Next]_vars => RecordsInv'
  BY RecordsStep
<1>3. RecordsInv => KnownRecords
  <2> SUFFICES ASSUME RecordsInv, NEW t \in Turns PROVE
        \A i \in DOMAIN turn[t].routes :
          LET r == turn[t].routes[i]
          IN \A a \in DOMAIN r.params : \A f \in EntityFields \cap DOMAIN r.params[a] :
               KnownRecord(t, r.params[a][f], r.said)
    BY DEF KnownRecords
  <2>1. RoutesKnown(turn[t])
    BY DEF RecordsInv, RecordsOK
  <2>2. \A said, id : Sourced(turn[t].ask.text, turn[t].ask.focus, turn[t].ask.history, said, id) => KnownRecord(t, id, said)
    BY DEF Sourced, KnownRecord
  <2> QED BY <2>1, <2>2 DEF RoutesKnown, RouteSourced
<1> QED BY <1>1, <1>2, <1>3, PTL DEF Spec
=============================================================================
