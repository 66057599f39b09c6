------------------------------- MODULE Router -------------------------------
(***************************************************************************)
(* A turn from the loaded session to its plan: update_focus, the           *)
(* conversation-control gate, the fast path and forced dispatch, and the   *)
(* routing funnel (executor/nodes.py, conversation/control_gate.py,        *)
(* router/router.py) while operators edit the registry under it.           *)
(*                                                                         *)
(* An action runs to the next await.  What an LLM or the vector index      *)
(* answers is an input: any of the replies the constants list, or none.    *)
(***************************************************************************)
EXTENDS Registry, RoutePlan, Authz

CONSTANTS
  Turns,
  Asks(_),          \* what a turn can be: door, principal, text, history, focus
  SplitReplies(_),  \* the splitter's replies to a text
  RewriteReplies(_),\* the rewriter's replies to a text
  Picks,            \* the disambiguator's replies
  Retrievers,       \* the deployed retrievers: "lexical", "vector"
  Vectors,          \* rankings the vector index may return
  Labels,           \* what the classifiers answer
  Unified,          \* one call splits and rewrites
  MinAbstain        \* abstain_min_score, 0 when the check is off

(* The texts the rewriter is given: a message, or a part the splitter made *)
(* of it.                                                                  *)
Asked == UNION {Asks(t) : t \in Turns}
SubTexts ==
  {a.text : a \in Asked}
    \cup UNION {UNION {{r[i].text : i \in DOMAIN r} : r \in SplitReplies(a.text)} : a \in Asked}

ASSUME RouterAssumption ==
  /\ \A a \in Asked : a.text \in Texts /\ a.history \in Histories /\ a.focus \in RecordIds
  /\ \A a \in Asked : \A r \in SplitReplies(a.text) : r \in Seq(SubQueries)
  /\ \A x \in SubTexts : \A r \in RewriteReplies(x) : r.text \in Texts

VARIABLES
  turn,        \* one record per turn
  routeCache,  \* route-decision cache: key -> decision
  decisions,   \* authorisation decision cache
  labels,      \* classifier caches: control, focus intent, time filter
  index        \* the lexical index, {} until it is built

vars == <<env, loaded, events, memo, turn, routeCache, decisions, labels, index>>

NoKey == <<"none">>
Outcomes == {"none", "routed", "no_confident_match", "policy_denied", "entity_clarification", "control", "error"}
Idle == [pc |-> "idle", ask |-> <<>>, focus |-> NoId, key |-> NoKey, subs |-> <<>>,
         text |-> [toks |-> <<>>, refs |-> {}, topic |-> {}, words |-> 0], cands |-> <<>>, surv |-> <<>>,
         refused |-> FALSE, denied |-> FALSE,
         routes |-> <<>>, unrouted |-> FALSE, out |-> "none", plan |-> <<>>, window |-> "none"]

Init ==
  /\ RegInit
  /\ turn = [t \in Turns |-> Idle]
  /\ routeCache = <<>> /\ decisions = <<>> /\ labels = <<>> /\ index = {}

(* A cache with one more entry. *)
Put(cache, key, value) ==
  [k \in DOMAIN cache \cup {key} |-> IF k = key THEN value ELSE cache[k]]

Set(t, r) == turn' = [turn EXCEPT ![t] = r]
End(t, out, plan) ==
  [Idle EXCEPT !.pc = "end", !.ask = turn[t].ask, !.out = out, !.plan = plan, !.routes = turn[t].routes]
Sub(t) == turn[t].subs[1]
Principal(t) == [tenant |-> turn[t].ask.tenant, role |-> turn[t].ask.role]
Signals(t, ents) == [role |-> turn[t].ask.role, entities |-> ents, intents |-> {"?"}]
Scoped(t) == ScopeSubquery(turn[t].text, turn[t].focus, turn[t].ask.history)

-----------------------------------------------------------------------------
(* load_session has the history; update_focus decides what the turn is about. *)

Begin(t) ==
  /\ turn[t].pc = "idle" /\ events > 0
  /\ events' = events - 1
  /\ \E a \in Asks(t) : Set(t, [Idle EXCEPT !.pc = "focus", !.ask = a, !.focus = a.focus])
  /\ UNCHANGED <<env, loaded, memo, routeCache, decisions, labels, index>>

(* FocusIntentClassifier: a "topic" message drops the carried focus; only  *)
(* a certain label is cached, for every tenant.                            *)
IntentKey(t, id) == <<"intent", Service(id), turn[t].ask.text>>
Classify(key, label) == IF key \in DOMAIN labels THEN labels[key] ELSE label

ApplyFocusIntent(focus, label) ==
  IF focus.id # NoId /\ focus.source # "current_message" /\ label = "topic" THEN NoId ELSE focus.id

UpdateFocus(t) ==
  /\ turn[t].pc = "focus"
  /\ \E said \in Labels.intent :
       LET focus == ResolveFocus(turn[t].ask.text, turn[t].ask.focus, turn[t].ask.history)
           asked == focus.id # NoId /\ focus.source # "current_message"
           key == IntentKey(t, focus.id)
           label == Classify(key, said)
       IN /\ Set(t, [turn[t] EXCEPT !.focus = ApplyFocusIntent(focus, label),
                                    !.pc = IF turn[t].ask.door = "fast" THEN "fast" ELSE "control"])
          /\ labels' = IF asked /\ label # "unknown" THEN Put(labels, key, label) ELSE labels
  /\ UNCHANGED <<regVars, routeCache, decisions, index>>

(* The control gate: a message of blanks is noise, an id in the message    *)
(* means it is not small talk; a failed call lets the message through and  *)
(* is not cached.                                                          *)
ControlKey(t) == <<"control", turn[t].ask.tenant, turn[t].ask.text, turn[t].focus>>
ClassifyControl(t, said) == Classify(ControlKey(t), IF said = "noise" THEN "none" ELSE said)
DetectControl(t, said) ==
  IF turn[t].ask.text.words = 0 THEN [label |-> "noise", asks |-> FALSE]
  ELSE IF HasCanonicalId(turn[t].ask.text) THEN [label |-> "none", asks |-> FALSE]
  ELSE [label |-> ClassifyControl(t, said), asks |-> TRUE]
PutControl(t, control) ==
  IF control.asks /\ control.label # "failed" THEN Put(labels, ControlKey(t), control.label) ELSE labels

ControlGate(t) ==
  /\ turn[t].pc = "control"
  /\ \E said \in Labels.control :
       LET control == DetectControl(t, said)
       IN /\ Set(t, IF control.label \in {"none", "failed"} THEN [turn[t] EXCEPT !.pc = "enter"]
                    ELSE End(t, "control", <<>>))
          /\ labels' = PutControl(t, control)
  /\ UNCHANGED <<regVars, routeCache, decisions, index>>

-----------------------------------------------------------------------------
(* Doors that skip the funnel. *)

FastPath(t) ==
  /\ turn[t].pc = "fast"
  /\ LET plan == FastPathDispatch(Reg, [a \in Agents |-> IF GetOptional(a) = 0 THEN "none" ELSE StatusOf(a)],
                                  turn[t].ask.uc, turn[t].ask.inputs)
     IN Set(t, IF plan.ok THEN End(t, "routed", plan.steps) ELSE End(t, "error", <<>>))
  /\ UNCHANGED <<regVars, routeCache, decisions, labels, index>>

ForcedDispatch(t) ==
  /\ turn[t].pc = "enter" /\ turn[t].ask.door = "forced"
  /\ LET forced == SelectSeq(<<turn[t].ask.uc>>, LAMBDA a : a \in DOMAIN Reg)
         plan == AssemblePlan(Reg, <<[sq |-> "sq_forced", agents |-> forced, params |-> <<>>, deps |-> {}, binds |-> {}]>>)
     IN Set(t, IF forced = <<>> THEN End(t, "no_confident_match", <<>>)
               ELSE IF plan.ok THEN End(t, "routed", plan.steps) ELSE End(t, "error", <<>>))
  /\ UNCHANGED <<regVars, routeCache, decisions, labels, index>>

-----------------------------------------------------------------------------
(* route: the key holds everything the funnel reads, the fingerprint of    *)
(* the active cards included.                                              *)

SignalsDigest(t) == <<turn[t].ask.role, turn[t].ask.tenant, Ids(turn[t].ask.text)>>
ConversationDigest(t) == turn[t].ask.history
RouteCacheKey(t) ==
  <<turn[t].ask.text, turn[t].ask.role, turn[t].focus, SignalsDigest(t), ConversationDigest(t), RoutingFingerprint>>

SerializeDecision(out, routes) == [out |-> out, routes |-> routes]
DeserializeRoutes(hit) == hit.routes

(* A hit is assembled against the cards of now; if that fails it is a miss. *)
ResultFromCache(t, hit) ==
  LET plan == AssemblePlan(Reg, DeserializeRoutes(hit))
  IN IF hit.out # "routed" THEN End(t, hit.out, <<>>)
     ELSE IF plan.ok THEN [End(t, "routed", plan.steps) EXCEPT !.pc = "scope", !.routes = hit.routes]
     ELSE [turn[t] EXCEPT !.pc = "split"]

EnterRoute(t) ==
  /\ turn[t].pc = "enter" /\ turn[t].ask.door # "forced"
  /\ IF Malformed(turn[t].ask.text) # {} /\ Entities(turn[t].ask.text) = <<>>
     THEN /\ Set(t, End(t, "entity_clarification", <<>>))
          /\ UNCHANGED memo
     ELSE LET key == RouteCacheKey(t)
              missed == [turn[t] EXCEPT !.pc = "split", !.key = key]
          IN /\ memo' = RoutingFingerprint
             /\ Set(t, IF key \in DOMAIN routeCache
                       THEN [ResultFromCache(t, routeCache[key]) EXCEPT !.key = key] ELSE missed)
  /\ UNCHANGED <<env, loaded, events, routeCache, decisions, labels, index>>

(* The splitter, or the decomposer; its clean-up falls back to one query.  *)
(* The unified splitter rewrites as well, and its words pass no guard.     *)
UnifiedSplit(text, reply) == Decompose(text, reply)
Split(t) ==
  /\ turn[t].pc = "split"
  /\ \E reply \in SplitReplies(turn[t].ask.text) \cup {<<>>} :
       LET subs == IF Unified THEN UnifiedSplit(turn[t].ask.text, reply) ELSE Decompose(turn[t].ask.text, reply)
       IN Set(t, [turn[t] EXCEPT !.pc = "rewrite", !.subs = subs])
  /\ UNCHANGED <<regVars, routeCache, decisions, labels, index>>

(* The rewriter's reply goes through the guards; a failed call keeps the   *)
(* words.                                                                  *)
Rewrite(t) ==
  /\ turn[t].pc = "rewrite"
  /\ \E reply \in RewriteReplies(Sub(t).text) :
       Set(t, [turn[t] EXCEPT !.pc = "funnel",
                 !.text = IF Unified THEN Sub(t).text
                          ELSE ApplyRewriteGuards(Sub(t).text, reply, turn[t].ask.history, turn[t].focus)])
  /\ UNCHANGED <<regVars, routeCache, decisions, labels, index>>

RewriteFails(t) ==
  /\ turn[t].pc = "rewrite" /\ ~Unified
  /\ Set(t, [turn[t] EXCEPT !.pc = "funnel", !.text = Sub(t).text])
  /\ UNCHANGED <<regVars, routeCache, decisions, labels, index>>

-----------------------------------------------------------------------------
(* Stage 2: lexical overlap over the active cards, or the vector index,    *)
(* whose rows may be older than the registry.                              *)

Overlap(a, q, words) == Cardinality(words[a] \cap q)
BuildIndex == [a \in ListActive |-> Card[a][GetOptional(a)].corpus]
Tokens(text) == text.topic \cup {e[1] : e \in Ids(text)}
LexicalRanking(text, idx) ==
  LET q == Tokens(text)
      score(a) == IF a \in DOMAIN idx /\ Overlap(a, q, idx) > 0
                  THEN (100 * Overlap(a, q, idx)) \div Cardinality(q) ELSE 1
      cands == {[agent |-> a, score |-> score(a)] : a \in ListActive}
      \* ties are broken by the agent id
      before(x, y) == x.score > y.score \/ (x.score = y.score /\ x.agent # y.agent
                                            /\ Card[x.agent][1].rank < Card[y.agent][1].rank)
  IN IF q = {} THEN <<>> ELSE InOrder(cands, before)

Ranked(retriever, text, idx) ==
  IF retriever = "vector" THEN Vectors ELSE {LexicalRanking(text, words) : words \in idx}

(* A sub-query is done: with agents, or without. *)
Routed(t, agents, ents) ==
  LET r == [sq |-> Sub(t).id, agents |-> agents, deps |-> Sub(t).deps, binds |-> Sub(t).binds, said |-> Sub(t).text,
            params |-> [a \in Sets(agents) |-> ChatBind(Reg, a, ents)]]
      rest == [turn[t] EXCEPT !.subs = Tail(@), !.surv = <<>>, !.cands = <<>>, !.refused = FALSE, !.text = Idle.text,
                              !.routes = IF agents = <<>> THEN @ ELSE Append(@, r),
                              !.unrouted = @ \/ agents = <<>>]
  IN [rest EXCEPT !.pc = IF Len(turn[t].subs) = 1 THEN "store" ELSE "rewrite"]

NoMatchFor(t, denied) == [Routed(t, <<>>, <<>>) EXCEPT !.denied = @ \/ denied]

TryPreroute(t, surv) ==
  DeterministicPreroute(Sub(t).text, {surv[i].agent : i \in DOMAIN surv}, turn[t].focus # NoId)

(* Only an agent that may be chatted with is a candidate. *)
ChatEligible(a) == IF a \in DOMAIN Reg THEN Reg[a].eligible ELSE TRUE
Retrieve(t) ==
  /\ turn[t].pc = "funnel"
  /\ index' = IF index = {} /\ "lexical" \in Retrievers THEN {BuildIndex} ELSE index
  /\ \E by \in Retrievers : \E found \in Ranked(by, turn[t].text, index') :
       LET cands == SelectSeq(found, LAMBDA c : ChatEligible(c.agent))
       IN Set(t, IF cands = <<>> THEN NoMatchFor(t, FALSE)
                 ELSE [turn[t] EXCEPT !.pc = "filter", !.cands = cands])
  /\ UNCHANGED <<regVars, routeCache, decisions, labels>>

(* Stage 3, one candidate after the other: its card is read again, the     *)
(* condition and the access policy decide.                                 *)
Verdict(t, a) == Evaluate(Reg[a].cond, Signals(t, Scoped(t)))
Resource(t, a) == Descriptor(a, Reg[a], turn[t].ask.tenant)
Considered(t, a) == a \in DOMAIN Reg /\ Verdict(t, a) # "fail"
Allowed(t, a) == Check(decisions, Principal(t), Resource(t, a)) = "allow"
Survivor(t, c) ==
  [agent |-> c.agent, score |-> c.score, verdict |-> Verdict(t, c.agent), version |-> GetOptional(c.agent)]

Filtered(t, c) ==
  LET rest == [turn[t] EXCEPT !.cands = Tail(@)]
  IN IF ~Considered(t, c.agent) THEN rest
     ELSE IF Allowed(t, c.agent) THEN [rest EXCEPT !.surv = Append(@, Survivor(t, c))]
     ELSE [rest EXCEPT !.refused = TRUE]

(* What becomes of the sub-query once there is no candidate left. *)
AfterFilter(t, r) ==
  LET ents == Scoped(t)
      pre == TryPreroute(t, r.surv)
  IN CASE r.surv = <<>> -> NoMatchFor(t, r.refused)
       [] r.surv # <<>> /\ pre # NoMatch -> Routed(t, pre.agents, ents)
       [] r.surv # <<>> /\ pre = NoMatch /\ (Len(r.surv) = 1 \/ ConfidenceSkip(r.surv)) -> Routed(t, <<r.surv[1].agent>>, ents)
       [] OTHER -> [r EXCEPT !.pc = "pick"]

Filter(t) ==
  /\ turn[t].pc = "filter"
  /\ LET c == Head(turn[t].cands)
         r == Filtered(t, c)
     IN /\ decisions' = IF Considered(t, c.agent) THEN Remember(decisions, Principal(t), Resource(t, c.agent))
                        ELSE decisions
        /\ Set(t, IF r.cands = <<>> THEN AfterFilter(t, r) ELSE r)
  /\ UNCHANGED <<regVars, routeCache, labels, index>>

(* The embedding or the index query raises: so does the turn. *)
RetrieveFails(t) ==
  /\ turn[t].pc = "funnel" /\ "vector" \in Retrievers
  /\ Set(t, End(t, "error", <<>>))
  /\ UNCHANGED <<regVars, routeCache, decisions, labels, index>>

(* Stage 4: the LLM chooses among the survivors. *)
Disambiguates(t) ==
  /\ turn[t].pc = "pick"
  /\ \E reply \in Picks :
       LET ents == Scoped(t)
           pick == Disambiguate(turn[t].text, turn[t].surv, ListIds, MinAbstain, reply)
           chosen == IF pick.agents = <<>> THEN DeclinedOutcome(turn[t].surv)
                     ELSE ResolveChosen(Reg, pick, Signals(t, ents))
       IN Set(t, IF chosen = <<>> THEN NoMatchFor(t, FALSE) ELSE Routed(t, chosen, ents))
  /\ UNCHANGED <<regVars, routeCache, decisions, labels, index>>

-----------------------------------------------------------------------------
(* _finalize_route: the decision is cached, then the plan is assembled     *)
(* from the cards of that moment.                                          *)

FinalOutcome(t) ==
  IF turn[t].routes # <<>> THEN "routed"
  ELSE IF turn[t].denied THEN "policy_denied" ELSE "no_confident_match"

RouteCacheStore(t) ==
  /\ turn[t].pc = "store"
  /\ \E put \in BOOLEAN :
       routeCache' = IF put THEN Put(routeCache, turn[t].key, SerializeDecision(FinalOutcome(t), turn[t].routes))
                     ELSE routeCache
  /\ Set(t, IF turn[t].routes = <<>> THEN End(t, FinalOutcome(t), <<>>) ELSE [turn[t] EXCEPT !.pc = "assemble"])
  /\ UNCHANGED <<regVars, decisions, labels, index>>

FinalizeRoute(t) ==
  /\ turn[t].pc = "assemble"
  /\ LET plan == AssemblePlan(Reg, turn[t].routes)
     IN Set(t, IF plan.ok THEN [End(t, "routed", plan.steps) EXCEPT !.pc = "scope"] ELSE End(t, "error", <<>>))
  /\ UNCHANGED <<regVars, routeCache, decisions, labels, index>>

(* The time filter is asked for only when an agent of the plan wants it;   *)
(* "no window" is cached too, a failed call is not.                        *)
PlanWantsTimeFilter(plan) == \E i \in DOMAIN plan : plan[i].agent \in DOMAIN Reg /\ Reg[plan[i].agent].timed
ParseWindow(said) == IF said = "malformed" THEN "none" ELSE said
TimeFilter(t) ==
  /\ turn[t].pc = "scope"
  /\ \E said \in Labels.window :
       LET key == <<"time_filter", turn[t].ask.text>>
           got == Classify(key, ParseWindow(said))
       IN IF PlanWantsTimeFilter(turn[t].plan)
          THEN /\ Set(t, [turn[t] EXCEPT !.pc = "end", !.window = IF got = "failed" THEN "none" ELSE got])
               /\ labels' = IF got = "failed" THEN labels ELSE Put(labels, key, got)
          ELSE /\ Set(t, [turn[t] EXCEPT !.pc = "end"])
               /\ UNCHANGED labels
  /\ UNCHANGED <<regVars, routeCache, decisions, index>>

-----------------------------------------------------------------------------
(* TTLs, and the restart that forgets what the process memoised. *)

CacheExpires ==
  /\ events > 0 /\ events' = events - 1
  /\ \/ routeCache # <<>> /\ routeCache' = <<>> /\ UNCHANGED <<decisions, labels>>
     \/ decisions # <<>> /\ decisions' = <<>> /\ UNCHANGED <<routeCache, labels>>
     \/ labels # <<>> /\ labels' = <<>> /\ UNCHANGED <<routeCache, decisions>>
  /\ UNCHANGED <<env, loaded, memo, turn, index>>

Step(t) ==
  \/ UpdateFocus(t) \/ ControlGate(t) \/ FastPath(t) \/ ForcedDispatch(t) \/ EnterRoute(t)
  \/ Split(t) \/ Rewrite(t) \/ RewriteFails(t) \/ Retrieve(t) \/ RetrieveFails(t) \/ Filter(t) \/ Disambiguates(t)
  \/ RouteCacheStore(t) \/ FinalizeRoute(t) \/ TimeFilter(t)

Next ==
  \/ \E t \in Turns : Begin(t) \/ Step(t)
  \/ RegNext /\ UNCHANGED <<turn, routeCache, decisions, labels, index>>
  \/ CacheExpires
  \/ (\A t \in Turns : turn[t].pc \in {"idle", "end"}) /\ UNCHANGED vars   \* a turn stuck before its end is a deadlock

Spec == Init /\ [][Next]_vars

-----------------------------------------------------------------------------
(* What the wave loop of the executor takes for granted of the plan that   *)
(* assemble_plan hands over: the steps are numbered one by one and wait    *)
(* only for earlier steps, and a step of the funnel waits for a step of    *)
(* every agent its card depends on, as the cards stand at that moment.     *)
(* Whatever the splitter said, and whichever cards, dependencies and       *)
(* exclusions were edited since: except that an edit may close a cycle of  *)
(* dependencies, which the integrity check refuses only at start-up.       *)
ServedCycle == \E c \in SUBSET DOMAIN Reg \ {{}} : \A a \in c : Sets(Reg[a].deps) \cap c # {}
Runnable(plan, door) ==
  \A i \in DOMAIN plan :
    /\ plan[i].id = i /\ plan[i].deps \subseteq 1..(i - 1)
    /\ door # "fast" => \A d \in Sets(Reg[plan[i].agent].deps) : \E j \in plan[i].deps : plan[j].agent = d
PlanIsRunnable ==
  [][\A t \in Turns : turn[t].out # "routed" /\ turn'[t].out = "routed" /\ ~ServedCycle
                      => Runnable(turn'[t].plan, turn[t].ask.door)]_vars

(* The records a turn may be about: those the message, the sub-query, the  *)
(* conversation or the focus name, and the completion of a message of bare *)
(* digits.                                                                 *)
KnownRecord(t, id, said) ==
  \/ id \in Ids(turn[t].ask.text) \cup Ids(said) \cup AllHistoryIds(turn[t].ask.history) \cup {turn[t].ask.focus}
  \/ BareDigitMessage(said) /\ id[2] = said.toks[1].n

(* A plan is never bound to a record nobody mentioned: the guards after    *)
(* the rewriter (rewrite.py _reject_hallucinated_ids and the focus rules)  *)
(* and the scoping of each sub-query let no invented id through.  The      *)
(* rewriter's replies own up to a change here: the code applies the guards *)
(* to no other reply.                                                      *)
KnownRecords ==
  \A t \in Turns : \A i \in DOMAIN turn[t].routes :
    LET r == turn[t].routes[i]
    IN \A a \in DOMAIN r.params : \A f \in EntityFields \cap DOMAIN r.params[a] :
         KnownRecord(t, r.params[a][f], r.said)

(* A survivor of stage 3 is allowed by the policy applied to the very      *)
(* version of the card that was read, although the decision may come from  *)
(* the cache and the card may have been replaced since it was stored.      *)
SurvivorsAllowed ==
  \A t \in Turns : \A i \in DOMAIN turn[t].surv :
    LET c == turn[t].surv[i]
    IN Reasons(Principal(t), Descriptor(c.agent, Card[c.agent][c.version], turn[t].ask.tenant)) = {}

=============================================================================
