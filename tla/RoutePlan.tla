----------------------------- MODULE RoutePlan -----------------------------
(***************************************************************************)
(* The deterministic half of routing: activation conditions                *)
(* (router/conditions.py), the clean-up of the splitter's sub-queries      *)
(* (router/decompose.py), the assembly of routed sub-queries into a plan   *)
(* (router/plan.py), parameter binding (router/router.py), the rules that  *)
(* pick an agent without the LLM (router/disambiguation.py) and the        *)
(* fast-path dispatcher (router/fast_path.py).                             *)
(*                                                                         *)
(* reg maps every agent the registry can return to its card.               *)
(***************************************************************************)
EXTENDS Utterance

Failed == [ok |-> FALSE, steps |-> <<>>]
Sets(s) == {s[i] : i \in DOMAIN s}

-----------------------------------------------------------------------------
(* conditions.py: pass, fail, or not known yet. *)

Flip(v) == CASE v = "pass" -> "fail" [] v = "fail" -> "pass" [] OTHER -> v
AsVerdict(b) == IF b THEN "pass" ELSE "fail"

EvalLeaf(c, sig) ==
  LET v == CASE c.signal = "intent_in" ->
                  IF sig.intents = {"?"} THEN "indeterminate" ELSE AsVerdict(sig.intents \cap c.values # {})
             [] c.signal = "entity_present" -> AsVerdict(sig.entities # <<>>)
             [] c.signal = "entity_service_in" ->
                  AsVerdict(\E i \in DOMAIN sig.entities : Service(sig.entities[i]) \in c.values)
             [] c.signal = "role_in" -> AsVerdict(sig.role \in c.values)
  IN IF c.negate THEN Flip(v) ELSE v

(* A condition is the sequence of its tree's nodes, the root first; the    *)
(* clauses of a group are the places of its children.                      *)
Evaluate(c, sig) ==
  LET verdict[n \in DOMAIN c] ==
        LET vs == {verdict[m] : m \in c[n].clauses}
            first == IF c[n].op = "all_of" THEN "fail" ELSE "pass"
        IN IF c[n].op = "leaf" THEN EvalLeaf(c[n], sig)
           ELSE IF first \in vs THEN first
           ELSE IF "indeterminate" \in vs THEN "indeterminate" ELSE Flip(first)
  IN verdict[1]

SurvivesFilter(c, sig) == Evaluate(c, sig) # "fail"
WithIntents(sig, intents) == [sig EXCEPT !.intents = intents]

-----------------------------------------------------------------------------
(* decompose.py: what the LLM made of a message. *)

SubQueries == [id : STRING, text : Texts, deps : SUBSET STRING, binds : SUBSET (STRING \X STRING \X STRING)]

SelfDependent(subs) == \E i \in DOMAIN subs : subs[i].id \in subs[i].deps
Passthrough(text) == <<[id |-> "sq1", text |-> text, deps |-> {}, binds |-> {}]>>
ParseBindings(sub) == {b \in sub.binds : b[1] # sub.id}
SqNames == <<"sq1", "sq2", "sq3", "sq4", "sq5">>

DedupByText(subs) ==
  AtPositions(subs, {i \in DOMAIN subs : \A j \in 1..(i - 1) : subs[j].text # subs[i].text})

DropRollup(subs) ==
  LET others == {subs[i].id : i \in 1..(Len(subs) - 1)}
  IN IF Len(subs) >= 4 /\ others \subseteq subs[Len(subs)].deps THEN Front(subs) ELSE subs

(* A repeated id is renamed to the number of its last use. *)
Remap(subs) ==
  LET last(id) == CHOOSE i \in DOMAIN subs : subs[i].id = id /\ \A j \in DOMAIN subs : subs[j].id = id => j <= i
      new == [id \in {subs[i].id : i \in DOMAIN subs} |-> SqNames[last(id)]]
  IN [i \in DOMAIN subs |->
        [id |-> new[subs[i].id], text |-> subs[i].text,
         deps |-> {new[d] : d \in subs[i].deps \cap DOMAIN new},
         binds |-> {<<new[b[1]], b[2], b[3]>> : b \in {x \in subs[i].binds : x[1] \in DOMAIN new}}]]

Sanitize(subs) == IF Len(subs) <= 1 THEN subs ELSE Remap(DropRollup(DedupByText(subs)))

(* What the splitter returns: a bad or failed reply is one sub-query. *)
Decompose(text, reply) ==
  LET raw == [i \in DOMAIN reply |-> [reply[i] EXCEPT !.binds = ParseBindings(reply[i])]]
      clean == Sanitize(raw)
  IN IF SelfDependent(raw) \/ SelfDependent(clean) \/ clean = <<>> THEN Passthrough(text) ELSE clean

-----------------------------------------------------------------------------
(* plan.py.  A route is [sq, agents, params, deps, binds]; a step is       *)
(* [id, agent, params, deps, soft].  Reading a missing agent raises.       *)

Priority(reg, a, b) ==
  LET ps == {x[2] : x \in {y \in reg[a].excludes : y[1] = b}}
  IN IF ps = {} THEN -1 ELSE CHOOSE p \in ps : TRUE

(* Of two agents that exclude each other the higher priority is kept. *)
Losers(reg, agents) ==
  UNION {{IF x[2] >= Priority(reg, x[1], a) THEN x[1] ELSE a
            : x \in {y \in reg[a].excludes : y[1] \in Sets(agents)}} : a \in Sets(agents)}
ApplyExclusions(reg, agents) ==
  LET losers == Losers(reg, agents) IN SelectSeq(agents, LAMBDA a : a \notin losers)

(* A walk over the dependencies: the agents entered, those numbered, and   *)
(* whether every one was found.                                            *)
Named(reg) == DOMAIN reg \cup UNION {Sets(reg[a].deps) : a \in DOMAIN reg}
Walks(reg) == [seen : SUBSET DOMAIN reg, out : Seq(DOMAIN reg), ok : BOOLEAN]

(* Mutant: an agent is numbered before what it depends on. *)
VisitPre(reg, acc, a) ==
  LET visit[s \in Walks(reg), b \in Named(reg) \cup {a}] ==
        IF b \in s.seen \/ ~s.ok THEN s
        ELSE IF b \notin DOMAIN reg THEN [s EXCEPT !.ok = FALSE]
        ELSE FoldLeft(LAMBDA r, d : visit[r, d], [s EXCEPT !.seen = @ \cup {b}, !.out = Append(@, b)], reg[b].deps)
  IN visit[acc, a]

(* Dependencies first: [seen, out, ok] grows by one agent's closure. *)
Visit(reg, acc, a) ==
  LET visit[s \in Walks(reg), b \in Named(reg) \cup {a}] ==
        LET deps == FoldLeft(LAMBDA r, d : visit[r, d], [s EXCEPT !.seen = @ \cup {b}], reg[b].deps)
        IN IF b \in s.seen \/ ~s.ok THEN s
           ELSE IF b \notin DOMAIN reg THEN [s EXCEPT !.ok = FALSE]
           ELSE [deps EXCEPT !.out = Append(@, b)]
  IN visit[acc, a]
ExpandWithDeps(reg, agents) ==
  FoldLeft(LAMBDA s, a : Visit(reg, s, a), [seen |-> {}, out |-> <<>>, ok |-> TRUE], agents)

VisitSq(byId, acc, sq) ==
  LET ids == DOMAIN byId \cup UNION {byId[q].deps : q \in DOMAIN byId}
      walks == [done : SUBSET DOMAIN byId, active : SUBSET DOMAIN byId, out : Seq(Range(byId)), ok : BOOLEAN]
      visit[s \in walks, q \in ids] ==
        LET deps == FoldLeft(LAMBDA r, d : visit[r, d], [s EXCEPT !.active = @ \cup {q}], SetToSeq(byId[q].deps))
        IN IF q \in s.done \/ q \notin DOMAIN byId \/ ~s.ok THEN s
           ELSE IF q \in s.active THEN [s EXCEPT !.ok = FALSE]
           ELSE [deps EXCEPT !.active = @ \ {q}, !.done = @ \cup {q}, !.out = Append(@, byId[q])]
  IN visit[acc, sq]
TopoSubqueries(routes) ==
  LET byId == [sq \in {routes[i].sq : i \in DOMAIN routes} |->
                 routes[CHOOSE i \in DOMAIN routes :
                          routes[i].sq = sq /\ \A j \in DOMAIN routes : routes[j].sq = sq => j <= i]]
  IN FoldLeft(LAMBDA s, r : VisitSq(byId, s, r.sq),
              [done |-> {}, active |-> {}, out |-> <<>>, ok |-> TRUE], routes)

(* A binding to an earlier sub-query is a soft dependency on its last step. *)
ResolveRouteBindings(route, stepsOf) ==
  {stepsOf[b[1]][Len(stepsOf[b[1]])] :
     b \in {x \in route.binds : x[1] \in DOMAIN stepsOf /\ stepsOf[x[1]] # <<>>}}

BuildRouteSteps(reg, route, needed, stepId, upstream, soft) ==
  [i \in DOMAIN needed |->
     LET a == needed[i]
         primary == i = Len(needed)
     IN [id |-> stepId[a], agent |-> a,
         params |-> IF a \in DOMAIN route.params THEN route.params[a] ELSE <<>>,
         deps |-> {stepId[d] : d \in Sets(reg[a].deps)} \cup upstream \cup (IF primary THEN soft ELSE {}),
         soft |-> IF primary THEN soft ELSE {}]]

AddRoute(reg, acc, route) ==
  LET known == Sets(route.agents) \subseteq DOMAIN reg
               /\ \A a \in Sets(route.agents) : {x[1] : x \in reg[a].excludes} \cap Sets(route.agents) \subseteq DOMAIN reg
      needed == ExpandWithDeps(reg, ApplyExclusions(reg, route.agents))
      at == Len(acc.steps)
      stepId == [a \in Sets(needed.out) |-> at + CHOOSE i \in DOMAIN needed.out : needed.out[i] = a]
      upstream == UNION {Sets(acc.of[d]) : d \in route.deps \cap DOMAIN acc.of}
      steps == BuildRouteSteps(reg, route, needed.out, stepId, upstream, ResolveRouteBindings(route, acc.of))
  IN IF ~acc.ok \/ ~known THEN [acc EXCEPT !.ok = FALSE]
     ELSE IF ~needed.ok THEN [acc EXCEPT !.ok = FALSE]
     ELSE [acc EXCEPT !.steps = @ \o steps,
                      !.of = (route.sq :> [i \in DOMAIN needed.out |-> at + i]) @@ @]

AssemblePlan(reg, routes) ==
  LET live == SelectSeq(routes, LAMBDA r : r.agents # <<>>)
      topo == TopoSubqueries(live)
      all == FoldLeft(LAMBDA s, r : AddRoute(reg, s, r), [ok |-> TRUE, steps |-> <<>>, of |-> <<>>], topo.out)
  IN IF live = <<>> \/ ~topo.ok \/ ~all.ok THEN Failed ELSE [ok |-> TRUE, steps |-> all.steps]

-----------------------------------------------------------------------------
(* router.py: record ids are bound to the parameters of the chosen agent.  *)

EntityFields == {"ticket_id", "article_id"}
ParamAccepts == [ticket_id |-> {"incident", "change"}, article_id |-> {"knowledge"}]

FirstCompatible(card, ents) ==
  LET fit == {i \in DOMAIN ents : card.services = {} \/ Service(ents[i]) \in card.services}
  IN IF fit = {} THEN NoId ELSE AtPositions(ents, fit)[1]

BindFastPathFields(card, ents) ==
  LET e == FirstCompatible(card, ents)
      names == {card.fields[i].name : i \in DOMAIN card.fields}
      derived == {card.fields[i].name : i \in {j \in DOMAIN card.fields :
                    card.fields[j].from \in names \cap EntityFields /\ card.fields[j].name = "service_id"}}
  IN IF e = NoId THEN <<>>
     ELSE [x \in (names \cap EntityFields) \cup derived |-> IF x = "service_id" THEN Service(e) ELSE e]

BindToolParams(card, bound, ents) ==
  LET fit(p) == {i \in DOMAIN ents : Service(ents[i]) \in ParamAccepts[p]}
      open == {p \in card.toolParams \cap EntityFields : p \notin DOMAIN bound /\ fit(p) # {}}
  IN [p \in open \cup DOMAIN bound |-> IF p \in open THEN AtPositions(ents, fit(p))[1] ELSE bound[p]]

ChatBind(reg, a, ents) ==
  IF a \notin DOMAIN reg \/ ents = <<>> THEN <<>>
  ELSE BindToolParams(reg[a], BindFastPathFields(reg[a], ents), ents)

(* The ids a sub-query is about. *)
ScopeSubquery(text, focus, history) ==
  LET seen == ExtractFocusFromHistory(history)
  IN IF Entities(text) # <<>> THEN Entities(text)
     ELSE IF focus # NoId /\ IsFollowupReference(text) THEN <<focus>>
     ELSE IF ReferencesLinkedRecord(text) /\ seen # NoId THEN <<seen>>
     ELSE <<>>

-----------------------------------------------------------------------------
(* disambiguation.py: picks that need no LLM, and what is made of its reply. *)

Disambiguation(agents, intents) == [agents |-> agents, intents |-> intents]
NoMatch == Disambiguation(<<>>, {})

BareId(text) == HasCanonicalId(text) /\ Len(text.toks) = 1 /\ text.words = 1
DocNouns == {"runbook", "article"}
LinkedComponentTerms == {"server", "change"}

DeterministicPreroute(text, pool, hasFocus) ==
  CASE BareId(text) /\ "uc01" \in pool -> Disambiguation(<<"uc01">>, {"summary"})
    [] ~BareId(text) /\ hasFocus /\ "uc01" \in pool /\ "related" \in text.refs
         /\ text.topic \cap LinkedComponentTerms # {} /\ "similar" \notin text.topic
         -> Disambiguation(<<"uc01">>, {"field_read"})
    [] HasCanonicalId(text) /\ ~BareId(text) /\ text.topic \cap DocNouns # {} /\ "uc03" \in pool
         -> Disambiguation(<<"uc03">>, {"kb_search"})
    [] OTHER -> NoMatch

(* Candidates are sequences of [agent, score], scores in hundredths. *)
Best(cands) ==
  cands[CHOOSE i \in DOMAIN cands : \A j \in DOMAIN cands :
          cands[j].score < cands[i].score \/ (cands[j].score = cands[i].score /\ i <= j)]

FloorDispatch(cands, intents) ==
  LET kb == SelectSeq(cands, LAMBDA c : c.agent = "uc03" /\ c.score >= 10)
  IN IF cands = <<>> \/ "off_domain" \in intents THEN NoMatch
     ELSE IF Best(cands).score < 10 THEN NoMatch
     ELSE IF kb # <<>> THEN Disambiguation(<<"uc03">>, {"kb_search"})
     ELSE Disambiguation(<<Best(cands).agent>>, {})

(* reply is [ok, agents, intents]; a failed call matches nothing. *)
CallAndSelect(cands, reply) ==
  LET valid == {cands[i].agent : i \in DOMAIN cands}
      selected == SelectSeq(reply.agents, LAMBDA a : a \in valid)
  IN IF ~reply.ok THEN NoMatch
     ELSE IF selected = <<>> THEN FloorDispatch(cands, reply.intents)
     ELSE Disambiguation(selected, reply.intents)

AbstainCheck(cands, minScore) == minScore > 0 /\ Best(cands).score < minScore

Disambiguate(text, cands, pool, minScore, reply) ==
  LET pre == DeterministicPreroute(text, pool, FALSE)
  IN IF pre # NoMatch THEN pre
     ELSE IF AbstainCheck(cands, minScore) THEN NoMatch
     ELSE CallAndSelect(cands, reply)

(* The chosen agents again, now that the intents are known. *)
ResolveChosen(reg, pick, sig) ==
  IF pick.intents = {} THEN pick.agents
  ELSE SelectSeq(pick.agents, LAMBDA a : a \in DOMAIN reg
                                         /\ SurvivesFilter(reg[a].cond, WithIntents(sig, pick.intents)))

(* The confidence skip: the first survivor is certain and far ahead. *)
MinScore == 62
MinMargin == 15
ConfidenceSkip(survivors) ==
  /\ Len(survivors) >= 2 /\ survivors[1].verdict = "pass"
  /\ survivors[1].score >= MinScore /\ survivors[1].score - survivors[2].score >= MinMargin

DeclinedOutcome(survivors) ==
  LET passing == SelectSeq(survivors, LAMBDA c : c.verdict = "pass")
  IN IF Len(passing) = 1 THEN <<passing[1].agent>> ELSE <<>>

-----------------------------------------------------------------------------
(* fast_path.py: a declared use case with typed inputs, no LLM at all.     *)
(* inputs maps a field name to an id.                                      *)

IsEligible(reg, status, a) == a \in DOMAIN reg /\ status[a] = "active" /\ reg[a].fields # <<>>

DeriveField(inputs, from) ==
  IF from \in DOMAIN inputs /\ Known([pre |-> inputs[from][1]]) THEN {Service(inputs[from])} ELSE {}

(* The value of a field, as a set of at most one. *)
ResolveFieldValue(field, inputs) ==
  IF field.name \in DOMAIN inputs THEN {inputs[field.name]}
  ELSE IF field.from # "" THEN DeriveField(inputs, field.from) ELSE {}

CoerceInputs(card, inputs) ==
  LET value == [f \in Sets(card.fields) |-> ResolveFieldValue(f, inputs)]
  IN [missing |-> {f.name : f \in {g \in Sets(card.fields) : g.required /\ value[g] = {}}},
      params |-> [x \in {f.name : f \in {g \in Sets(card.fields) : value[g] # {}}} |->
                    CHOOSE v \in value[CHOOSE f \in Sets(card.fields) : f.name = x] : TRUE]]

FastPathDispatch(reg, status, a, inputs) ==
  LET names == {reg[a].fields[i].name : i \in DOMAIN reg[a].fields}
  IN IF ~IsEligible(reg, status, a) THEN Failed
     ELSE IF ~(DOMAIN inputs \subseteq names) \/ CoerceInputs(reg[a], inputs).missing # {} THEN Failed
     ELSE [ok |-> TRUE,
           steps |-> <<[id |-> 1, agent |-> a, params |-> CoerceInputs(reg[a], inputs).params, deps |-> {}, soft |-> {}]>>]
=============================================================================
