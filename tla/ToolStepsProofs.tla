--------------------------- MODULE ToolStepsProofs --------------------------
(***************************************************************************)
(* Theorems about ToolSteps and the model gateway under it: for any number *)
(* of deliveries, tenants, budgets, retries and agents, the budget bounds  *)
(* the traffic, prompts go out redacted, a replayed result belongs to the  *)
(* step that gets it, and a picked record belongs to the user that asked.  *)
(***************************************************************************)
EXTENDS ToolSteps, FiniteSetTheorems, TLAPS

CallFields == {"st", "tenant", "body", "left", "pieces", "out"}

GatewayTypeOK ==
  /\ limit \in [Tenants -> Nat] /\ used \in [Tenants -> Nat] /\ sent \in [Tenants -> Nat]
  /\ windows \in Nat \ {0} /\ DOMAIN call = Callers
  /\ \A c \in Callers : DOMAIN call[c] = CallFields /\ call[c].left \in 0..MaxRetries

(* The sends still owed to the calls of a tenant that are being tried: one *)
(* for each retry left, and one for the fallback model.                    *)
Credit(f, t) ==
  {x \in Callers \X (0..MaxRetries) :
     f[x[1]].st = "trying" /\ f[x[1]].tenant = t /\ x[2] <= f[x[1]].left}

(* What was sent and what is still owed is paid for by the calls the quota *)
(* let through, in this window and in the ones before.                     *)
Paid(t) == (MaxRetries + 2) * (limit[t] * (windows - 1) + used[t])
BudgetOK ==
  \A t \in Tenants : limit[t] > 0 =>
    used[t] <= limit[t] /\ sent[t] + Cardinality(Credit(call, t)) <= Paid(t)

(* No PII but a phone number against a date, on the wire and in the body   *)
(* that a retry would send again.                                          *)
CleanText(text) ==
  \A i \in DOMAIN text : text[i] \in Pii => text[i] = "phone" /\ DateLike(text, i)
CleanBody(body) == \A m \in DOMAIN body : CleanText(body[m].text)
CleanOK ==
  /\ \A c \in Callers : call[c].st \in {"trying", "fallback", "streaming"} => CleanBody(call[c].body)
  /\ \A w \in wire : w.kind # "embedding" => CleanBody(w.body)

GatewayInv == GatewayTypeOK /\ BudgetOK /\ CleanOK

JobFields == {"pc", "work", "i", "tool", "slot", "cands", "mine", "entity", "via", "outs", "failed", "asked",
              "status", "told"}

(* An output and the work and the tool it came from. *)
OwnOutput(out, w, tool, held) ==
  /\ out.own = <<w.tenant, w.request, w.step, tool>>
  /\ out.ref # <<>> => out.ref \in held

(* Where a delivery with the record r stands, the variables being held:    *)
(* a handler's step never enters the tool loop, a step in  *)
(* the loop passed the guard of its context, and what it has is its own.   *)
StageOK(j, r, held) ==
  /\ r.pc # "idle" => r.work \in Works(j)
  /\ r.pc \in {"handler", "elicit", "paused", "pick", "asked"} => r.work.route = "handler"
  /\ r.pc \in {"tools", "next", "lookup", "store"} => r.work.route = "tools"
  /\ \/ r.pc \in {"next", "lookup", "store"}
     \/ r.pc \in {"dispatch", "running"} /\ r.work.route = "tools"
     => FromRequest(r.work)
  /\ r.pc = "store" => r.tool \in DOMAIN r.outs
  /\ \A t \in DOMAIN r.outs : OwnOutput(r.outs[t], r.work, t, held)
  /\ r.pc = "pick" => r.cands \subseteq r.mine
  /\ r.pc \in {"handler", "elicit", "paused", "pick"} => r.via = None
  /\ r.via = "llm" => r.entity \in r.mine

StepsOK ==
  /\ DOMAIN job = Jobs
  /\ \A j \in Jobs : DOMAIN job[j] = JobFields /\ StageOK(j, job[j], stored)

(* The store holds what a delivery with that key has put. *)
IdemOK ==
  \A k \in DOMAIN idem : \E j \in Jobs : \E w \in Works(j) :
    k = IdempotencyKey(w, k[3]) /\ KeyBase(w) # None /\ OwnOutput(idem[k], w, k[3], stored)

StepsInv == GatewayInv /\ StepsOK /\ IdemOK

-----------------------------------------------------------------------------
(* The set of sends owed is finite, and grows by at most one call's worth. *)
LEMMA CreditFinite ==
  ASSUME NEW f, NEW t
  PROVE  IsFiniteSet(Credit(f, t)) /\ Cardinality(Credit(f, t)) \in Nat
<1> DEFINE all == Callers \X (0..MaxRetries)
<1>1. IsFiniteSet(0..MaxRetries) /\ IsFiniteSet(Callers)
  BY FS_Interval, GatewayAssumption
<1>2. IsFiniteSet(all)
  BY <1>1, FS_Product
<1>3. Credit(f, t) \in SUBSET all
  BY DEF Credit
<1> HIDE DEF all
<1>4. IsFiniteSet(Credit(f, t))
  BY <1>2, <1>3, FS_Subset
<1> QED BY <1>4, FS_CardinalityType

LEMMA CreditShrinks ==
  ASSUME NEW f, NEW g, NEW t, Credit(g, t) \subseteq Credit(f, t)
  PROVE  Cardinality(Credit(g, t)) <= Cardinality(Credit(f, t))
<1>1. IsFiniteSet(Credit(f, t)) /\ Credit(g, t) \in SUBSET Credit(f, t)
  BY CreditFinite
<1> QED BY <1>1, FS_Subset

LEMMA CreditSpent ==
  ASSUME NEW f, NEW g, NEW t, NEW x \in Credit(f, t), Credit(g, t) \subseteq Credit(f, t) \ {x}
  PROVE  Cardinality(Credit(g, t)) + 1 <= Cardinality(Credit(f, t))
<1> DEFINE F == Credit(f, t)
           G == Credit(g, t)
<1>1. IsFiniteSet(F) /\ Cardinality(F) \in Nat /\ Cardinality(G) \in Nat
  BY CreditFinite
<1> HIDE DEF F, G
<1>2. IsFiniteSet(F \ {x}) /\ Cardinality(F \ {x}) = Cardinality(F) - 1
  BY <1>1, FS_RemoveElement DEF F
<1>3. G \in SUBSET (F \ {x})
  BY DEF F, G
<1>4. Cardinality(G) <= Cardinality(F \ {x})
  BY <1>2, <1>3, FS_Subset
<1>5. Cardinality(G) + 1 <= Cardinality(F)
  BY <1>1, <1>2, <1>4
<1> QED BY <1>5 DEF F, G

LEMMA CreditOpened ==
  ASSUME NEW f, NEW g, NEW t, NEW c \in Callers, \A d \in Callers \ {c} : g[d] = f[d]
  PROVE  Cardinality(Credit(g, t)) <= Cardinality(Credit(f, t)) + (MaxRetries + 1)
<1> DEFINE F == Credit(f, t)
           G == Credit(g, t)
           own == {c} \X (0..MaxRetries)
<1>1. IsFiniteSet(F) /\ Cardinality(F) \in Nat /\ Cardinality(G) \in Nat
  BY CreditFinite
<1>2. IsFiniteSet(0..MaxRetries) /\ Cardinality(0..MaxRetries) = MaxRetries + 1
  BY FS_Interval, GatewayAssumption
<1>3. IsFiniteSet({c}) /\ Cardinality({c}) = 1
  BY FS_Singleton
<1>4. IsFiniteSet(own) /\ Cardinality(own) = MaxRetries + 1
  BY <1>2, <1>3, FS_Product, GatewayAssumption
<1>5. G \in SUBSET (F \cup own)
  <2>1. ASSUME NEW x \in G PROVE x \in F \cup own
    <3>1. x[1] \in Callers /\ x[2] \in 0..MaxRetries /\ x = <<x[1], x[2]>>
      BY DEF Credit
    <3>2. CASE x[1] = c
      BY <3>1, <3>2
    <3>3. CASE x[1] # c
      BY <3>1, <3>3 DEF Credit
    <3> QED BY <3>2, <3>3
  <2> QED BY <2>1
<1> HIDE DEF F, G, own
<1>6. /\ IsFiniteSet(F \cup own)
      /\ Cardinality(F \cup own) = Cardinality(F) + Cardinality(own) - Cardinality(F \cap own)
  BY <1>1, <1>4, FS_Union
<1>7. Cardinality(F \cap own) \in Nat
  <2>1. IsFiniteSet(F \cap own)
    BY <1>1, FS_Subset
  <2> QED BY <2>1, FS_CardinalityType
<1>8. Cardinality(G) <= Cardinality(F \cup own)
  BY <1>5, <1>6, FS_Subset
<1>9. Cardinality(G) <= Cardinality(F) + (MaxRetries + 1)
  BY <1>1, <1>4, <1>6, <1>7, <1>8, GatewayAssumption
<1> QED BY <1>9 DEF F, G

(* Redaction leaves a phone number only against a date, and the date and   *)
(* every word between them stay as they are.                               *)
LEMMA RedactedIsClean ==
  ASSUME NEW text, DOMAIN text \subseteq Nat
  PROVE  CleanText(RedactText(text))
<1> DEFINE out == RedactText(text)
           kept(i) == ~ (text[i] \in Pii /\ ~(text[i] = "phone" /\ DateLike(text, i)))
<1>1. /\ DOMAIN out = DOMAIN text /\ DOMAIN text \subseteq Nat
      /\ \A i \in DOMAIN text : out[i] = IF kept(i) THEN text[i] ELSE Scrubbed
  BY DEF RedactText
<1> HIDE DEF out
<1>2. Scrubbed \notin Pii /\ "date" \notin Pii
  BY DEF Scrubbed, Pii
<1> SUFFICES ASSUME NEW i \in DOMAIN text, out[i] \in Pii
             PROVE  out[i] = "phone" /\ DateLike(out, i)
  BY <1>1 DEF CleanText, out
<1>3. out[i] = text[i] /\ text[i] = "phone" /\ DateLike(text, i)
  BY <1>1, <1>2
<1>4. PICK k \in DOMAIN text :
        /\ text[k] = "date"
        /\ \A n \in DOMAIN text : (n \in i..k \/ n \in k..i) => text[n] \in {"phone", "date"}
  BY <1>3 DEF DateLike
<1>5. out[k] = "date"
  BY <1>1, <1>2, <1>4
<1>6. ASSUME NEW n \in DOMAIN text, n \in i..k \/ n \in k..i
      PROVE  out[n] \in {"phone", "date"}
  <2>1. text[n] \in {"phone", "date"}
    BY <1>4, <1>6
  <2>2. CASE text[n] = "date"
    BY <1>1, <1>2, <2>2
  <2>3. CASE text[n] = "phone"
    <3>1. \A m \in DOMAIN text : (m \in n..k \/ m \in k..n) => (m \in i..k \/ m \in k..i)
      BY <1>1, <1>6
    <3>2. DateLike(text, n)
      BY <1>4, <3>1 DEF DateLike
    <3> QED BY <1>1, <2>3, <3>2
  <2> QED BY <2>1, <2>2, <2>3
<1> QED BY <1>1, <1>3, <1>4, <1>5, <1>6 DEF DateLike

LEMMA PromptIsClean ==
  ASSUME NEW j \in Jobs, NEW w \in Works(j)
  PROVE  CleanBody(RedactMessages(Prompt(w)))
<1> DEFINE p == Prompt(w)
           body == RedactMessages(p)
<1>1. DOMAIN p = {1, 2} /\ \A m \in {1, 2} : DOMAIN p[m].text \subseteq Nat
  <2>1. DOMAIN w.text \subseteq Nat
    BY WorkAssumption
  <2>2. DOMAIN p = {1, 2} /\ p[1].text = <<"word">> /\ p[2].text = w.text
    BY DEF Prompt
  <2> HIDE DEF p
  <2> QED BY <2>1, <2>2
<1> HIDE DEF p
<1>2. DOMAIN body = DOMAIN p /\ \A m \in DOMAIN p : body[m].text = RedactText(p[m].text)
  BY DEF RedactMessages
<1> HIDE DEF body
<1>3. CleanBody(body)
  BY <1>1, <1>2, RedactedIsClean DEF CleanBody
<1> QED BY <1>3 DEF body, p

-----------------------------------------------------------------------------
(* A counter that goes up. *)
LEMMA Counted ==
  ASSUME NEW f \in [Tenants -> Nat], NEW t, NEW g, g = [f EXCEPT ![t] = @ + 1]
  PROVE  /\ g \in [Tenants -> Nat]
         /\ \A s \in Tenants : g[s] = IF s = t THEN f[s] + 1 ELSE f[s]
<1>1. g = [s \in Tenants |-> IF s = t THEN f[t] + 1 ELSE f[s]]
  OBVIOUS
<1>2. \A s \in Tenants : f[s] \in Nat
  OBVIOUS
<1>3. \A s \in Tenants : g[s] = IF s = t THEN f[s] + 1 ELSE f[s]
  BY <1>1
<1>4. \A s \in Tenants : g[s] \in Nat
  BY <1>2, <1>3
<1>5. DOMAIN g = Tenants /\ g = [s \in DOMAIN g |-> g[s]]
  BY <1>1
<1> QED BY <1>3, <1>4, <1>5

(* The steps of the gateway.  One that spends no quota keeps the invariant *)
(* when what it sends was owed and what it may send again is clean.        *)
LEMMA CallKeeps ==
  ASSUME GatewayInv, NEW c \in Callers, NEW r, call' = [call EXCEPT ![c] = r],
         DOMAIN r = CallFields, r.left \in 0..MaxRetries,
         r.st \in {"trying", "fallback", "streaming"} => CleanBody(r.body),
         UNCHANGED <<limit, used, windows>>, sent' \in [Tenants -> Nat],
         \A w \in wire' : w.kind # "embedding" => CleanBody(w.body),
         \A t \in Tenants :
           sent'[t] + Cardinality(Credit(call', t)) <= sent[t] + Cardinality(Credit(call, t))
  PROVE  GatewayInv'
<1>1. DOMAIN call = Callers
  BY DEF GatewayInv, GatewayTypeOK
<1>2. DOMAIN call' = Callers /\ call'[c] = r /\ \A d \in Callers \ {c} : call'[d] = call[d]
  BY <1>1
<1>3. GatewayTypeOK'
  BY <1>2 DEF GatewayInv, GatewayTypeOK
<1>4. CleanOK'
  BY <1>2 DEF GatewayInv, CleanOK
<1>5. ASSUME NEW t \in Tenants, limit'[t] > 0
      PROVE  used'[t] <= limit'[t] /\ sent'[t] + Cardinality(Credit(call', t)) <= Paid(t)'
  <2>1. Paid(t)' = Paid(t)
    BY DEF Paid
  <2>2. used[t] <= limit[t] /\ sent[t] + Cardinality(Credit(call, t)) <= Paid(t)
    BY <1>5 DEF GatewayInv, BudgetOK
  <2>3. /\ sent[t] \in Nat /\ sent'[t] \in Nat /\ Paid(t) \in Int
        /\ Cardinality(Credit(call, t)) \in Nat /\ Cardinality(Credit(call', t)) \in Nat
    <3>1. limit[t] \in Int /\ windows \in Int /\ used[t] \in Int /\ MaxRetries \in Int
      BY GatewayAssumption DEF GatewayInv, GatewayTypeOK
    <3>2. Paid(t) \in Int
      BY <3>1 DEF Paid
    <3> QED BY <3>2, CreditFinite DEF GatewayInv, GatewayTypeOK
  <2>4. sent'[t] + Cardinality(Credit(call', t)) <= sent[t] + Cardinality(Credit(call, t))
    OBVIOUS
  <2>5. sent'[t] + Cardinality(Credit(call', t)) <= Paid(t)'
    BY <2>1, <2>2, <2>3, <2>4
  <2> QED BY <2>2, <2>5
<1>6. BudgetOK'
  BY <1>5 DEF BudgetOK
<1> QED BY <1>3, <1>4, <1>6 DEF GatewayInv

(* In particular one that sends nothing and leaves the call as it was, or  *)
(* no longer to be tried.                                                  *)
LEMMA QuietKeeps ==
  ASSUME GatewayInv, NEW c \in Callers, NEW r, call' = [call EXCEPT ![c] = r],
         DOMAIN r = CallFields, r.left \in 0..MaxRetries,
         r.st \in {"idle", "back"} \/ (r.st = "streaming" /\ call[c].st = "streaming" /\ r.body = call[c].body),
         UNCHANGED <<limit, used, sent, wire, windows>>
  PROVE  GatewayInv'
<1>1. DOMAIN call = Callers
  BY DEF GatewayInv, GatewayTypeOK
<1>2. call'[c] = r /\ \A d \in Callers \ {c} : call'[d] = call[d]
  BY <1>1
<1>3. ASSUME NEW t \in Tenants
      PROVE  sent'[t] + Cardinality(Credit(call', t)) <= sent[t] + Cardinality(Credit(call, t))
  <2>1. Credit(call', t) \subseteq Credit(call, t)
    <3>1. ASSUME NEW x \in Credit(call', t) PROVE x \in Credit(call, t)
      <4>1. x[1] \in Callers /\ call'[x[1]].st = "trying"
        BY DEF Credit
      <4>2. x[1] # c
        BY <1>2, <4>1
      <4> QED BY <1>2, <4>1, <4>2 DEF Credit
    <3> QED BY <3>1
  <2>2. Cardinality(Credit(call', t)) <= Cardinality(Credit(call, t))
    BY <2>1, CreditShrinks
  <2>3. /\ sent'[t] = sent[t] /\ sent[t] \in Nat
        /\ Cardinality(Credit(call, t)) \in Nat /\ Cardinality(Credit(call', t)) \in Nat
    BY CreditFinite DEF GatewayInv, GatewayTypeOK
  <2> QED BY <2>2, <2>3
<1>4. r.st \in {"trying", "fallback", "streaming"} => CleanBody(r.body)
  BY DEF GatewayInv, CleanOK
<1>5. \A w \in wire' : w.kind # "embedding" => CleanBody(w.body)
  BY DEF GatewayInv, CleanOK
<1>6. sent' \in [Tenants -> Nat]
  BY DEF GatewayInv, GatewayTypeOK
<1> QED BY <1>3, <1>4, <1>5, <1>6, CallKeeps

LEMMA HangsKeeps ==
  ASSUME GatewayInv, NEW c \in Callers, Hangs(c)
  PROVE  GatewayInv'
<1>1. DOMAIN NoCall = CallFields /\ NoCall.left \in 0..MaxRetries /\ NoCall.st = "idle"
  BY GatewayAssumption DEF NoCall, CallFields
<1>2. call' = [call EXCEPT ![c] = NoCall] /\ UNCHANGED <<limit, used, sent, wire, windows>>
  BY DEF Hangs
<1> HIDE DEF NoCall
<1> QED BY <1>1, <1>2, QuietKeeps

LEMMA EndsKeeps ==
  ASSUME GatewayInv, NEW c \in Callers, NEW out, Ends(c, out),
         UNCHANGED <<limit, used, sent, wire, windows>>
  PROVE  GatewayInv'
<1> DEFINE r == [call[c] EXCEPT !.st = "back", !.out = out]
<1>1. DOMAIN call = Callers /\ DOMAIN call[c] = CallFields /\ call[c].left \in 0..MaxRetries
  BY DEF GatewayInv, GatewayTypeOK
<1>2. DOMAIN r = CallFields /\ r.st = "back" /\ r.left = call[c].left
  BY <1>1 DEF CallFields
<1>3. call' = [call EXCEPT ![c] = r]
  BY <1>1 DEF Ends
<1> HIDE DEF r
<1> QED BY <1>1, <1>2, <1>3, QuietKeeps

(* A retry and the turn to the fallback model send what was owed.          *)
LEMMA ResendKeeps ==
  ASSUME GatewayInv, NEW c \in Callers, call[c].st = "trying", NEW kind,
         Sent(call[c].tenant, kind, call[c].body), UNCHANGED <<limit, used, windows>>,
         \/ call[c].left > 0 /\ call' = [call EXCEPT ![c].left = @ - 1]
         \/ call' = [call EXCEPT ![c].st = "fallback"]
  PROVE  GatewayInv'
<1> DEFINE s == call[c].tenant
           r == call'[c]
           x == <<c, call[c].left>>
<1>1. DOMAIN call = Callers /\ DOMAIN call[c] = CallFields /\ call[c].left \in 0..MaxRetries
  BY DEF GatewayInv, GatewayTypeOK
<1>2. /\ call' = [call EXCEPT ![c] = r] /\ DOMAIN r = CallFields /\ r.left \in 0..MaxRetries
      /\ r.tenant = s /\ r.body = call[c].body
      /\ (r.st = "trying" /\ call[c].left > 0 /\ r.left = call[c].left - 1) \/ r.st = "fallback"
  <2>1. CASE call[c].left > 0 /\ call' = [call EXCEPT ![c].left = @ - 1]
    <3> DEFINE q == [call[c] EXCEPT !.left = call[c].left - 1]
    <3>1. call' = [call EXCEPT ![c] = q] /\ r = q
      BY <1>1, <2>1
    <3>2. /\ DOMAIN q = CallFields /\ q.left = call[c].left - 1 /\ q.tenant = s
          /\ q.body = call[c].body /\ q.st = call[c].st
      BY <1>1 DEF CallFields
    <3>3. call[c].left - 1 \in 0..MaxRetries
      BY <1>1, <2>1, GatewayAssumption
    <3> HIDE DEF q
    <3> QED BY <2>1, <3>1, <3>2, <3>3
  <2>2. CASE call' = [call EXCEPT ![c].st = "fallback"]
    <3> DEFINE q == [call[c] EXCEPT !.st = "fallback"]
    <3>1. call' = [call EXCEPT ![c] = q] /\ r = q
      BY <1>1, <2>2
    <3>2. /\ DOMAIN q = CallFields /\ q.left = call[c].left /\ q.tenant = s
          /\ q.body = call[c].body /\ q.st = "fallback"
      BY <1>1 DEF CallFields
    <3> HIDE DEF q
    <3> QED BY <1>1, <3>1, <3>2
  <2> QED BY <2>1, <2>2
<1> HIDE DEF r
<1>3. call'[c] = r /\ \A d \in Callers \ {c} : call'[d] = call[d]
  BY <1>1, <1>2
<1>4. /\ sent' \in [Tenants -> Nat]
      /\ \A t \in Tenants : sent'[t] = IF t = s THEN sent[t] + 1 ELSE sent[t]
  BY Counted DEF Sent, GatewayInv, GatewayTypeOK
<1>5. CleanBody(call[c].body)
  BY DEF GatewayInv, CleanOK
<1>6. \A w \in wire' : w.kind # "embedding" => CleanBody(w.body)
  BY <1>5 DEF Sent, GatewayInv, CleanOK
<1>7. ASSUME NEW t \in Tenants
      PROVE  sent'[t] + Cardinality(Credit(call', t)) <= sent[t] + Cardinality(Credit(call, t))
  <2>1. /\ Cardinality(Credit(call, t)) \in Nat /\ Cardinality(Credit(call', t)) \in Nat
        /\ sent[t] \in Nat
    BY CreditFinite DEF GatewayInv, GatewayTypeOK
  <2>2. ASSUME NEW y \in Credit(call', t) PROVE y \in Credit(call, t) /\ y # x
    <3>1. /\ y \in Callers \X (0..MaxRetries) /\ y[1] \in Callers /\ y[2] \in 0..MaxRetries
          /\ call'[y[1]].st = "trying" /\ call'[y[1]].tenant = t /\ y[2] <= call'[y[1]].left
      BY DEF Credit
    <3>2. CASE y[1] = c
      <4>1. r.st = "trying" /\ r.left = call[c].left - 1 /\ t = s /\ y[2] <= call[c].left - 1
        BY <1>2, <1>3, <3>1, <3>2
      <4>2. y[2] <= call[c].left /\ y[2] # call[c].left
        BY <1>1, <3>1, <4>1, GatewayAssumption
      <4> QED BY <3>1, <3>2, <4>1, <4>2 DEF Credit
    <3>3. CASE y[1] # c
      BY <1>3, <3>1, <3>3 DEF Credit
    <3> QED BY <3>2, <3>3
  <2>3. CASE t = s
    <3>1. x \in Credit(call, t)
      BY <1>1, <2>3, GatewayAssumption DEF Credit
    <3>2. Cardinality(Credit(call', t)) + 1 <= Cardinality(Credit(call, t))
      <4>1. Credit(call', t) \subseteq Credit(call, t) \ {x}
        BY <2>2
      <4> QED BY <3>1, <4>1, CreditSpent
    <3> QED BY <1>4, <2>1, <2>3, <3>2
  <2>4. CASE t # s
    <3>1. Cardinality(Credit(call', t)) <= Cardinality(Credit(call, t))
      <4>1. Credit(call', t) \subseteq Credit(call, t)
        BY <2>2
      <4> QED BY <4>1, CreditShrinks
    <3> QED BY <1>4, <2>1, <2>4, <3>1
  <2> QED BY <2>3, <2>4
<1> QED BY <1>2, <1>4, <1>5, <1>6, <1>7, CallKeeps

LEMMA ProviderKeeps ==
  ASSUME GatewayInv, NEW c \in Callers, ProviderStep(c)
  PROVE  GatewayInv'
<1>1. CASE Answers(c) \/ EmbedEnds(c) \/ StreamCloses(c) \/ Unreadable(c)
  <2>1. UNCHANGED <<limit, used, sent, wire, windows>> /\ \E out : Ends(c, out)
    BY <1>1 DEF Answers, EmbedEnds, StreamCloses, Unreadable
  <2> QED BY <2>1, EndsKeeps
<1>2. CASE Delta(c)
  <2> DEFINE r == [call[c] EXCEPT !.pieces = call[c].pieces + 1]
  <2>1. DOMAIN call = Callers /\ DOMAIN call[c] = CallFields /\ call[c].left \in 0..MaxRetries
    BY DEF GatewayInv, GatewayTypeOK
  <2>2. DOMAIN r = CallFields /\ r.st = call[c].st /\ r.left = call[c].left /\ r.body = call[c].body
    BY <2>1 DEF CallFields
  <2>3. /\ call' = [call EXCEPT ![c] = r] /\ call[c].st = "streaming"
        /\ UNCHANGED <<limit, used, sent, wire, windows>>
    BY <1>2, <2>1 DEF Delta
  <2> HIDE DEF r
  <2> QED BY <2>1, <2>2, <2>3, QuietKeeps
<1>3. CASE Transient(c)
  <2>1. /\ UNCHANGED <<limit, used, windows>>
        /\ \/ /\ call[c].st = "trying" /\ \E kind : Sent(call[c].tenant, kind, call[c].body)
              /\ \/ call[c].left > 0 /\ call' = [call EXCEPT ![c].left = @ - 1]
                 \/ call' = [call EXCEPT ![c].st = "fallback"]
           \/ Ends(c, "gateway") /\ UNCHANGED <<sent, wire>>
    BY <1>3 DEF Transient
  <2> QED BY <2>1, ResendKeeps, EndsKeeps
<1> QED BY <1>1, <1>2, <1>3 DEF ProviderStep

(* Arithmetic of the budget. *)
LEMMA BudgetSums ==
  ASSUME NEW m \in Nat, NEW l \in Nat, NEW k \in Nat, NEW u \in Nat
  PROVE  /\ (m + 2) * (l * k + (u + 1)) = (m + 2) * (l * k + u) + (m + 2)
         /\ u <= l => (m + 2) * (l * k + u) <= (m + 2) * (l * (k + 1) + 0)
         /\ u <= l => (m + 2) * (l * k + u) <= (m + 2) * l * (k + 1)
         /\ (m + 2) * (l * k + u) \in Nat
<1> DEFINE a == m + 2
           b == l * k
           d == b + u
<1>1. a \in Nat /\ b \in Nat /\ d \in Nat /\ l * (k + 1) = b + l
  OBVIOUS
<1>2. \A p, q, n \in Nat : p <= q => n * p <= n * q
  OBVIOUS
<1>3. \A p, q, n \in Nat : n * (p + q) = n * p + n * q /\ (n * p) * q = n * (p * q) /\ n * p \in Nat
  OBVIOUS
<1>4. u <= l => a * (b + u) <= a * (b + l)
  <2>1. u <= l => b + u <= b + l
    BY <1>1
  <2>2. b + u \in Nat /\ b + l \in Nat
    BY <1>1
  <2> HIDE DEF a, b
  <2> QED BY <1>1, <1>2, <2>1, <2>2
<1>5. a * (b + (u + 1)) = a * (b + u) + a
  <2> HIDE DEF a, b
  <2>1. b + (u + 1) = (b + u) + 1 /\ b + u \in Nat
    BY <1>1
  <2>2. a * ((b + u) + 1) = a * (b + u) + a * 1
    BY <1>1, <1>3, <2>1
  <2> QED BY <1>1, <2>1, <2>2
<1>6. a * (b + u) \in Nat
  BY <1>1, <1>3
<1>7. a * l * (k + 1) = a * (b + l)
  BY <1>1, <1>3
<1>8. l * (k + 1) + 0 = b + l
  BY <1>1
<1> QED BY <1>4, <1>5, <1>6, <1>7, <1>8

(* A call the quota lets through pays for itself, its retries and its      *)
(* fallback.                                                               *)
LEMMA OpensKeeps ==
  ASSUME GatewayInv, NEW c \in Callers, NEW t, NEW st, st \in {"trying", "streaming", "embedding"},
         NEW body, st # "embedding" => CleanBody(body), NEW left \in 0..MaxRetries,
         Opens(c, t, st, body, left)
  PROVE  GatewayInv'
<1>1. DOMAIN call = Callers /\ DOMAIN call[c] = CallFields
  BY DEF GatewayInv, GatewayTypeOK
<1>2. CASE Spent(t)
  <2> DEFINE r == [NoCall EXCEPT !.st = "back", !.out = "gateway"]
  <2>1. DOMAIN r = CallFields /\ r.st = "back" /\ r.left \in 0..MaxRetries
    BY GatewayAssumption DEF NoCall, CallFields
  <2>2. call' = [call EXCEPT ![c] = r] /\ UNCHANGED <<limit, used, sent, wire, windows>>
    BY <1>2 DEF Opens
  <2> HIDE DEF r
  <2> QED BY <2>1, <2>2, QuietKeeps
<1>3. CASE ~ Spent(t)
  <2> DEFINE r == [NoCall EXCEPT !.st = st, !.tenant = t, !.body = body, !.left = left]
  <2>1. DOMAIN r = CallFields /\ r.st = st /\ r.left = left /\ r.tenant = t /\ r.body = body
    BY DEF NoCall, CallFields
  <2>2. /\ call' = [call EXCEPT ![c] = r] /\ UNCHANGED <<limit, windows>>
        /\ used' = [used EXCEPT ![t] = @ + 1] /\ Sent(t, st, body)
    BY <1>3 DEF Opens
  <2> HIDE DEF r
  <2>3. /\ DOMAIN call' = Callers /\ call'[c] = r /\ \A d \in Callers \ {c} : call'[d] = call[d]
    BY <1>1, <2>2
  <2>4. /\ sent' \in [Tenants -> Nat] /\ used' \in [Tenants -> Nat]
        /\ \A s \in Tenants : sent'[s] = IF s = t THEN sent[s] + 1 ELSE sent[s]
        /\ \A s \in Tenants : used'[s] = IF s = t THEN used[s] + 1 ELSE used[s]
    BY <2>2, Counted DEF Sent, GatewayInv, GatewayTypeOK
  <2>5. GatewayTypeOK'
    BY <2>1, <2>2, <2>3, <2>4 DEF GatewayInv, GatewayTypeOK
  <2>6. CleanOK'
    <3>1. \A w \in wire' : w.kind # "embedding" => CleanBody(w.body)
      BY <2>2 DEF Sent, GatewayInv, CleanOK
    <3>2. \A d \in Callers : call'[d].st \in {"trying", "fallback", "streaming"} => CleanBody(call'[d].body)
      BY <2>1, <2>3 DEF GatewayInv, CleanOK
    <3> QED BY <3>1, <3>2 DEF CleanOK
  <2>7. ASSUME NEW s \in Tenants, limit'[s] > 0
        PROVE  used'[s] <= limit'[s] /\ sent'[s] + Cardinality(Credit(call', s)) <= Paid(s)'
    <3>1. /\ limit'[s] = limit[s] /\ limit[s] \in Nat /\ limit[s] > 0 /\ windows - 1 \in Nat
          /\ used[s] \in Nat /\ sent[s] \in Nat /\ MaxRetries \in Nat
      BY <2>2, <2>7, GatewayAssumption DEF GatewayInv, GatewayTypeOK
    <3>2. /\ Cardinality(Credit(call, s)) \in Nat /\ Cardinality(Credit(call', s)) \in Nat
      BY CreditFinite
    <3>3. used[s] <= limit[s] /\ sent[s] + Cardinality(Credit(call, s)) <= Paid(s)
      BY <3>1 DEF GatewayInv, BudgetOK
    <3>4. CASE s = t
      <4>1. used'[s] = used[s] + 1 /\ sent'[s] = sent[s] + 1 /\ used[s] < limit[s]
        BY <1>3, <2>4, <3>1, <3>4 DEF Spent
      <4>2. Cardinality(Credit(call', s)) <= Cardinality(Credit(call, s)) + (MaxRetries + 1)
        BY <2>3, CreditOpened
      <4>3. Paid(s)' = (MaxRetries + 2) * (limit[s] * (windows - 1) + (used[s] + 1))
        BY <2>2, <3>1, <4>1 DEF Paid
      <4>4. Paid(s)' = Paid(s) + (MaxRetries + 2) /\ Paid(s) \in Nat
        BY <3>1, <4>3, BudgetSums DEF Paid
      <4> QED BY <3>1, <3>2, <3>3, <4>1, <4>2, <4>4
    <3>5. CASE s # t
      <4>1. used'[s] = used[s] /\ sent'[s] = sent[s]
        BY <2>4, <3>5
      <4>2. Credit(call', s) \subseteq Credit(call, s)
        <5>1. ASSUME NEW y \in Credit(call', s) PROVE y \in Credit(call, s)
          <6>1. y[1] \in Callers /\ call'[y[1]].tenant = s
            BY DEF Credit
          <6>2. y[1] # c
            BY <2>1, <2>3, <3>5, <6>1
          <6> QED BY <2>3, <6>1, <6>2 DEF Credit
        <5> QED BY <5>1
      <4>3. Cardinality(Credit(call', s)) <= Cardinality(Credit(call, s))
        BY <4>2, CreditShrinks
      <4>4. Paid(s)' = Paid(s) /\ Paid(s) \in Nat
        BY <2>2, <3>1, <4>1, BudgetSums DEF Paid
      <4> QED BY <3>1, <3>2, <3>3, <4>1, <4>3, <4>4
    <3> QED BY <3>4, <3>5
  <2>8. BudgetOK'
    BY <2>7 DEF BudgetOK
  <2> QED BY <2>5, <2>6, <2>8 DEF GatewayInv
<1> QED BY <1>2, <1>3

LEMMA WindowKeeps ==
  ASSUME GatewayInv, ResetWindow
  PROVE  GatewayInv'
<1>1. /\ windows' = windows + 1 /\ used' = [t \in Tenants |-> 0] /\ UNCHANGED <<limit, call, sent, wire>>
  BY DEF ResetWindow
<1>2. GatewayTypeOK' /\ CleanOK'
  BY <1>1 DEF GatewayInv, GatewayTypeOK, CleanOK
<1>3. ASSUME NEW t \in Tenants, limit'[t] > 0
      PROVE  used'[t] <= limit'[t] /\ sent'[t] + Cardinality(Credit(call', t)) <= Paid(t)'
  <2>1. /\ limit'[t] = limit[t] /\ limit[t] \in Nat /\ limit[t] > 0 /\ windows - 1 \in Nat
        /\ used[t] \in Nat /\ sent[t] \in Nat /\ MaxRetries \in Nat /\ used'[t] = 0
        /\ windows' - 1 = (windows - 1) + 1
    BY <1>1, <1>3, GatewayAssumption DEF GatewayInv, GatewayTypeOK
  <2>2. Cardinality(Credit(call, t)) \in Nat
    BY CreditFinite
  <2>3. used[t] <= limit[t] /\ sent[t] + Cardinality(Credit(call, t)) <= Paid(t)
    BY <2>1 DEF GatewayInv, BudgetOK
  <2>4. Paid(t)' = (MaxRetries + 2) * (limit[t] * ((windows - 1) + 1) + 0)
    BY <2>1 DEF Paid
  <2>5. Paid(t) <= Paid(t)' /\ Paid(t) \in Nat
    BY <2>1, <2>3, <2>4, BudgetSums DEF Paid
  <2>6. Paid(t)' \in Int
    BY <2>1, <2>4
  <2> QED BY <1>1, <2>1, <2>2, <2>3, <2>5, <2>6
<1>4. BudgetOK'
  BY <1>3 DEF BudgetOK
<1> QED BY <1>2, <1>4 DEF GatewayInv

LEMMA GatewayStays ==
  ASSUME GatewayInv, UNCHANGED gateway
  PROVE  GatewayInv'
BY DEF gateway, GatewayInv, GatewayTypeOK, BudgetOK, Paid, Credit, CleanOK

LEMMA GatewayStarts ==
  ASSUME GatewayInit
  PROVE  GatewayInv
<1>1. DOMAIN NoCall = CallFields /\ NoCall.left = 0 /\ NoCall.st = "idle"
  BY DEF NoCall, CallFields
<1>2. GatewayTypeOK
  <2>1. \A c \in Callers : call[c] = NoCall
    BY DEF GatewayInit
  <2>2. limit \in [Tenants -> Nat] /\ 0 \in 0..MaxRetries
    <3>1. limit \in [Tenants -> Limits] /\ Limits \subseteq Nat
      BY GatewayAssumption DEF GatewayInit
    <3>2. limit \in [Tenants -> Nat]
      BY <3>1
    <3>3. 0 \in 0..MaxRetries
      BY GatewayAssumption
    <3> QED BY <3>2, <3>3
  <2>3. used \in [Tenants -> Nat] /\ sent \in [Tenants -> Nat] /\ windows \in Nat \ {0} /\ DOMAIN call = Callers
    BY DEF GatewayInit
  <2> QED BY <1>1, <2>1, <2>2, <2>3 DEF GatewayTypeOK
<1>3. CleanOK
  BY <1>1 DEF GatewayInit, CleanOK
<1>4. ASSUME NEW t \in Tenants
      PROVE  used[t] <= limit[t] /\ sent[t] + Cardinality(Credit(call, t)) <= Paid(t)
  <2>1. /\ used[t] = 0 /\ sent[t] = 0 /\ windows = 1 /\ limit[t] \in Nat /\ MaxRetries \in Nat
        /\ \A c \in Callers : call[c] = NoCall
    BY GatewayAssumption DEF GatewayInit
  <2>2. Credit(call, t) = {}
    BY <1>1, <2>1 DEF Credit
  <2>3. Cardinality(Credit(call, t)) = 0
    BY <2>2, FS_EmptySet
  <2>4. Paid(t) = (MaxRetries + 2) * (limit[t] * 0 + 0)
    BY <2>1 DEF Paid
  <2>5. Paid(t) \in Nat
    BY <2>1, <2>4, BudgetSums
  <2> QED BY <2>1, <2>3, <2>5
<1> QED BY <1>2, <1>3, <1>4 DEF GatewayInv, BudgetOK

-----------------------------------------------------------------------------
(* The steps of a delivery. *)
LEMMA StartKeeps ==
  ASSUME GatewayInv, NEW j \in Jobs, NEW w \in Works(j), NEW t,
         \/ StartCall(j, t, Prompt(w)) \/ StartStream(j, t, Prompt(w)) \/ StartEmbed(j, t, Prompt(w))
  PROVE  GatewayInv'
<1>1. j \in Callers /\ MaxRetries \in 0..MaxRetries /\ 0 \in 0..MaxRetries
  BY GatewayAssumption DEF Jobs
<1>2. CleanBody(RedactMessages(Prompt(w)))
  BY PromptIsClean
<1>3. CASE StartCall(j, t, Prompt(w))
  BY <1>1, <1>2, <1>3, OpensKeeps DEF StartCall
<1>4. CASE StartStream(j, t, Prompt(w))
  BY <1>1, <1>2, <1>4, OpensKeeps DEF StartStream
<1>5. CASE StartEmbed(j, t, Prompt(w))
  BY <1>1, <1>5, OpensKeeps DEF StartEmbed
<1> QED BY <1>3, <1>4, <1>5

(* Variables that are added take nothing away. *)
LEMMA StageGrows ==
  ASSUME NEW j, NEW r, NEW held, StageOK(j, r, held), NEW kept, held \subseteq kept
  PROVE  StageOK(j, r, kept)
BY DEF StageOK, OwnOutput

LEMMA IdemStays ==
  ASSUME IdemOK, UNCHANGED idem, stored \subseteq stored'
  PROVE  IdemOK'
BY DEF IdemOK, OwnOutput

LEMMA StepKeeps ==
  ASSUME StepsInv, GatewayInv', IdemOK', NEW j \in Jobs, NEW r, Go(j, r), DOMAIN r = JobFields,
         stored \subseteq stored', StageOK(j, r, stored')
  PROVE  StepsInv'
<1>1. DOMAIN job = Jobs
  BY DEF StepsInv, StepsOK
<1>2. DOMAIN job' = Jobs /\ job'[j] = r /\ \A i \in Jobs \ {j} : job'[i] = job[i]
  BY <1>1 DEF Go
<1>3. \A i \in Jobs : DOMAIN job[i] = JobFields /\ StageOK(i, job[i], stored')
  BY StageGrows DEF StepsInv, StepsOK
<1>4. StepsOK'
  BY <1>2, <1>3 DEF StepsOK
<1> QED BY <1>4 DEF StepsInv

(* A delivery that moves on, with nothing stored. *)
LEMMA MoveKeeps ==
  ASSUME StepsInv, GatewayInv', UNCHANGED stores, NEW j \in Jobs, NEW r, Go(j, r),
         DOMAIN r = JobFields, StageOK(j, r, stored)
  PROVE  StepsInv'
<1>1. UNCHANGED <<records, idem, stored>>
  BY DEF stores
<1>2. IdemOK'
  BY <1>1, IdemStays DEF StepsInv
<1> QED BY <1>1, <1>2, StepKeeps

LEMMA JobFacts ==
  ASSUME StepsInv, NEW j \in Jobs
  PROVE  GatewayInv /\ DOMAIN job[j] = JobFields /\ StageOK(j, job[j], stored)
BY DEF StepsInv, StepsOK

(* The moves that keep what the delivery holds. *)
LEMMA Moves ==
  ASSUME NEW j, NEW q, NEW held, StageOK(j, q, held), q.pc # "idle",
         NEW r, r.work = q.work, r.outs = q.outs, r.via = q.via, r.entity = q.entity, r.mine = q.mine,
         \/ r.pc \in {"end", "judge"}
         \/ r.pc \in {"asked", "dispatch"} /\ q.work.route = "handler"
         \/ r.pc \in {"elicit", "paused"} /\ q.pc \in {"handler", "elicit"}
         \/ r.pc \in {"next", "lookup", "dispatch"} /\ q.work.route = "tools" /\ FromRequest(q.work)
         \/ r.pc = "running" /\ q.pc = "dispatch"
  PROVE  StageOK(j, r, held)
BY DEF StageOK

LEMMA ResultFacts ==
  ASSUME StepsInv, NEW j \in Jobs, job[j].pc # "idle", NEW status, NEW r, r = Result(job[j], status)
  PROVE  DOMAIN r = JobFields /\ StageOK(j, r, stored)
<1>1. DOMAIN job[j] = JobFields /\ StageOK(j, job[j], stored)
  BY JobFacts
<1>2. /\ DOMAIN r = JobFields /\ r.pc = "end" /\ r.work = job[j].work /\ r.outs = job[j].outs
      /\ r.via = job[j].via /\ r.entity = job[j].entity /\ r.mine = job[j].mine
  BY <1>1 DEF Result, JobFields
<1> QED BY <1>1, <1>2, Moves

LEMMA EndsStep ==
  ASSUME StepsInv, GatewayInv', UNCHANGED stores, NEW j \in Jobs, job[j].pc # "idle",
         \/ \E status : Go(j, Result(job[j], status))
         \/ \E status, told : Go(j, [Result(job[j], status) EXCEPT !.told = told])
  PROVE  StepsInv'
<1>1. CASE \E status : Go(j, Result(job[j], status))
  BY <1>1, ResultFacts, MoveKeeps
<1>2. ASSUME NEW status, NEW told, Go(j, [Result(job[j], status) EXCEPT !.told = told])
      PROVE  StepsInv'
  <2> DEFINE r == [Result(job[j], status) EXCEPT !.told = told]
  <2>1. DOMAIN job[j] = JobFields /\ StageOK(j, job[j], stored)
    BY JobFacts
  <2>2. /\ DOMAIN r = JobFields /\ r.pc = "end" /\ r.work = job[j].work /\ r.outs = job[j].outs
        /\ r.via = job[j].via /\ r.entity = job[j].entity /\ r.mine = job[j].mine
    BY <2>1 DEF Result, JobFields
  <2> HIDE DEF r
  <2>3. StageOK(j, r, stored)
    BY <2>1, <2>2, Moves
  <2> QED BY <1>2, <2>2, <2>3, MoveKeeps DEF r
<1> QED BY <1>1, <1>2

LEMMA DeliverKeeps ==
  ASSUME StepsInv, NEW j \in Jobs, Deliver(j)
  PROVE  StepsInv'
<1>1. PICK w \in Works(j) : Go(j, [Fresh EXCEPT !.pc = w.route, !.work = w])
  BY DEF Deliver
<1> DEFINE r == [Fresh EXCEPT !.pc = w.route, !.work = w]
<1>2. /\ DOMAIN r = JobFields /\ r.pc = w.route /\ r.work = w /\ r.outs = <<>> /\ r.via = None
  BY DEF Fresh, JobFields
<1>3. w.route \in {"handler", "tools", "boundary"}
  BY WorkAssumption
<1> HIDE DEF r
<1>4. StageOK(j, r, stored)
  BY <1>2, <1>3 DEF StageOK, None
<1>5. GatewayInv' /\ UNCHANGED stores
  BY JobFacts, GatewayStays DEF Deliver
<1> QED BY <1>1, <1>2, <1>4, <1>5, MoveKeeps DEF r

(* HandlerStepExecutor. *)
LEMMA HandlerRunKeeps ==
  ASSUME StepsInv, NEW j \in Jobs, HandlerRun(j)
  PROVE  StepsInv'
<1>1. /\ DOMAIN job[j] = JobFields /\ StageOK(j, job[j], stored) /\ job[j].pc = "handler"
      /\ GatewayInv' /\ UNCHANGED stores
  BY JobFacts, GatewayStays DEF HandlerRun, At
<1>2. \/ Go(j, Result(job[j], "failed"))
      \/ \E pc \in {"elicit", "dispatch"} : \E tool, slot :
           Go(j, [job[j] EXCEPT !.pc = pc, !.tool = tool, !.slot = slot])
  BY DEF HandlerRun
<1>3. ASSUME NEW pc \in {"elicit", "dispatch"}, NEW tool, NEW slot,
             Go(j, [job[j] EXCEPT !.pc = pc, !.tool = tool, !.slot = slot])
      PROVE  StepsInv'
  <2> DEFINE r == [job[j] EXCEPT !.pc = pc, !.tool = tool, !.slot = slot]
  <2>1. /\ DOMAIN r = JobFields /\ r.pc = pc /\ r.work = job[j].work /\ r.outs = job[j].outs
        /\ r.via = job[j].via /\ r.entity = job[j].entity /\ r.mine = job[j].mine
    BY <1>1 DEF JobFields
  <2>2. job[j].work.route = "handler"
    BY <1>1 DEF StageOK
  <2> HIDE DEF r
  <2>3. StageOK(j, r, stored)
    BY <1>1, <2>1, <2>2, Moves
  <2> QED BY <1>1, <1>3, <2>1, <2>3, MoveKeeps DEF r
<1> QED BY <1>1, <1>2, <1>3, EndsStep

LEMMA ElicitKeeps ==
  ASSUME StepsInv, NEW j \in Jobs, ElicitEntity(j)
  PROVE  StepsInv'
<1>1. /\ DOMAIN job[j] = JobFields /\ StageOK(j, job[j], stored) /\ job[j].pc = "elicit"
      /\ GatewayInv' /\ UNCHANGED stores
  BY JobFacts, GatewayStays DEF ElicitEntity, At
<1>2. PICK cands : Go(j, [job[j] EXCEPT !.pc = "paused", !.cands = cands])
  BY DEF ElicitEntity
<1> DEFINE r == [job[j] EXCEPT !.pc = "paused", !.cands = cands]
<1>3. /\ DOMAIN r = JobFields /\ r.pc = "paused" /\ r.work = job[j].work /\ r.outs = job[j].outs
      /\ r.via = job[j].via /\ r.entity = job[j].entity /\ r.mine = job[j].mine
  BY <1>1 DEF JobFields
<1>4. job[j].work.route = "handler"
  BY <1>1 DEF StageOK
<1> HIDE DEF r
<1>5. StageOK(j, r, stored)
  BY <1>1, <1>3, <1>4, Moves
<1> QED BY <1>1, <1>2, <1>3, <1>5, MoveKeeps DEF r

(* A record that is bound: the user's words, or one the model picked.      *)
LEMMA BindsKeeps ==
  ASSUME StepsInv, GatewayInv', UNCHANGED stores, NEW j \in Jobs, job[j].pc \in {"paused", "pick"},
         NEW id, NEW via, Binds(j, id, via),
         via = "llm" /\ id # NoRecord => id \in job[j].mine
  PROVE  StepsInv'
<1> DEFINE v == IF id = NoRecord THEN None ELSE via
           r == [job[j] EXCEPT !.pc = "dispatch", !.cands = {}, !.entity = id, !.via = v]
<1>1. DOMAIN job[j] = JobFields /\ StageOK(j, job[j], stored)
  BY JobFacts
<1>2. v = "llm" => via = "llm" /\ id # NoRecord
  BY DEF None
<1>3. Go(j, r)
  BY DEF Binds
<1> HIDE DEF v
<1>4. /\ DOMAIN r = JobFields /\ r.pc = "dispatch" /\ r.work = job[j].work /\ r.outs = job[j].outs
      /\ r.via = v /\ r.entity = id /\ r.mine = job[j].mine
  BY <1>1 DEF JobFields
<1> HIDE DEF r
<1>5. StageOK(j, r, stored)
  BY <1>1, <1>2, <1>4 DEF StageOK
<1> QED BY <1>3, <1>4, <1>5, MoveKeeps

LEMMA RecentIsOwn ==
  ASSUME NEW w
  PROVE  RecentOf(w) \subseteq OwnIds(w)
BY DEF RecentOf, OwnIds

LEMMA ResumeKeeps ==
  ASSUME StepsInv, NEW j \in Jobs, ResumeReply(j)
  PROVE  StepsInv'
<1> DEFINE w == job[j].work
<1>1. /\ DOMAIN job[j] = JobFields /\ StageOK(j, job[j], stored) /\ job[j].pc = "paused"
      /\ GatewayInv /\ UNCHANGED stores
  BY JobFacts DEF ResumeReply, At
<1>2. \/ UNCHANGED gateway /\ \E id : Binds(j, id, "literal")
      \/ \E cands \in {RecentOf(w), {}} :
           /\ StartCall(j, w.tenant, Prompt(w))
           /\ Go(j, [job[j] EXCEPT !.pc = "pick", !.cands = cands, !.mine = OwnIds(w)])
  BY DEF ResumeReply, Resolves
<1>3. CASE UNCHANGED gateway /\ \E id : Binds(j, id, "literal")
  <2>1. GatewayInv'
    BY <1>1, <1>3, GatewayStays
  <2> QED BY <1>1, <1>3, <2>1, BindsKeeps
<1>4. ASSUME NEW cands \in {RecentOf(w), {}}, StartCall(j, w.tenant, Prompt(w)),
             Go(j, [job[j] EXCEPT !.pc = "pick", !.cands = cands, !.mine = OwnIds(w)])
      PROVE  StepsInv'
  <2> DEFINE r == [job[j] EXCEPT !.pc = "pick", !.cands = cands, !.mine = OwnIds(w)]
  <2>1. w \in Works(j) /\ w.route = "handler"
    BY <1>1 DEF StageOK
  <2>2. GatewayInv'
    BY <1>1, <1>4, <2>1, StartKeeps
  <2>3. /\ DOMAIN r = JobFields /\ r.pc = "pick" /\ r.work = w /\ r.outs = job[j].outs
        /\ r.via = job[j].via /\ r.cands = cands /\ r.mine = OwnIds(w)
    BY <1>1 DEF JobFields
  <2>4. cands \subseteq OwnIds(w)
    BY RecentIsOwn
  <2>5. job[j].via = None
    BY <1>1 DEF StageOK
  <2> HIDE DEF r
  <2>6. StageOK(j, r, stored)
    BY <1>1, <2>1, <2>3, <2>4, <2>5 DEF StageOK, None
  <2> QED BY <1>1, <1>4, <2>2, <2>3, <2>6, MoveKeeps DEF r
<1> QED BY <1>2, <1>3, <1>4

LEMMA PickKeeps ==
  ASSUME StepsInv, NEW j \in Jobs, PickAnswers(j)
  PROVE  StepsInv'
<1>1. /\ StageOK(j, job[j], stored) /\ job[j].pc = "pick" /\ GatewayInv' /\ UNCHANGED stores
  BY JobFacts, HangsKeeps DEF PickAnswers, At, Jobs
<1>2. \/ Binds(j, NoRecord, "llm")
      \/ \E said \in Picks :
           Binds(j, ResolveReply([kind |-> "vague"], job[j].cands, ParsePick(said, job[j].cands)), "llm")
  BY DEF PickAnswers
<1>3. CASE Binds(j, NoRecord, "llm")
  BY <1>1, <1>3, BindsKeeps
<1>4. ASSUME NEW said \in Picks,
             Binds(j, ResolveReply([kind |-> "vague"], job[j].cands, ParsePick(said, job[j].cands)), "llm")
      PROVE  StepsInv'
  <2> DEFINE chosen == ParsePick(said, job[j].cands)
             id == ResolveReply([kind |-> "vague"], job[j].cands, chosen)
  <2>1. id = IF chosen \in job[j].cands THEN chosen ELSE NoRecord
    BY DEF ResolveReply
  <2> HIDE DEF id, chosen
  <2>2. id # NoRecord => id \in job[j].mine
    BY <1>1, <2>1 DEF StageOK
  <2>3. Binds(j, id, "llm")
    BY <1>4 DEF id, chosen
  <2> QED BY <1>1, <2>2, <2>3, BindsKeeps
<1> QED BY <1>2, <1>3, <1>4

-----------------------------------------------------------------------------
(* ToolStepExecutor and ToolRunner. *)
LEMMA ToolsRunKeeps ==
  ASSUME StepsInv, NEW j \in Jobs, ToolsRun(j)
  PROVE  StepsInv'
<1>1. /\ DOMAIN job[j] = JobFields /\ StageOK(j, job[j], stored) /\ job[j].pc = "tools"
      /\ GatewayInv' /\ UNCHANGED stores
  BY JobFacts, GatewayStays DEF ToolsRun, At
<1>2. \/ \E status : Go(j, Result(job[j], status))
      \/ FromRequest(job[j].work) /\ Go(j, [job[j] EXCEPT !.pc = "next"])
  BY DEF ToolsRun, StepRaises
<1>3. CASE FromRequest(job[j].work) /\ Go(j, [job[j] EXCEPT !.pc = "next"])
  <2> DEFINE r == [job[j] EXCEPT !.pc = "next"]
  <2>1. /\ DOMAIN r = JobFields /\ r.pc = "next" /\ r.work = job[j].work /\ r.outs = job[j].outs
        /\ r.via = job[j].via /\ r.entity = job[j].entity /\ r.mine = job[j].mine
    BY <1>1 DEF JobFields
  <2>2. job[j].work.route = "tools"
    BY <1>1 DEF StageOK
  <2> HIDE DEF r
  <2>3. StageOK(j, r, stored)
    BY <1>1, <1>3, <2>1, <2>2, Moves
  <2> QED BY <1>1, <1>3, <2>1, <2>3, MoveKeeps DEF r
<1> QED BY <1>1, <1>2, <1>3, EndsStep

LEMMA NextToolKeeps ==
  ASSUME StepsInv, NEW j \in Jobs, NextTool(j)
  PROVE  StepsInv'
<1>1. /\ DOMAIN job[j] = JobFields /\ StageOK(j, job[j], stored) /\ job[j].pc = "next"
      /\ GatewayInv' /\ UNCHANGED stores
  BY JobFacts, GatewayStays DEF NextTool, At
<1>2. job[j].work.route = "tools" /\ FromRequest(job[j].work)
  BY <1>1 DEF StageOK
<1>3. \/ \E status : Go(j, Result(job[j], status))
      \/ \E i : Go(j, [job[j] EXCEPT !.i = i, !.failed = TRUE])
      \/ \E i, tool : Go(j, [job[j] EXCEPT !.pc = "lookup", !.i = i, !.tool = tool])
  BY DEF NextTool
<1>4. ASSUME NEW i, Go(j, [job[j] EXCEPT !.i = i, !.failed = TRUE]) PROVE StepsInv'
  <2> DEFINE r == [job[j] EXCEPT !.i = i, !.failed = TRUE]
  <2>1. /\ DOMAIN r = JobFields /\ r.pc = "next" /\ r.work = job[j].work /\ r.outs = job[j].outs
        /\ r.via = job[j].via /\ r.entity = job[j].entity /\ r.mine = job[j].mine
    BY <1>1 DEF JobFields
  <2> HIDE DEF r
  <2>2. StageOK(j, r, stored)
    BY <1>1, <1>2, <2>1, Moves
  <2> QED BY <1>1, <1>4, <2>1, <2>2, MoveKeeps DEF r
<1>5. ASSUME NEW i, NEW tool, Go(j, [job[j] EXCEPT !.pc = "lookup", !.i = i, !.tool = tool]) PROVE StepsInv'
  <2> DEFINE r == [job[j] EXCEPT !.pc = "lookup", !.i = i, !.tool = tool]
  <2>1. /\ DOMAIN r = JobFields /\ r.pc = "lookup" /\ r.work = job[j].work /\ r.outs = job[j].outs
        /\ r.via = job[j].via /\ r.entity = job[j].entity /\ r.mine = job[j].mine
    BY <1>1 DEF JobFields
  <2> HIDE DEF r
  <2>2. StageOK(j, r, stored)
    BY <1>1, <1>2, <2>1, Moves
  <2> QED BY <1>1, <1>5, <2>1, <2>2, MoveKeeps DEF r
<1> QED BY <1>1, <1>3, <1>4, <1>5, EndsStep

(* What the store holds under a step's key is that step's own: the key     *)
(* names the step and the tool, and is minted for one request.             *)
LEMMA ReplayedIsOwn ==
  ASSUME IdemOK, NEW j \in Jobs, NEW w \in Works(j), KeyBase(w) # None, NEW tool,
         NEW k \in DOMAIN idem, k = IdempotencyKey(w, tool)
  PROVE  OwnOutput(idem[k], w, tool, stored)
<1>1. PICK i \in Jobs : \E u \in Works(i) :
        k = IdempotencyKey(u, k[3]) /\ OwnOutput(idem[k], u, k[3], stored)
  BY DEF IdemOK
<1>2. PICK v \in Works(i) : k = IdempotencyKey(v, k[3]) /\ OwnOutput(idem[k], v, k[3], stored)
  BY <1>1
<1>3. k[3] = tool /\ k[2] = w.step /\ k[1] = KeyBase(w)
  BY DEF IdempotencyKey
<1>4. KeyBase(v) = KeyBase(w) /\ v.step = w.step
  BY <1>2, <1>3 DEF IdempotencyKey
<1>5. v.tenant = w.tenant /\ v.request = w.request
  BY <1>4, KeysAssumption
<1> QED BY <1>2, <1>3, <1>4, <1>5 DEF OwnOutput

LEMMA HasKey ==
  ASSUME NEW w, FromRequest(w)
  PROVE  KeyBase(w) # None
BY DEF FromRequest, KeyBase

LEMMA LookupKeeps ==
  ASSUME StepsInv, NEW j \in Jobs, Lookup(j)
  PROVE  StepsInv'
<1> DEFINE w == job[j].work
           tool == job[j].tool
           key == IdempotencyKey(w, tool)
<1>1. /\ DOMAIN job[j] = JobFields /\ StageOK(j, job[j], stored) /\ job[j].pc = "lookup"
      /\ GatewayInv' /\ UNCHANGED stores
  BY JobFacts, GatewayStays DEF Lookup, At
<1>2. w.route = "tools" /\ FromRequest(w) /\ w \in Works(j)
  BY <1>1 DEF StageOK
<1>3. \/ key \in DOMAIN idem
         /\ Go(j, [job[j] EXCEPT !.pc = "next", !.outs = With(job[j].outs, tool, idem[key])])
      \/ Go(j, [job[j] EXCEPT !.pc = "dispatch"])
      \/ Go(j, Result(job[j], "failed"))
  BY DEF Lookup, StepRaises
<1>4. CASE key \in DOMAIN idem
           /\ Go(j, [job[j] EXCEPT !.pc = "next", !.outs = With(job[j].outs, tool, idem[key])])
  <2> DEFINE outs == With(job[j].outs, tool, idem[key])
             r == [job[j] EXCEPT !.pc = "next", !.outs = outs]
  <2>1. OwnOutput(idem[key], w, tool, stored)
    <3> HIDE DEF w, tool
    <3> QED BY <1>2, <1>4, HasKey, ReplayedIsOwn DEF StepsInv
  <2>2. DOMAIN outs = DOMAIN job[j].outs \cup {tool} /\ outs[tool] = idem[key]
        /\ \A x \in DOMAIN job[j].outs \ {tool} : outs[x] = job[j].outs[x]
    <3> HIDE DEF key, tool
    <3> QED BY DEF With
  <2> HIDE DEF outs, key
  <2>3. /\ DOMAIN r = JobFields /\ r.pc = "next" /\ r.work = w /\ r.outs = outs
        /\ r.via = job[j].via /\ r.entity = job[j].entity /\ r.mine = job[j].mine
    BY <1>1 DEF JobFields
  <2> HIDE DEF r
  <2>4. StageOK(j, r, stored)
    BY <1>1, <1>2, <2>1, <2>2, <2>3 DEF StageOK
  <2> QED BY <1>1, <1>4, <2>3, <2>4, MoveKeeps DEF r, outs
<1>5. CASE Go(j, [job[j] EXCEPT !.pc = "dispatch"])
  <2> DEFINE r == [job[j] EXCEPT !.pc = "dispatch"]
  <2>1. /\ DOMAIN r = JobFields /\ r.pc = "dispatch" /\ r.work = w /\ r.outs = job[j].outs
        /\ r.via = job[j].via /\ r.entity = job[j].entity /\ r.mine = job[j].mine
    BY <1>1 DEF JobFields
  <2> HIDE DEF r
  <2>2. StageOK(j, r, stored)
    BY <1>1, <1>2, <2>1, Moves
  <2> QED BY <1>1, <1>5, <2>1, <2>2, MoveKeeps DEF r
<1> QED BY <1>1, <1>3, <1>4, <1>5, EndsStep

-----------------------------------------------------------------------------
(* The handler, in both executors. *)
LEMMA InvokeKeeps ==
  ASSUME StepsInv, NEW j \in Jobs, Invoke(j)
  PROVE  StepsInv'
<1> DEFINE w == job[j].work
           r == [job[j] EXCEPT !.pc = "running"]
<1>1. /\ DOMAIN job[j] = JobFields /\ StageOK(j, job[j], stored) /\ job[j].pc = "dispatch"
      /\ GatewayInv /\ UNCHANGED stores /\ Go(j, r)
  BY JobFacts DEF Invoke, At
<1>2. GatewayInv'
  <2>1. w \in Works(j)
    BY <1>1 DEF StageOK
  <2>2. \/ UNCHANGED gateway \/ StartCall(j, w.tenant, Prompt(w)) \/ StartStream(j, w.tenant, Prompt(w))
        \/ StartEmbed(j, w.tenant, Prompt(w))
    BY DEF Invoke
  <2> QED BY <1>1, <2>1, <2>2, GatewayStays, StartKeeps
<1>3. /\ DOMAIN r = JobFields /\ r.pc = "running" /\ r.work = w /\ r.outs = job[j].outs
      /\ r.via = job[j].via /\ r.entity = job[j].entity /\ r.mine = job[j].mine
  BY <1>1 DEF JobFields
<1> HIDE DEF r
<1>4. StageOK(j, r, stored)
  BY <1>1, <1>3, Moves
<1> QED BY <1>1, <1>2, <1>3, <1>4, MoveKeeps

LEMMA FailsKeeps ==
  ASSUME StepsInv, GatewayInv', UNCHANGED stores, NEW j \in Jobs, job[j].pc = "running", Fails(j)
  PROVE  StepsInv'
<1>1. DOMAIN job[j] = JobFields /\ StageOK(j, job[j], stored)
  BY JobFacts
<1>2. CASE job[j].work.route = "tools"
  <2> DEFINE r == [job[j] EXCEPT !.pc = "next", !.failed = TRUE]
  <2>1. /\ DOMAIN r = JobFields /\ r.pc = "next" /\ r.work = job[j].work /\ r.outs = job[j].outs
        /\ r.via = job[j].via /\ r.entity = job[j].entity /\ r.mine = job[j].mine
    BY <1>1 DEF JobFields
  <2>2. FromRequest(job[j].work) /\ Go(j, r)
    BY <1>1, <1>2 DEF StageOK, Fails
  <2> HIDE DEF r
  <2>3. StageOK(j, r, stored)
    BY <1>1, <1>2, <2>1, <2>2, Moves
  <2> QED BY <2>1, <2>2, <2>3, MoveKeeps
<1>3. CASE job[j].work.route # "tools"
  BY <1>3, EndsStep DEF Fails
<1> QED BY <1>2, <1>3

LEMMA ReturnsKeeps ==
  ASSUME StepsInv, NEW j \in Jobs, HandlerReturns(j)
  PROVE  StepsInv'
<1> DEFINE w == job[j].work
           tool == job[j].tool
<1>1. /\ DOMAIN job[j] = JobFields /\ StageOK(j, job[j], stored) /\ job[j].pc = "running"
      /\ GatewayInv' /\ UNCHANGED <<records, idem>>
  BY JobFacts, HangsKeeps DEF HandlerReturns, At, Jobs
<1>2. CASE /\ w.route = "tools" /\ Capture(j)
           /\ Go(j, [job[j] EXCEPT !.pc = "store", !.outs = With(job[j].outs, tool, Output(j))])
  <2> DEFINE out == Output(j)
             outs == With(job[j].outs, tool, out)
             r == [job[j] EXCEPT !.pc = "store", !.outs = outs]
  <2>1. stored \subseteq stored'
    BY <1>2 DEF Capture
  <2>2. OwnOutput(out, w, tool, stored')
    <3>1. out.own = <<w.tenant, w.request, w.step, tool>>
      BY DEF Output
    <3>2. out.ref # <<>> => out.ref \in stored'
      BY <1>2 DEF Output, Capture
    <3> HIDE DEF out
    <3> QED BY <3>1, <3>2 DEF OwnOutput
  <2>3. DOMAIN outs = DOMAIN job[j].outs \cup {tool} /\ outs[tool] = out
        /\ \A x \in DOMAIN job[j].outs \ {tool} : outs[x] = job[j].outs[x]
    <3> HIDE DEF out, tool
    <3> QED BY DEF With
  <2> HIDE DEF outs, out
  <2>4. /\ DOMAIN r = JobFields /\ r.pc = "store" /\ r.work = w /\ r.outs = outs
        /\ r.via = job[j].via /\ r.entity = job[j].entity /\ r.mine = job[j].mine /\ r.tool = tool
    BY <1>1 DEF JobFields
  <2>5. Go(j, r)
    BY <1>2 DEF outs, out
  <2> HIDE DEF r
  <2>6. StageOK(j, job[j], stored')
    BY <1>1, <2>1, StageGrows
  <2>7. StageOK(j, r, stored')
    BY <1>1, <1>2, <2>2, <2>3, <2>4, <2>6 DEF StageOK
  <2>8. IdemOK'
    BY <1>1, <2>1, IdemStays DEF StepsInv
  <2> QED BY <1>1, <2>1, <2>4, <2>5, <2>7, <2>8, StepKeeps
<1>3. CASE UNCHANGED stored /\ Go(j, Result(job[j], "success"))
  <2>1. UNCHANGED stores
    BY <1>1, <1>3 DEF stores
  <2> QED BY <1>1, <1>3, <2>1, EndsStep
<1> QED BY <1>2, <1>3 DEF HandlerReturns

LEMMA BreaksKeeps ==
  ASSUME StepsInv, NEW j \in Jobs, HandlerRaises(j) \/ HandlerTimesOut(j) \/ HandlerAsks(j)
  PROVE  StepsInv'
<1>1. /\ DOMAIN job[j] = JobFields /\ StageOK(j, job[j], stored) /\ job[j].pc = "running"
      /\ GatewayInv' /\ UNCHANGED stores
  BY JobFacts, HangsKeeps DEF HandlerRaises, HandlerTimesOut, HandlerAsks, At, Jobs
<1>2. \/ Fails(j)
      \/ job[j].work.route = "handler" /\ Go(j, [job[j] EXCEPT !.pc = "asked", !.asked = TRUE])
  BY DEF HandlerRaises, HandlerTimesOut, HandlerAsks
<1>3. CASE job[j].work.route = "handler" /\ Go(j, [job[j] EXCEPT !.pc = "asked", !.asked = TRUE])
  <2> DEFINE r == [job[j] EXCEPT !.pc = "asked", !.asked = TRUE]
  <2>1. /\ DOMAIN r = JobFields /\ r.pc = "asked" /\ r.work = job[j].work /\ r.outs = job[j].outs
        /\ r.via = job[j].via /\ r.entity = job[j].entity /\ r.mine = job[j].mine
    BY <1>1 DEF JobFields
  <2> HIDE DEF r
  <2>2. StageOK(j, r, stored)
    BY <1>1, <1>3, <2>1, Moves
  <2> QED BY <1>1, <1>3, <2>1, <2>2, MoveKeeps DEF r
<1> QED BY <1>1, <1>2, <1>3, FailsKeeps

LEMMA UserKeeps ==
  ASSUME StepsInv, NEW j \in Jobs, UserAnswers(j)
  PROVE  StepsInv'
<1> DEFINE r == [job[j] EXCEPT !.pc = "dispatch"]
<1>1. /\ DOMAIN job[j] = JobFields /\ StageOK(j, job[j], stored) /\ job[j].pc = "asked"
      /\ GatewayInv' /\ UNCHANGED stores /\ Go(j, r)
  BY JobFacts, GatewayStays DEF UserAnswers, At
<1>2. /\ DOMAIN r = JobFields /\ r.pc = "dispatch" /\ r.work = job[j].work /\ r.outs = job[j].outs
      /\ r.via = job[j].via /\ r.entity = job[j].entity /\ r.mine = job[j].mine
  BY <1>1 DEF JobFields
<1>3. job[j].work.route = "handler"
  BY <1>1 DEF StageOK
<1> HIDE DEF r
<1>4. StageOK(j, r, stored)
  BY <1>1, <1>2, <1>3, Moves
<1> QED BY <1>1, <1>2, <1>4, MoveKeeps

LEMMA StoreKeeps ==
  ASSUME StepsInv, NEW j \in Jobs, StoreResult(j)
  PROVE  StepsInv'
<1> DEFINE w == job[j].work
           tool == job[j].tool
           key == IdempotencyKey(w, tool)
           out == job[j].outs[tool]
           r == [job[j] EXCEPT !.pc = "next"]
<1>1. /\ DOMAIN job[j] = JobFields /\ StageOK(j, job[j], stored) /\ job[j].pc = "store"
      /\ GatewayInv' /\ UNCHANGED <<records, stored>>
  BY JobFacts, GatewayStays DEF StoreResult, At
<1>2. \/ idem' = With(idem, key, out) /\ Go(j, r)
      \/ UNCHANGED idem /\ Go(j, Result(job[j], "failed"))
  BY DEF StoreResult, StepRaises
<1>3. CASE UNCHANGED idem /\ Go(j, Result(job[j], "failed"))
  <2>1. UNCHANGED stores
    BY <1>1, <1>3 DEF stores
  <2> QED BY <1>1, <1>3, <2>1, EndsStep
<1>4. CASE idem' = With(idem, key, out) /\ Go(j, r)
  <2>1. w \in Works(j) /\ w.route = "tools" /\ FromRequest(w) /\ OwnOutput(out, w, tool, stored)
    BY <1>1 DEF StageOK
  <2>2. DOMAIN idem' = DOMAIN idem \cup {key} /\ idem'[key] = out
        /\ \A x \in DOMAIN idem \ {key} : idem'[x] = idem[x]
    <3> HIDE DEF key, out
    <3> QED BY <1>1, <1>4 DEF With
  <2>3. key[3] = tool /\ KeyBase(w) # None
    BY <2>1, HasKey DEF IdempotencyKey
  <2>4. ASSUME NEW k \in DOMAIN idem'
        PROVE  \E i \in Jobs : \E v \in Works(i) :
                 k = IdempotencyKey(v, k[3]) /\ KeyBase(v) # None /\ OwnOutput(idem'[k], v, k[3], stored')
    <3>1. CASE k = key
      <4>1. k = IdempotencyKey(w, k[3]) /\ OwnOutput(idem'[k], w, k[3], stored')
        BY <1>1, <2>1, <2>2, <2>3, <3>1
      <4> QED BY <2>1, <2>3, <4>1
    <3>2. CASE k # key
      <4>1. k \in DOMAIN idem /\ idem'[k] = idem[k]
        BY <2>2, <3>2
      <4> HIDE DEF key
      <4> QED BY <1>1, <4>1 DEF StepsInv, IdemOK
    <3> QED BY <3>1, <3>2
  <2>5. IdemOK'
    BY <2>4 DEF IdemOK
  <2>6. /\ DOMAIN r = JobFields /\ r.pc = "next" /\ r.work = w /\ r.outs = job[j].outs
        /\ r.via = job[j].via /\ r.entity = job[j].entity /\ r.mine = job[j].mine
    BY <1>1 DEF JobFields
  <2> HIDE DEF r
  <2>7. StageOK(j, r, stored)
    BY <1>1, <2>1, <2>6, Moves
  <2> QED BY <1>1, <1>4, <2>5, <2>6, <2>7, StepKeeps
<1> QED BY <1>2, <1>3, <1>4

-----------------------------------------------------------------------------
(* The boundary node. *)
LEMMA BoundaryKeeps ==
  ASSUME StepsInv, NEW j \in Jobs, Boundary(j)
  PROVE  StepsInv'
<1> DEFINE w == job[j].work
           r == [job[j] EXCEPT !.pc = "judge"]
<1>1. /\ DOMAIN job[j] = JobFields /\ StageOK(j, job[j], stored) /\ job[j].pc = "boundary"
      /\ GatewayInv /\ UNCHANGED stores
  BY JobFacts DEF Boundary, At
<1>2. \/ /\ UNCHANGED gateway
         /\ \E status, told : Go(j, [Result(job[j], status) EXCEPT !.told = told])
      \/ StartCall(j, w.tenant, Prompt(w)) /\ Go(j, r)
  BY DEF Boundary
<1>3. CASE UNCHANGED gateway /\ \E status, told : Go(j, [Result(job[j], status) EXCEPT !.told = told])
  <2>1. GatewayInv'
    BY <1>1, <1>3, GatewayStays
  <2> QED BY <1>1, <1>3, <2>1, EndsStep
<1>4. CASE StartCall(j, w.tenant, Prompt(w)) /\ Go(j, r)
  <2>1. w \in Works(j)
    BY <1>1 DEF StageOK
  <2>2. GatewayInv'
    BY <1>1, <1>4, <2>1, StartKeeps
  <2>3. /\ DOMAIN r = JobFields /\ r.pc = "judge" /\ r.work = w /\ r.outs = job[j].outs
        /\ r.via = job[j].via /\ r.entity = job[j].entity /\ r.mine = job[j].mine
    BY <1>1 DEF JobFields
  <2> HIDE DEF r
  <2>4. StageOK(j, r, stored)
    BY <1>1, <2>3, Moves
  <2> QED BY <1>1, <1>4, <2>2, <2>3, <2>4, MoveKeeps
<1> QED BY <1>2, <1>3, <1>4

LEMMA JudgeKeeps ==
  ASSUME StepsInv, NEW j \in Jobs, BoundaryAnswers(j)
  PROVE  StepsInv'
<1>1. job[j].pc = "judge" /\ GatewayInv' /\ UNCHANGED stores
  BY JobFacts, HangsKeeps DEF BoundaryAnswers, At, Jobs
<1>2. \/ \E status : Go(j, Result(job[j], status))
      \/ \E status, told : Go(j, [Result(job[j], status) EXCEPT !.told = told])
  BY DEF BoundaryAnswers, Judges, Tells
<1> QED BY <1>1, <1>2, EndsStep

-----------------------------------------------------------------------------
(* The provider, the quota window, the desk and the clock. *)
LEMMA AroundKeeps ==
  ASSUME StepsInv, (\E j \in Jobs : Provider(j)) \/ Window \/ WriteRecord \/ KeyExpires
  PROVE  StepsInv'
<1>1. CASE (\E j \in Jobs : Provider(j)) \/ Window
  <2>1. GatewayInv' /\ UNCHANGED <<records, idem, stored, job>>
    BY <1>1, ProviderKeeps, WindowKeeps DEF Provider, Window, StepsInv, Jobs, stores
  <2>2. IdemOK'
    BY <2>1, IdemStays DEF StepsInv
  <2> QED BY <2>1, <2>2 DEF StepsInv, StepsOK
<1>2. CASE WriteRecord
  <2>1. UNCHANGED <<gateway, idem, stored, job>>
    BY <1>2 DEF WriteRecord
  <2>2. GatewayInv' /\ IdemOK'
    BY <2>1, GatewayStays, IdemStays DEF StepsInv
  <2> QED BY <2>1, <2>2 DEF StepsInv, StepsOK
<1>3. CASE KeyExpires
  <2>1. /\ UNCHANGED <<gateway, records, stored, job>>
        /\ DOMAIN idem' \subseteq DOMAIN idem /\ \A k \in DOMAIN idem' : idem'[k] = idem[k]
    BY <1>3 DEF KeyExpires
  <2>2. GatewayInv'
    BY <2>1, GatewayStays DEF StepsInv
  <2>3. IdemOK'
    BY <2>1 DEF StepsInv, IdemOK
  <2> QED BY <2>1, <2>2, <2>3 DEF StepsInv, StepsOK
<1> QED BY <1>1, <1>2, <1>3

LEMMA StepsStart ==
  ASSUME Init
  PROVE  StepsInv
<1>1. GatewayInv
  BY GatewayStarts DEF Init
<1>2. DOMAIN job = Jobs /\ \A j \in Jobs : job[j] = Fresh
  BY DEF Init
<1>3. /\ DOMAIN Fresh = JobFields /\ Fresh.pc = "idle" /\ Fresh.outs = <<>> /\ Fresh.via = None
  BY DEF Fresh, JobFields
<1>4. StepsOK
  BY <1>2, <1>3 DEF StepsOK, StageOK, None
<1>5. IdemOK
  BY DEF Init, IdemOK
<1> QED BY <1>1, <1>4, <1>5 DEF StepsInv

LEMMA StepsStep ==
  ASSUME StepsInv, [Next]_vars
  PROVE  StepsInv'
<1>1. CASE UNCHANGED vars
  <2>1. UNCHANGED <<gateway, records, idem, stored, job>>
    BY <1>1 DEF vars
  <2>2. GatewayInv' /\ IdemOK'
    BY <2>1, GatewayStays, IdemStays DEF StepsInv
  <2> QED BY <2>1, <2>2 DEF StepsInv, StepsOK
<1>2. ASSUME NEW j \in Jobs, JobStep(j) PROVE StepsInv'
  BY <1>2, HandlerRunKeeps, ElicitKeeps, PickKeeps, ToolsRunKeeps, NextToolKeeps, LookupKeeps, InvokeKeeps,
     ReturnsKeeps, BreaksKeeps, StoreKeeps, BoundaryKeeps, JudgeKeeps, AroundKeeps DEF JobStep
<1>3. ASSUME NEW j \in Jobs, Deliver(j) \/ ResumeReply(j) \/ UserAnswers(j) PROVE StepsInv'
  BY <1>3, DeliverKeeps, ResumeKeeps, UserKeeps
<1>4. CASE WriteRecord \/ KeyExpires \/ Window
  BY <1>4, AroundKeeps
<1> QED BY <1>1, <1>2, <1>3, <1>4 DEF Next

(* The invariant of the steps and of the gateway under them, whatever the  *)
(* deliveries, the agents, the budgets and the provider's failures.        *)
THEOREM StepsInvariant == Spec => []StepsInv
BY StepsStart, StepsStep, PTL DEF Spec

(* ProviderCallsBounded: the budget bounds what the provider receives.     *)
THEOREM TrafficBounded == Spec => []ProviderCallsBounded
<1>1. StepsInv => ProviderCallsBounded
  <2> SUFFICES ASSUME GatewayInv, NEW t \in Tenants, limit[t] > 0
               PROVE  sent[t] <= (MaxRetries + 2) * limit[t] * windows
    BY DEF StepsInv, ProviderCallsBounded
  <2>1. /\ limit[t] \in Nat /\ windows - 1 \in Nat /\ used[t] \in Nat /\ sent[t] \in Nat
        /\ MaxRetries \in Nat /\ windows = (windows - 1) + 1
    BY GatewayAssumption DEF GatewayInv, GatewayTypeOK
  <2>2. used[t] <= limit[t] /\ sent[t] + Cardinality(Credit(call, t)) <= Paid(t)
    BY DEF GatewayInv, BudgetOK
  <2>3. Cardinality(Credit(call, t)) \in Nat
    BY CreditFinite
  <2>4. Paid(t) <= (MaxRetries + 2) * limit[t] * ((windows - 1) + 1) /\ Paid(t) \in Nat
    BY <2>1, <2>2, BudgetSums DEF Paid
  <2>5. (MaxRetries + 2) * limit[t] * windows \in Int
    BY <2>1
  <2> QED BY <2>1, <2>2, <2>3, <2>4, <2>5
<1> QED BY <1>1, StepsInvariant, PTL

(* PromptsAreRedacted: first try, retry, fallback and stream alike.        *)
THEOREM WireIsRedacted == Spec => []PromptsAreRedacted
<1>1. StepsInv => PromptsAreRedacted
  BY DEF StepsInv, GatewayInv, CleanOK, CleanBody, CleanText, PromptsAreRedacted
<1> QED BY <1>1, StepsInvariant, PTL

(* ReplayIsOwn: a result from the store belongs to the step that gets it.  *)
THEOREM ReplayBelongs == Spec => []ReplayIsOwn
<1>1. StepsInv => ReplayIsOwn
  BY DEF StepsInv, StepsOK, StageOK, OwnOutput, ReplayIsOwn
<1> QED BY <1>1, StepsInvariant, PTL

(* PickedIsOwn: a record the model picked was the asking user's own when   *)
(* the answer was taken, whatever rows were written since the question.    *)
THEOREM PickBelongs == Spec => []PickedIsOwn
<1>1. StepsInv => PickedIsOwn
  BY DEF StepsInv, StepsOK, StageOK, PickedIsOwn
<1> QED BY <1>1, StepsInvariant, PTL

=============================================================================
