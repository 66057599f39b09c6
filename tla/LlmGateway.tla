----------------------------- MODULE LlmGateway -----------------------------
(***************************************************************************)
(* llm/: the single egress to the model provider.  A call is charged to    *)
(* its tenant's quota, scrubbed of personal data, sent (again while the    *)
(* failure is transient, then once to the fallback model) and booked when  *)
(* the answer arrives.  A stream is sent once; an embedding is sent once   *)
(* and as it is.  A caller that is cancelled leaves its request behind.    *)
(* A text is a sequence of words, each of a PII class or plain.            *)
(***************************************************************************)
EXTENDS Naturals, FiniteSets, Sequences

CONSTANTS
  Callers,        \* calls in flight, one slot each
  Tenants,
  Limits,         \* per-tenant call budgets, 0 for none
  MaxRetries,     \* max_retries of the gateway
  HasFallback,    \* a fallback model is configured and is not the model asked
  MaxWindows,     \* bound: quota windows
  MaxPieces       \* bound: pieces of a streamed answer

ASSUME GatewayAssumption ==
  /\ Limits \subseteq Nat /\ MaxRetries \in Nat /\ MaxWindows \in Nat
  /\ HasFallback \in BOOLEAN /\ IsFiniteSet(Callers)

VARIABLES
  limit,          \* QuotaGuard._limits
  used,           \* QuotaGuard._used
  booked,         \* CostTracker: calls recorded per tenant
  call,           \* the calls in flight
  sent,           \* requests the provider received per tenant
  wire,           \* what they carried: [kind, body]
  windows         \* quota windows so far

gateway == <<limit, used, booked, call, sent, wire, windows>>

-----------------------------------------------------------------------------
(* llm/redaction.py *)

Pii == {"email", "credit_card", "ssn", "ip_address", "phone"}
Scrubbed == "[REDACTED]"

(* _phone_sub: the phone pattern runs over neighbouring digits, brackets   *)
(* and spaces, and a match with a calendar date in it is left alone.       *)
DateLike(text, i) ==
  \E k \in DOMAIN text :
    /\ text[k] = "date"
    /\ \A n \in DOMAIN text : (n \in i..k \/ n \in k..i) => text[n] \in {"phone", "date"}

RedactText(text) ==
  [i \in DOMAIN text |->
     IF text[i] \in Pii /\ ~(text[i] = "phone" /\ DateLike(text, i)) THEN Scrubbed ELSE text[i]]

Found(text) == {text[i] : i \in {n \in DOMAIN text : RedactText(text)[n] # text[n]}}

(* A scrubbed message is rebuilt without its cache_control mark. *)
RedactMessages(messages) ==
  [i \in DOMAIN messages |->
     [text |-> RedactText(messages[i].text),
      cached |-> messages[i].cached /\ Found(messages[i].text) = {}]]

-----------------------------------------------------------------------------
(* llm/quota.py, llm/cost.py *)

NoCall == [st |-> "idle", tenant |-> "none", body |-> <<>>, left |-> 0, pieces |-> 0, out |-> "none"]

GatewayInit ==
  /\ limit \in [Tenants -> Limits]
  /\ used = [t \in Tenants |-> 0] /\ booked = [t \in Tenants |-> 0]
  /\ call = [c \in Callers |-> NoCall]
  /\ sent = [t \in Tenants |-> 0] /\ wire = {} /\ windows = 1

Spent(t) == limit[t] > 0 /\ used[t] >= limit[t]

ResetWindow ==
  /\ windows < MaxWindows
  /\ windows' = windows + 1 /\ used' = [t \in Tenants |-> 0]
  /\ UNCHANGED <<limit, booked, call, sent, wire>>

-----------------------------------------------------------------------------
(* llm/gateway.py over llm/transport.py *)

Ends(c, out) == call' = [call EXCEPT ![c].st = "back", ![c].out = out]
Sent(t, kind, body) ==
  sent' = [sent EXCEPT ![t] = @ + 1] /\ wire' = wire \cup {[kind |-> kind, body |-> body]}

(* The quota gate before the first send, then the send itself. *)
Opens(c, t, st, body, left) ==
  /\ call[c].st = "idle"
  /\ \/ /\ Spent(t) /\ call' = [call EXCEPT ![c] = [NoCall EXCEPT !.st = "back", !.out = "gateway"]]
        /\ UNCHANGED <<used, sent, wire>>
     \/ /\ ~Spent(t) /\ used' = [used EXCEPT ![t] = @ + 1]
        /\ call' = [call EXCEPT ![c] = [NoCall EXCEPT !.st = st, !.tenant = t, !.body = body, !.left = left]]
        /\ Sent(t, st, body)
  /\ UNCHANGED <<limit, booked, windows>>

StartCall(c, t, messages) == Opens(c, t, "trying", RedactMessages(messages), MaxRetries)
\* Mutant: the streaming path forgets to scrub.
StartStreamRaw(c, t, messages) == Opens(c, t, "streaming", messages, 0)

StartStream(c, t, messages) == Opens(c, t, "streaming", RedactMessages(messages), 0)
StartEmbed(c, t, messages) == Opens(c, t, "embedding", messages, 0)

(* The answer arrives: the call is booked to its tenant and served model. *)
Books(c) == booked' = [booked EXCEPT ![call[c].tenant] = @ + 1]

Answers(c) ==
  /\ call[c].st \in {"trying", "fallback"}
  /\ Books(c) /\ Ends(c, "ok")
  /\ UNCHANGED <<limit, used, sent, wire, windows>>

(* One attempt: there is no retry of an embedding and no typed error. *)
EmbedEnds(c) ==
  /\ call[c].st = "embedding"
  /\ \/ Books(c) /\ Ends(c, "ok")
     \/ UNCHANGED booked /\ Ends(c, "raw")
  /\ UNCHANGED <<limit, used, sent, wire, windows>>

(* A stream that closes without its last record is booked all the same. *)
StreamCloses(c) ==
  /\ call[c].st = "streaming"
  /\ Books(c) /\ Ends(c, "ok")
  /\ UNCHANGED <<limit, used, sent, wire, windows>>

Delta(c) ==
  /\ call[c].st = "streaming" /\ call[c].pieces < MaxPieces
  /\ call' = [call EXCEPT ![c].pieces = @ + 1]
  /\ UNCHANGED <<limit, used, booked, sent, wire, windows>>

\* Mutant: an attempt that fails is not counted.
TransientUncounted(c) ==
  /\ call[c].st = "trying" /\ Sent(call[c].tenant, "trying", call[c].body)
  /\ UNCHANGED <<limit, used, booked, call, windows>>

(* A timeout, a refusal or an upstream error of one attempt. *)
Transient(c) ==
  LET t == call[c].tenant
      body == call[c].body
  IN /\ \/ /\ call[c].st = "trying" /\ call[c].left > 0
           /\ call' = [call EXCEPT ![c].left = @ - 1] /\ Sent(t, "trying", body)
        \/ /\ call[c].st = "trying" /\ call[c].left = 0 /\ HasFallback
           /\ call' = [call EXCEPT ![c].st = "fallback"] /\ Sent(t, "fallback", body)
        \/ /\ \/ call[c].st = "trying" /\ call[c].left = 0 /\ ~HasFallback
              \/ call[c].st \in {"fallback", "streaming"}
           /\ Ends(c, "gateway") /\ UNCHANGED <<sent, wire>>
     /\ UNCHANGED <<limit, used, booked, windows>>

(* _parse_completion raises on a reply whose usage it cannot read: no      *)
(* transport error, so neither retried nor wrapped.                        *)
Unreadable(c) ==
  /\ call[c].st \in {"trying", "fallback"} /\ Ends(c, "raw")
  /\ UNCHANGED <<limit, used, booked, sent, wire, windows>>

ProviderStep(c) ==
  Answers(c) \/ EmbedEnds(c) \/ Delta(c) \/ StreamCloses(c) \/ Transient(c) \/ Unreadable(c)

-----------------------------------------------------------------------------
(* Quota bounds traffic: the requests the provider receives for a tenant   *)
(* with a budget stay within the budget of the windows so far times the    *)
(* attempts of one call (its retries and one fallback), whatever fails.    *)
ProviderCallsBounded ==
  \A t \in Tenants :
    limit[t] > 0 => sent[t] <= (MaxRetries + 2) * limit[t] * windows

(* No chat prompt carries a PII word to the provider, on the first try, a  *)
(* retry, the fallback model or a stream, except a phone number written    *)
(* against a date.                                                         *)
PromptsAreRedacted ==
  \A w \in wire : w.kind # "embedding" =>
    \A m \in DOMAIN w.body : LET text == w.body[m].text IN
      \A i \in DOMAIN text : text[i] \in Pii => text[i] = "phone" /\ DateLike(text, i)
=============================================================================
