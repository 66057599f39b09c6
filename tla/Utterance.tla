----------------------------- MODULE Utterance -----------------------------
(***************************************************************************)
(* What the router reads off a message before any agent is chosen: the     *)
(* record ids in it (router/entity_id.py), the references it makes to      *)
(* earlier turns, and the guards that decide which words of the LLM        *)
(* rewriter are kept (router/rewrite.py).                                  *)
(*                                                                         *)
(* A text is a record                                                      *)
(*   toks   the id-like tokens in it, in order                             *)
(*   refs   which reference patterns match: "pronoun", "linked",           *)
(*          "phrase" (the <adjective> <record kind>), "related"            *)
(*   topic  its other content words                                        *)
(*   words  how many words it has                                          *)
(* and a token is [form, pre, n, w]: a prefix, a number and the number of  *)
(* digits it was written with ("" and 0 where there is none).              *)
(***************************************************************************)
EXTENDS RankedLists, SequencesExt

CONSTANTS
  ServiceOf,     \* registry schema: id prefix -> service
  LongPrefixes   \* the prefixes of three letters and more

CanonicalWidth == 7
NoId == <<"", 0, 0>>

(* A record id: prefix, number and the digits it is written with; a text   *)
(* by its tokens and what the guards look for in it; a turn of the         *)
(* conversation.                                                           *)
RecordIds == STRING \X Nat \X Nat
Forms == {"id", "broken", "prefix", "caps", "mixed", "digits"}
Toks == [form : Forms, pre : STRING, n : Nat, w : Nat]
Texts == [toks : Seq(Toks), refs : SUBSET STRING, topic : SUBSET STRING, words : Nat]
Roles == {"user", "assistant"}
HistoryTurns == [role : Roles, text : Texts, asks : BOOLEAN]
Histories == Seq(HistoryTurns)

Known(t) == t.pre \in DOMAIN ServiceOf
Written(id) == [form |-> "id", pre |-> id[1], n |-> id[2], w |-> id[3]]
Service(id) == IF id[1] \in DOMAIN ServiceOf THEN ServiceOf[id[1]] ELSE ""

(* One token: an id is kept with the digits it was typed with. *)
Normalize(t) ==
  [ok |-> t.form = "id" /\ Known(t), id |-> <<t.pre, t.n, t.w>>,
   matched |-> IF Known(t) THEN t.pre ELSE ""]

Dedup(s) == AtPositions(s, {i \in DOMAIN s : \A j \in 1..(i - 1) : s[j] # s[i]})

(* Pass 1: prefix-and-digits tokens. *)
Entities(text) ==
  LET good == {i \in DOMAIN text.toks : Normalize(text.toks[i]).ok}
  IN Dedup(AtPositions([i \in DOMAIN text.toks |-> Normalize(text.toks[i]).id], good))
Ids(text) == {Normalize(t).id : t \in {x \in Range(text.toks) : Normalize(x).ok}}
BrokenDigits(text) == {t \in Range(text.toks) : t.form = "broken" /\ Known(t)}

(* Pass 2: all capitals, a prefix alone or a prefix followed by letters. *)
DigitlessAttempt(t) == t.form \in {"prefix", "caps"} /\ t.pre \in LongPrefixes
DigitlessGarbles(text) == {t \in Range(text.toks) : DigitlessAttempt(t) /\ Known(t)}

(* Pass 2.5: a prefix in capitals run into lower-case letters. *)
MixedCase(text) == {t \in Range(text.toks) : t.form = "mixed" /\ Known(t)}

(* Pass 3: seven digits or more that end no id already found. *)
BareDigits(text) ==
  {t \in Range(text.toks) :
     /\ t.form = "digits" /\ t.w >= CanonicalWidth
     /\ \A e \in Ids(text) : ~(e[2] = t.n /\ e[3] >= t.w)
     /\ \A b \in BrokenDigits(text) : ~(b.n = t.n /\ b.w >= t.w)}

Malformed(text) ==
  BrokenDigits(text) \cup DigitlessGarbles(text) \cup MixedCase(text) \cup BareDigits(text)

-----------------------------------------------------------------------------
(* References and the conversation: history is a sequence of turns         *)
(* [role, text, asks], asks when the assistant was asking for an id.       *)

IsFollowupReference(text) == text.refs \cap {"pronoun", "linked"} # {}
ReferencesLinkedRecord(text) == "linkedrecord" \in text.refs
HasCanonicalId(text) == \E t \in Range(text.toks) : t.form = "id" /\ t.w >= 6
NearCanonical(text) == \E t \in Range(text.toks) : t.form \in {"id", "broken"}
Short(text) == text.words <= 4
ContentWords(text) == text.topic \cup Range(text.toks)

(* The whole message is three to seven digits. *)
BareDigitMessage(text) ==
  /\ Len(text.toks) = 1 /\ text.words = 1 /\ text.topic = {}
  /\ text.toks[1].form = "digits" /\ text.toks[1].w \in 3..7

IsClarificationPrompt(turn) == turn.role = "assistant" /\ turn.asks
CollectTurnIds(turn) == IF IsClarificationPrompt(turn) THEN <<>> ELSE Entities(turn.text)

(* The ids in the turns of a role, the latest turn first. *)
OfRole(history, role) ==
  LET ids == [i \in DOMAIN history |-> CollectTurnIds(history[i])]
      places == UNION {{i} \X DOMAIN ids[i] : i \in {j \in DOMAIN history : history[j].role = role}}
      before(p, q) == p[1] > q[1] \/ (p[1] = q[1] /\ p[2] < q[2])
      order == InOrder(places, before)
  IN [k \in DOMAIN order |-> ids[order[k][1]][order[k][2]]]

HistoryFocusIds(history) == Dedup(OfRole(history, "user") \o OfRole(history, "assistant"))
HistoryFocusIdsUserOnly(history) == Dedup(OfRole(history, "user"))
AllHistoryIds(history) == UNION {Ids(history[i].text) : i \in DOMAIN history}

(* update_focus: the message, else the carried focus, else the history. *)
ResolveFocus(text, carried, history) ==
  LET found == HistoryFocusIdsUserOnly(history)
  IN CASE Entities(text) # <<>> -> [id |-> Entities(text)[1], source |-> "current_message"]
       [] Entities(text) = <<>> /\ carried # NoId -> [id |-> carried, source |-> "carried"]
       [] OTHER -> IF found # <<>> THEN [id |-> found[1], source |-> "history_recovery"]
                   ELSE [id |-> NoId, source |-> "carried"]

ExtractFocusFromHistory(history) ==
  LET found == HistoryFocusIdsUserOnly(history)
  IN IF found = <<>> THEN NoId ELSE found[1]

-----------------------------------------------------------------------------
(* The guards after the rewriter's reply.  Each takes the user's words and *)
(* the current rewrite and returns the rewrite that goes on.               *)

CompleteBareDigit(text, history) ==
  LET focus == HistoryFocusIds(history)
  IN IF BareDigitMessage(text) /\ focus # <<>>
     THEN [text EXCEPT !.toks = <<Written(<<focus[1][1], text.toks[1].n, CanonicalWidth>>)>>]
     ELSE text

BareDigitAllowed(text, ids, history) ==
  {id \in ids : /\ BareDigitMessage(text) /\ id[2] = text.toks[1].n
                /\ id[1] \in {h[1] : h \in AllHistoryIds(history)}}

RejectHallucinatedIds(text, rewritten, history) ==
  IF Ids(rewritten) \subseteq Ids(text) \cup Range(HistoryFocusIds(history))
                              \cup BareDigitAllowed(text, Ids(rewritten), history)
  THEN rewritten ELSE text

EnforceLinkedPhrase(text, rewritten, history) ==
  LET focus == HistoryFocusIds(history)
  IN IF "phrase" \notin text.refs \/ Ids(rewritten) \subseteq Ids(text) THEN rewritten
     ELSE IF focus = <<>> THEN text
     ELSE [text EXCEPT !.toks = Append(@, Written(focus[1])), !.words = @ + 2]

RejectFocusInjection(text, rewritten) ==
  IF \/ Ids(rewritten) \subseteq Ids(text)
     \/ ~NearCanonical(text) /\ ("pronoun" \in text.refs \/ Short(text))
  THEN rewritten ELSE text

RejectTopicReplacement(text, rewritten) ==
  IF Cardinality(ContentWords(text)) < 2 \/ ContentWords(text) \cap ContentWords(rewritten) # {}
  THEN rewritten ELSE text

(* A rewrite that brings in no new id is only a rephrasing. *)
RevertRephrase(text, rewritten) ==
  IF Ids(rewritten) \subseteq Ids(text) THEN text ELSE rewritten

Replace(text, old, new) ==
  [text EXCEPT !.toks = [i \in DOMAIN @ |-> IF @[i] = Written(old) THEN Written(new) ELSE @[i]]]

(* The first id of the rewrite that the user did not write becomes `right`. *)
CorrectStale(text, rewritten, right) ==
  LET ids == Entities(rewritten)
      stale == {i \in DOMAIN ids : ids[i] # right /\ ids[i] \notin Ids(text)}
  IN IF right \in Ids(rewritten) \/ stale = {} THEN rewritten
     ELSE Replace(rewritten, AtPositions(ids, stale)[1], right)

EnforceAuthoritativeFocus(text, rewritten, focus) ==
  IF rewritten = text THEN rewritten ELSE CorrectStale(text, rewritten, focus)

EnforceMostRecentFocus(text, rewritten, history) ==
  LET chain == HistoryFocusIdsUserOnly(history)
      focusBound == IsFollowupReference(text) \/ Short(text)
  IN IF rewritten = text \/ ~focusBound \/ chain = <<>> THEN rewritten
     ELSE CorrectStale(text, rewritten, chain[1])

EnforceFocus(text, rewritten, history, focus) ==
  IF focus # NoId THEN EnforceAuthoritativeFocus(text, rewritten, focus)
  ELSE EnforceMostRecentFocus(text, rewritten, history)

(* Mutant: the hallucination guard is left out of the chain. *)
RevertGuardsTrusting(text, rewritten, history) ==
  LET g2 == EnforceLinkedPhrase(text, rewritten, history)
      g3 == IF g2 = text THEN text ELSE RejectFocusInjection(text, g2)
      g4 == IF g3 = text THEN text ELSE RejectTopicReplacement(text, g3)
  IN IF g4 = text THEN text ELSE RevertRephrase(text, g4)

RevertGuards(text, rewritten, history) ==
  LET g1 == RejectHallucinatedIds(text, rewritten, history)
      g2 == IF g1 = text THEN text ELSE EnforceLinkedPhrase(text, g1, history)
      g3 == IF g2 = text THEN text ELSE RejectFocusInjection(text, g2)
      g4 == IF g3 = text THEN text ELSE RejectTopicReplacement(text, g3)
  IN IF g4 = text THEN text ELSE RevertRephrase(text, g4)

(* reply is [text, changed]: the revert guards only look at a reply that   *)
(* says it changed something.                                              *)
ApplyRewriteGuards(text, reply, history, focus) ==
  LET said == reply.changed /\ reply.text # text
      keep == said /\ ~HasCanonicalId(text)
      base == IF said /\ HasCanonicalId(text) THEN text ELSE reply.text
      digits == CompleteBareDigit(text, history)
      guarded == IF keep THEN RevertGuards(text, reply.text, history)
                 ELSE IF digits # text THEN RevertGuards(text, digits, history)
                 ELSE base
  IN EnforceFocus(text, guarded, history, focus)
=============================================================================
