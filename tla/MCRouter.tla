------------------------------ MODULE MCRouter ------------------------------
(* Three agents, a handful of messages, and the replies of the models.     *)
EXTENDS Router, TLC

CONSTANT Honest   \* the rewriter's `changed` flag tells the truth

MCServiceOf == [INC |-> "incident", CHG |-> "change", KB |-> "knowledge"]
MCLong == {"INC", "CHG"}

Leaf(signal, values) == [op |-> "leaf", signal |-> signal, values |-> values, negate |-> FALSE, clauses |-> {}]
AnyOf(leaves) ==
  <<[op |-> "any_of", signal |-> "", values |-> {}, negate |-> FALSE, clauses |-> 2..(Len(leaves) + 1)]>> \o leaves
AnyRole == <<[Leaf("role_in", {"guest"}) EXCEPT !.negate = TRUE]>>

Base == [deps |-> <<>>, excludes |-> {}, tools |-> {}, members |-> {}, eligible |-> TRUE, services |-> {}, fields |-> <<>>, toolParams |-> {},
         tier |-> "read", cls |-> "internal", audience |-> {}, timed |-> FALSE, rank |-> 1, corpus |-> {}, cond |-> AnyRole]
Ticket == [name |-> "ticket_id", from |-> "", required |-> TRUE]
OfTicket == [name |-> "service_id", from |-> "ticket_id", required |-> TRUE]

Uc01 == [Base EXCEPT !.services = {"incident", "change"}, !.fields = <<Ticket, OfTicket>>, !.toolParams = {"ticket_id"}, !.tools = {"read_ticket"},
                     !.corpus = {"priority", "INC", "summary"},
                     !.cond = AnyOf(<<Leaf("entity_present", {}), Leaf("intent_in", {"field_read"})>>)]
Uc03 == [Base EXCEPT !.toolParams = {"article_id"}, !.corpus = {"runbook"}, !.rank = 2, !.timed = TRUE]
Uc08 == [Base EXCEPT !.deps = <<"uc03">>, !.excludes = {<<"uc01", 1>>}, !.tier = "action", !.members = {"uc01"}, !.corpus = {"laptop"}, !.rank = 3]

(* Edits on offer: uc03 may be kept for agents and made to depend on uc08, *)
(* which depends on it; uc01 may exclude uc08 as strongly as uc08 excludes *)
(* it, and depend on uc03.                                                 *)
MCCard == [uc01 |-> <<Uc01, [Uc01 EXCEPT !.excludes = {<<"uc08", 1>>}, !.deps = <<"uc03">>]>>,
           uc03 |-> <<Uc03, [Uc03 EXCEPT !.audience = {"agent"}, !.deps = <<"uc08">>]>>,
           uc08 |-> <<Uc08>>]
Live(st) == [st |-> st, active |-> 1, given |-> 2..Len(st)]
MCInstalled == [uc01 |-> Live(<<"active">>), uc03 |-> Live(<<"active", "draft">>), uc08 |-> Live(<<"active">>)]
MCOperators == Permutations(Operators)
MCGrants == [agent |-> {"write:ticket", "read:all_tickets"}, user |-> {}]

Tok(pre, n) == [form |-> "id", pre |-> pre, n |-> n, w |-> 7]
Text(toks, refs, topic, words) == [toks |-> toks, refs |-> refs, topic |-> topic, words |-> words]
Plain == Text(<<>>, {}, {"runbook", "laptop"}, 6)
Laptop == Text(<<>>, {}, {"laptop"}, 4)
Priority1 == Text(<<Tok("INC", 1)>>, {}, {"priority"}, 4)
Pronoun == Text(<<>>, {"pronoun"}, {"priority"}, 4)
Digits == Text(<<[form |-> "digits", pre |-> "", n |-> 3, w |-> 4]>>, {}, {}, 1)
Garbled == Text(<<[form |-> "caps", pre |-> "INC", n |-> 0, w |-> 0]>>, {}, {"summary"}, 3)
Both == Text(<<Tok("INC", 1)>>, {}, {"priority", "laptop"}, 8)

Past == <<[role |-> "user", text |-> Priority1, asks |-> FALSE]>>
Ask(door, role, text, history, focus) ==
  [door |-> door, tenant |-> "t1", role |-> role, text |-> text, history |-> history, focus |-> focus,
   uc |-> "uc08", inputs |-> <<>>]

MCAsks(t) ==
  IF t = 2 THEN {Ask("chat", "user", Plain, <<>>, NoId)}
  ELSE {Ask("chat", "user", Pronoun, Past, <<"INC", 1, 7>>),
        Ask("chat", "user", Pronoun, <<>>, NoId),
        Ask("chat", "user", Digits, Past, NoId),
        Ask("chat", "agent", Both, <<>>, NoId),
        Ask("chat", "user", Plain, <<>>, NoId),
        Ask("chat", "user", Garbled, <<>>, NoId),
        Ask("forced", "agent", Laptop, <<>>, NoId),
        [Ask("fast", "user", Laptop, <<>>, NoId) EXCEPT !.uc = "uc01", !.inputs = [ticket_id |-> <<"INC", 1, 7>>]]}

MCSplitReplies(text) ==
  IF text # Both THEN {}
  ELSE {<<[id |-> "a", text |-> Priority1, deps |-> {}, binds |-> {}],
          [id |-> "b", text |-> Laptop, deps |-> {"a"}, binds |-> {<<"a", "status", "reason">>}]>>,
        <<[id |-> "a", text |-> Priority1, deps |-> {"b"}, binds |-> {}],
          [id |-> "b", text |-> Laptop, deps |-> {"a"}, binds |-> {}]>>,
        <<[id |-> "a", text |-> Laptop, deps |-> {}, binds |-> {}],
          [id |-> "b", text |-> Pronoun, deps |-> {}, binds |-> {}]>>}

(* The rewriter resolves the reference, or invents a record. *)
MCRewriteReplies(text) ==
  {[text |-> [text EXCEPT !.toks = Append(@, Tok("INC", n))], changed |-> c]
     : n \in (IF text = Laptop THEN {1} ELSE {1, 9}), c \in (IF Honest THEN {TRUE} ELSE BOOLEAN)}

MCPicks == {[ok |-> FALSE, agents |-> <<>>, intents |-> {}],
            [ok |-> TRUE, agents |-> <<>>, intents |-> {}],
            [ok |-> TRUE, agents |-> <<"uc01", "uc08">>, intents |-> {}],
            [ok |-> TRUE, agents |-> <<"uc01">>, intents |-> {"field_read"}]}
MCVectors == {<<[agent |-> "uc01", score |-> 64], [agent |-> "uc08", score |-> 38]>>}
MCLabels == [intent |-> {"field", "topic"}, control |-> {"greeting", "none"}, window |-> {"malformed", "failed"}]
=============================================================================
