----------------------------- MODULE MCToolSteps ----------------------------
(***************************************************************************)
(* Two tenants, two deliveries at a time: the same step twice, two steps   *)
(* of one turn on one tool, a step that lacks its record, a boundary turn. *)
(***************************************************************************)
EXTENDS ToolSteps, TLC

P(name, required) == [name |-> name, required |-> required]

MCToolRecs ==
  "find" :> [params |-> <<P("query", TRUE)>>, resolves |-> TRUE, egress |-> "embed", asks |-> FALSE, big |-> TRUE]
  @@ "read" :> [params |-> <<P("service_id", FALSE), P("ticket_id", TRUE)>>, resolves |-> TRUE,
                egress |-> "stream", asks |-> FALSE, big |-> FALSE]
  @@ "act" :> [params |-> <<P("tenant_id", TRUE)>>, resolves |-> TRUE, egress |-> "none", asks |-> TRUE, big |-> FALSE]
  @@ "note" :> [params |-> <<P("ticket_id", TRUE)>>, resolves |-> TRUE, egress |-> "none", asks |-> FALSE, big |-> FALSE]
  @@ "lost" :> [params |-> <<>>, resolves |-> FALSE, egress |-> "none", asks |-> FALSE, big |-> FALSE]

MCAgents ==
  "finder" :> [tools |-> <<"find">>, primary |-> "find"]
  @@ "reader" :> [tools |-> <<"find", "read">>, primary |-> "read"]
  @@ "actor" :> [tools |-> <<"gone", "act">>, primary |-> NoTool]
  @@ "broken" :> [tools |-> <<"act", "lost">>, primary |-> "lost"]
  @@ "noter" :> [tools |-> <<"act", "note">>, primary |-> NoTool]
  @@ "talker" :> [tools |-> <<>>, primary |-> NoTool]

Base == [route |-> "handler", tenant |-> "t1", principal |-> None, user |-> "ann", key |-> None, request |-> "r1",
         step |-> "s1", agent |-> "finder", tool |-> NoTool, params |-> {"query"}, bound |-> {}, focus |-> FALSE,
         text |-> <<"email", "date", "phone">>, outcome |-> None]

Tools == [Base EXCEPT !.route = "tools"]
Boundary1 == [Base EXCEPT !.route = "boundary"]

Other == [Base EXCEPT !.tenant = "t2", !.user = "bob", !.request = "r2", !.text = <<"phone">>]

(* An envelope with a key of its own. *)
Keyed == [Tools EXCEPT !.key = "k1", !.request = "r3", !.agent = "actor"]

Shared == {Tools, Keyed, [Tools EXCEPT !.agent = "reader", !.params = {"ticket_id"}]}

MCWorks(j) ==
  IF j = "j1"
  THEN Shared \cup {[Base EXCEPT !.params = {}, !.agent = "reader"],
                    [Base EXCEPT !.agent = "noter", !.params = {"ticket_id"}],
                    [Base EXCEPT !.agent = "actor", !.tool = "act"],
                    [Base EXCEPT !.agent = "broken"], [Base EXCEPT !.agent = "nobody"]}
  ELSE {Tools, Keyed, [Tools EXCEPT !.step = "s2"],
        [Tools EXCEPT !.agent = "broken"], [Tools EXCEPT !.agent = "talker"], [Tools EXCEPT !.agent = "nobody"],
        [Tools EXCEPT !.principal = "t2"],
        [Other EXCEPT !.agent = "reader", !.tool = "read", !.params = {}, !.focus = TRUE],
        [Other EXCEPT !.agent = "noter", !.tool = "note", !.params = {}],
        [Boundary1 EXCEPT !.outcome = "no_confident_match"],
        [Boundary1 EXCEPT !.outcome = "policy_denied"],
        [Boundary1 EXCEPT !.outcome = "entity_clarification"]}

MCReplies == {[kind |-> "blank", id |-> None], [kind |-> "literal", id |-> "inc9"], [kind |-> "vague", id |-> None]}
MCPicks == {"inc1", "inc2", "inc3"}
Says(form, category, axes, reply) == [form |-> form, category |-> category, axes |-> axes, reply |-> reply]
MCVerdicts == {Says("text", None, None, <<>>), Says("no object", None, None, <<>>),
               Says("object", "greeting", "out_of_scope", <<"hi">>),
               Says("object", "out_of_scope", "in_scope_unclear", <<>>),
               Says("object", "greeting", None, <<"hi">>)}
Row(t, i, owners) == [tenant |-> t, id |-> i, owners |-> owners]
MCRows0 == <<Row("t1", "inc1", {"ann"}), Row("t1", "inc2", {"ann", "eve"}), Row("t2", "inc3", {"bob"})>>
MCRows == {Row("t1", "inc1", {"ann"}), Row("t1", "inc1", {"eve"})}
=============================================================================
