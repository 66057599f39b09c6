------------------------------ MODULE MCTriage ------------------------------
(* Two proposals and two decisions about the same tickets at once. *)
EXTENDS Triage, TLC

MCStaff == [a |-> {"ann", "abe"}, b |-> {"bob"}]

Row(tenant, service, title, age, svc, vals) ==
  [tenant |-> tenant, service |-> service, status |-> "open", title |-> title, age |-> age, svc |-> svc,
   vals |-> vals @@ [c \in Columns |-> NoVal], sla |-> 0]

(* i2 may be the same outage as i1, reported a second time: "vpn (2)". *)
MCTable ==
  [i1 |-> Row("a", "incident", <<"vpn", 0>>, 0, "net", "ci_id" :> "c1"),
   i2 |-> Row("a", "incident", <<"mail", 2>>, 2000, "net",
              [ci_id |-> "c1", category |-> "network", assigned_to |-> "ann", assignment_group |-> "noc"]),
   i3 |-> Row("b", "incident", <<"vpn", 0>>, 0, "net", [category |-> "network", assigned_to |-> "bob"]),
   r1 |-> Row("a", "request", <<"laptop", 0>>, 0, NoVal, <<>>)]

MCRankings == {<<"i1", "i2", "i3", "r1">>, <<"i3", "r1", "i2", "i1">>}

MCReplies ==
  {[tie |-> NoVal, propose |-> <<NoVal, NoVal>>, infer |-> [impact |-> NoVal, urgency |-> NoVal]],
   [tie |-> "network", propose |-> <<"access", "high">>, infer |-> [impact |-> "On Business", urgency |-> "High"]]}
Propose(tenant, t) == [kind |-> "propose", role |-> "triage_desk", tenant |-> tenant, ticket |-> t]
Decide(tenant, p, choice, edits, bused) ==
  [kind |-> "decide", role |-> "admin", tenant |-> tenant, proposal |-> p, choice |-> choice,
   edits |-> edits, bus |-> bused]

MCAsks(j) ==
  CASE j = 1 -> {Propose("a", "i1"), Propose("a", "r1")}
    [] j = 2 -> {Propose("a", "i1"), Propose("b", "i1"), Propose("a", "i2"),
                 [kind |-> "queue", role |-> "manager", tenant |-> "a", service |-> "incident"],
                 [kind |-> "queue", role |-> "end_user", tenant |-> "a", service |-> "incident"]}
    [] j = 3 -> {Decide("a", 1, "yes", "priority" :> "Urgent", TRUE), Decide("a", 1, "no", <<>>, TRUE)}
    [] OTHER -> {Decide("a", 1, "yes", <<>>, FALSE), Decide("a", 2, "yes", "assigned_to" :> "abe", FALSE),
                 Decide("b", 1, "yes", "assigned_to" :> "bob", FALSE), Decide("a", 1, "yes", "ci_id" :> "c9", FALSE)}
=============================================================================
