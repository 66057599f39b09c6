------------------------------ MODULE MCReaders -----------------------------
(* Two requests at once over two tenants' tickets and articles. *)
EXTENDS Readers, TLC

One(x) == {<<x, TRUE>>}
Cols == {"title", "status", "category", "ci", "group", "service_name", "assigned_to", "requested_for", "work_notes", "timeline",
         "attachments", "links", "problem", "tenant_id"}
T(service, by, age, tenant, vals) ==
  [service |-> service, by |-> by, age |-> age,
   vals |-> [c \in Cols |-> IF c \in DOMAIN vals THEN vals[c] ELSE IF c = "tenant_id" THEN One(tenant) ELSE {}]]

MCTickets ==
  <<"a", "INC1">> :> T("incident", "eve", 0, "a",
      [title |-> One("vpn"), status |-> One("open"), category |-> One("network"), ci |-> One("c1"),
       problem |-> One("PRB1"), timeline |-> {<<"seen", TRUE>>, <<"probed", FALSE>>},
       work_notes |-> {<<"called", TRUE>>, <<"suspect", FALSE>>}])
  @@ <<"a", "INC2">> :> T("incident", "bob", 2, "a",
      [title |-> One("vpn"), status |-> One("resolved"), category |-> One("network"), ci |-> One("c1")])
  @@ <<"a", "REQ1">> :> T("request", "eve", 5, "a", [title |-> One("laptop"), status |-> One("open")])
  @@ <<"a", "PRB1">> :> T("problem", "ann", 1, "a",
      [title |-> One("gateway"), status |-> One("open"), work_notes |-> {<<"root", FALSE>>}])
  @@ <<"b", "INC1">> :> T("incident", "eve", 0, "b", [title |-> One("mail"), status |-> One("open")])

MCServiceOfId == [INC1 |-> "incident", INC2 |-> "incident", REQ1 |-> "request", PRB1 |-> "problem"]
MCClasses == [tenant_id |-> "restricted"]

K(state, aud, about, votes, linked, emb) ==
  [state |-> state, audience |-> aud, about |-> about, votes |-> votes, linked |-> linked, emb |-> emb]
MCKb ==
  <<"a", "KB1">> :> K("published", "all", {"vpn", "network"}, 3, {"INC1"}, TRUE)
  @@ <<"a", "KB2">> :> K("published", "technician", {"vpn"}, 1, {"INC1", "INC2"}, TRUE)
  @@ <<"a", "KB3">> :> K("published", "end_user", {"laptop"}, 0, {}, FALSE)
  @@ <<"b", "KB1">> :> K("published", "all", {"vpn"}, 0, {"INC1"}, TRUE)
MCCosine(id, words) == IF "vpn" \in words THEN (IF id = "KB1" THEN 80 ELSE 55) ELSE 40

MCTicketEdits == {<<<<"a", "INC1">>, "status", One("resolved")>>, <<<<"a", "PRB1">>, "work_notes", {}>>,
                  <<<<"a", "INC1">>, "by", "bob">>, <<<<"a", "REQ1">>, "assigned_to", One("bob")>>}
MCKbEdits == {<<<<"a", "KB1">>, "retired", "all">>}
MCTrail == [INC2 |-> 75]

MCFieldReplies == {[error |-> TRUE, labels |-> <<>>, via |-> NoVal], [error |-> FALSE, labels |-> <<>>, via |-> NoVal],
                   [error |-> FALSE, labels |-> <<"work_notes">>, via |-> "problem"]}
MCRelevant == {[error |-> TRUE, relevant |-> {}], [error |-> FALSE, relevant |-> {"INC2"}], [error |-> FALSE, relevant |-> {}]}
MCRank == {[error |-> TRUE, labels |-> <<>>], [error |-> FALSE, labels |-> [KB1 |-> 3, KB2 |-> 5, KB9 |-> 3]],
           [error |-> FALSE, labels |-> [KB1 |-> -1]]}
MCText == {[error |-> "gateway", text |-> BlankText], [error |-> "other", text |-> BlankText],
           [error |-> "no", text |-> [cites |-> {}, none |-> TRUE]],
           [error |-> "no", text |-> [cites |-> {"KB1", "KB2"}, none |-> FALSE]]}

-----------------------------------------------------------------------------
Msg(aliases, whole, linked, near) == [aliases |-> aliases, whole |-> whole, linked |-> linked, near |-> near]
Sum(tenant, role, id, msg, wired) ==
  [kind |-> "summary", tenant |-> tenant, role |-> role, service |-> MCServiceOfId[id], id |-> id, msg |-> msg, wired |-> wired]
Read(tenant, role, service, id, part) ==
  [kind |-> "read", tenant |-> tenant, role |-> role, service |-> service, id |-> id, part |-> part]
Sim(kind, tenant, user, role, id, text, max, prefer) ==
  [kind |-> kind, tenant |-> tenant, user |-> user, role |-> role, id |-> id, service |-> NoVal, text |-> text,
   sem |-> [INC1 |-> 95, INC2 |-> 92, REQ1 |-> 60], max |-> max, window |-> 0, prefer |-> prefer,
   sameCategory |-> FALSE, sameService |-> FALSE, min |-> 5000]
Kb(kind, tenant, role, id, words) ==
  [kind |-> kind, tenant |-> tenant, role |-> role, id |-> id, words |-> words, wired |-> TRUE]
Cache(kind, tenant, fp, summary) ==
  [kind |-> kind, tenant |-> tenant, id |-> NoVal, fp |-> fp, summary |-> summary]
Recent(user, max) == [kind |-> "recent", tenant |-> "a", user |-> user, services |-> {}, max |-> max, id |-> NoVal]

MCAsks(j) ==
  IF j = 1 THEN
    {Sum("a", "service_desk_agent", "INC1", NoMessage, TRUE),
     Sum("a", "service_desk_agent", "INC1", Msg(<<>>, FALSE, TRUE, <<>>), TRUE),
     Sum("a", "end_user", "INC1", Msg(<<"state", "owner">>, FALSE, FALSE, <<>>), TRUE),
     Read("a", "end_user", "incident", "INC1", "timeline"),
     Sim("similar", "a", "bob", "service_desk_agent", "INC1", FALSE, 1, "any"),
     Sim("similar", "a", "eve", "end_user", "INC2", FALSE, 2, "any"),
     Kb("kb", "a", "service_desk_agent", NoVal, {"vpn", "INC1"}),
     Kb("byticket", "a", "service_desk_agent", "INC1", {"vpn"}),
     Cache("cacheput", "a", <<"f">>, {"text"}), Cache("cacheput", "a", <<"g">>, {})}
  ELSE
    {Sum("a", "end_user", "INC1", NoMessage, TRUE),
     Sum("a", "end_user", "INC1", Msg(<<>>, FALSE, TRUE, <<>>), TRUE),
     Sum("a", "end_user", "PRB1", Msg(<<"notes">>, FALSE, FALSE, [status |-> 20]), TRUE),
     Sum("b", "service_desk_agent", "INC1", Msg(<<>>, FALSE, FALSE, [status |-> 60, title |-> 58, ci |-> 40]), FALSE),
     Sum("a", "end_user", "INC1", Msg(<<"notes">>, TRUE, FALSE, <<>>), TRUE),
     Read("b", "service_desk_agent", "incident", "INC2", "details"),
     Read("a", "service_desk_agent", "knowledge", "INC2", "links"),
     Recent("eve", 1), Recent("bob", 2), Cache("cacheget", "a", <<"f">>, {}),
     Sim("similar", "a", "eve", "requester", "INC1", FALSE, 1, "any"),
     Sim("similar", "a", "eve", "end_user", "INC2", FALSE, 2, "any"),
     Sim("similar", "a", "eve", "visitor", "INC1", FALSE, 1, "any"),
     Sim("tool", "a", "eve", "end_user", "INC1", TRUE, 2, "open"),
     Sim("tool", "a", "ann", NoVal, "PRB1", TRUE, 2, "resolved"),
     Sim("tool", "b", "ann", "manager", "INC2", FALSE, 2, "any"),
     Kb("kb", "a", "end_user", NoVal, {"vpn", "INC1"}), Kb("kb", "a", "end_user", NoVal, {"laptop"}),
     Kb("article", "a", "end_user", "KB1", {}), Kb("article", "a", "end_user", "KB2", {}),
     Kb("byticket", "a", "end_user", "INC2", {"mail"})}
=============================================================================
