----------------------------- MODULE MCChatDoor -----------------------------
(* Two requests, two users of one tenant with two roles, one session id.   *)
EXTENDS ChatDoor

ann == [tenant |-> "t", user |-> "ann", role |-> "agent"]
bob == [tenant |-> "t", user |-> "bob", role |-> "user"]

MCPrincipals == {ann, bob}
MCNormalForm == [m \in {"reset vpn", "RESET vpn ", "it", "", "none"} |->
                    IF m = "RESET vpn " THEN "reset vpn" ELSE m]
MCStandalone == {"reset vpn", "RESET vpn "}
MCScore == [p \in (DOMAIN MCNormalForm) \X (DOMAIN MCNormalForm) |->
                IF MCNormalForm[p[1]] = MCNormalForm[p[2]] THEN 99 ELSE 40]
In(door, who, s, msg, resume) ==
    [door |-> door, who |-> who, sid |-> s, msg |-> msg, resume |-> resume]
MCInputs ==
    {In("chat", ann, "s1", "reset vpn", FALSE), In("chat", ann, "s1", "it", TRUE),
     In("chat_stream", bob, "bad id", "reset vpn", FALSE), In("chat_stream", ann, "s1", "it", TRUE),
     In("chat_stream", ann, "s1", "RESET vpn ", FALSE),
     In("ws", ann, "s1", "", FALSE), In("fast", ann, "none", "reset vpn", FALSE)}
\* A plain answer, one that carries an offer, and a fulfilment reply.
MCOutcomes == {[status |-> "executed", agents |-> {"uc01_summarization"}, text |-> "useful"],
               [status |-> "executed", agents |-> {"uc03_kb_lookup"}, text |-> "useful"],
               [status |-> "executed", agents |-> {"uc08_fulfillment"}, text |-> "useful"]}
=============================================================================
