-------------------------- MODULE MCTurnExecutor --------------------------
(* Small instances of TurnExecutor: the plans and follow-ups tried.        *)
EXTENDS TurnExecutor, TLC

A == <<1>>
B == <<2>>

Planned(kind, deps, hard) == [kind |-> kind, deps |-> deps, hard |-> hard]

Chain(first, second) ==
    [steps |-> A :> Planned(first, {}, {}) @@ B :> Planned(second, {A}, {A}), unrouted |-> FALSE]
Parallel(first, second) ==
    [steps |-> A :> Planned(first, {}, {}) @@ B :> Planned(second, {}, {}), unrouted |-> FALSE]

\* Two actions in a row, with a fragment of the message left over; two
\* questions in one wave; the guided catalogue request, then an action.
MCPlans == {[Chain("action", "action") EXCEPT !.unrouted = TRUE], Parallel("action", "elicit"),
            Chain("own", "action")}

FollowUp(kind, deps) == [kind |-> kind, deps |-> deps]

\* Nothing; or a read, an action that waits for a step that does not exist,
\* an agent the registry does not know, and a step beyond the width budget.
MCFollowUps == {<<>>, <<FollowUp("read", {}), FollowUp("action", {<<9>>}),
                        FollowUp("unknown", {}), FollowUp("read", {})>>}

=============================================================================
