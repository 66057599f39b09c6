------------------------------ MODULE TaskDag ------------------------------
(***************************************************************************)
(* What the UC-8 fulfilment engine promises about the tasks of one RITM,   *)
(* said without workers, versions, locks or adapters: a task starts only   *)
(* when everything it depends on has settled, a finished task never moves  *)
(* again, and a task is skipped only because something upstream failed.    *)
(* Fulfillment.tla is shown to implement this specification.               *)
(***************************************************************************)
CONSTANTS Tasks, DependsOn

VARIABLE st

States == {"pending", "ready", "in_progress", "done", "failed", "skipped", "blocked"}

Settled == {"done", "skipped"}

\* P contains every task that depends on one of its members.
Closed(P) == \A u \in Tasks : DependsOn[u] \cap P # {} => u \in P

\* The least closed set that contains F: F and all that transitively depends on it.
Downstream(F) ==
    {t \in Tasks : \A P \in SUBSET Tasks : F \subseteq P /\ Closed(P) => t \in P}

Failed == {t \in Tasks : st[t] = "failed"}

Init == st = [t \in Tasks |-> "pending"]

Start(t) ==
    /\ st[t] \in {"pending", "ready"}
    /\ \A d \in DependsOn[t] : st[d] \in Settled
    /\ st' = [st EXCEPT ![t] = "in_progress"]

End(t) ==
    /\ st[t] = "in_progress"
    /\ \E s \in {"done", "failed", "blocked"} : st' = [st EXCEPT ![t] = s]

Requeue(S) ==
    /\ \A t \in S : st[t] = "in_progress"
    /\ st' = [t \in Tasks |-> IF t \in S THEN "ready" ELSE st[t]]

Skip(t) ==
    /\ st[t] \in {"pending", "ready"}
    /\ t \in Downstream(Failed)
    /\ st' = [st EXCEPT ![t] = "skipped"]

Next ==
    \/ \E t \in Tasks : Start(t) \/ End(t) \/ Skip(t)
    \/ \E S \in SUBSET Tasks : Requeue(S)

Spec == Init /\ [][Next]_st
=============================================================================
