--------------------------- MODULE MCFulfillment ---------------------------
(***************************************************************************)
(* Small instances of Fulfillment for TLC: plans (DAG and task kinds) and  *)
(* processes.  w1 and w2 are two execute_plan calls; OneProcess gives them *)
(* the lock key of a single process, TwoProcesses one key each, as str     *)
(* hashing is salted per interpreter; the workers are then alike.          *)
(***************************************************************************)
EXTENDS Fulfillment, TLC

CONSTANTS w1, w2

OneProcess == [w \in Workers |-> 0]
TwoProcesses == [w \in Workers |-> w]
MCWorkers == Permutations(Workers)

\* An adapter call, then a step that depends on it, human work or a gate.
PairDeps == 1 :> {} @@ 2 :> {1}
PairPlans == {1 :> "adapter" @@ 2 :> k : k \in {"manual", "approval"}}

\* One task of each kind: an adapter call, then an approval gate beside a
\* misconfigured task with a dependent.
ForkDeps == 1 :> {} @@ 2 :> {1} @@ 3 :> {1} @@ 4 :> {3}
ForkPlans == {1 :> "adapter" @@ 2 :> "approval" @@ 3 :> "misconfigured" @@ 4 :> "manual"}

=============================================================================
