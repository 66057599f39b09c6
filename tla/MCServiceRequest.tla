-------------------------- MODULE MCServiceRequest --------------------------
(***************************************************************************)
(* Small instances of ServiceRequest: calls for the same requester and item*)
(* that share an idempotency key, three users (the requester among them)   *)
(* over whom every pair of rosters is tried, and two decisions in flight.  *)
(***************************************************************************)
EXTENDS ServiceRequest, TLC

CONSTANTS c1, c2, u1, u2, u3

SharedKey == [c \in Callers |-> "k"]

Colleagues == Permutations({u2, u3})
=============================================================================
