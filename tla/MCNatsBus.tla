------------------------------ MODULE MCNatsBus ------------------------------
(* Two calls of two tenants.                                               *)
EXTENDS NatsBus, TLC

CONSTANTS c1, c2, t1, t2

Owners == (c1 :> t1) @@ (c2 :> t2)
=============================================================================
