--------------------------- MODULE MCSessionStore ---------------------------
(* A small instance of SessionStore: whose question can age.               *)
EXTENDS SessionStore

CONSTANTS w1, w2

FirstQuestion == {<<w1, 1>>}
=============================================================================
