-------------------------- MODULE MCContextThread --------------------------
(* Instances of ContextThread for TLC. *)
EXTENDS ContextThread, TLC

CONSTANTS e1, e2, n1, n2, p1, p2
=============================================================================
