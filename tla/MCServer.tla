------------------------------ MODULE MCServer ------------------------------
(* Instances of Server for TLC. *)
EXTENDS Server, TLC

CONSTANTS s1, s2, a1, a2, g1, c1, c2, c3, api

\* Each request of these instances has a caller of its own, but a2, which c3
\* sends as well as a1.
MCCallerOf ==
  [r \in Requests |-> CASE r = s1 -> c1 [] r = s2 -> c2 [] r = g1 -> c2 [] OTHER -> c3]
=============================================================================
