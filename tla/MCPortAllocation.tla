-------------------------- MODULE MCPortAllocation --------------------------
(* Model values for PortAllocation.                                        *)
EXTENDS PortAllocation, TLC
CONSTANTS n1, n2, n3, u1, u2

\* n1 and n3 are two nodes with one URI.
SharedUri == n1 :> u1 @@ n2 :> u2 @@ n3 :> u1
=============================================================================
