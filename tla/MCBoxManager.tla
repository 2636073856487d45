----------------------------- MODULE MCBoxManager -----------------------------
(* BoxManager on small instances. *)
EXTENDS BoxManager, TLC

CONSTANTS n1, n2, n3, h1, h2, r1

\* Handlers are interchangeable (not used where liveness is checked).
Symmetry == Permutations(Handlers)
===============================================================================
