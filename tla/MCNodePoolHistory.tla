--------------------------- MODULE MCNodePoolHistory ---------------------------
(* NodePoolHistory on a small instance: pool mode, one pool over two nodes. *)
EXTENDS NodePoolHistory, TLC

CONSTANTS t1, t2, main, d1, d2, a1

PoolModeMembers == main :> <<t1, t2>>
PoolModeMode == main :> "random"
Symmetry == Permutations(Dialers)
===============================================================================
