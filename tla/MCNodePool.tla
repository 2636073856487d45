------------------------------ MODULE MCNodePool ------------------------------
(* NodePool on small instances. *)
EXTENDS NodePool, TLC

CONSTANTS t1, t2, main, port1, d1, d2, a1

\* Pool mode: one pool over both nodes.
PoolModePools == {main}
PoolModeMembers == main :> <<t1, t2>>
PoolModeMode == main :> "random"

\* Hybrid mode: the same, and one port of its own for the first node.
HybridPools == {main, port1}
HybridMembers == main :> <<t1, t2>> @@ port1 :> <<t1>>
HybridMode == main :> "balance" @@ port1 :> "sequential"

\* One pool over a single node.
OneNodeMembers == main :> <<t1>>

\* Dialers are interchangeable (not used where liveness is checked).
Symmetry == Permutations(Dialers)
===============================================================================
