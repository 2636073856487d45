---------------------------- MODULE NodePoolHistory ----------------------------
(***************************************************************************)
(* NodePool with a history variable: the nodes that were off the blacklist *)
(* at some moment of the dial under way.                                   *)
(***************************************************************************)
EXTENDS NodePool

VARIABLE seen   \* seen[d]: nodes not blacklisted at a moment since d's Dial

hvars == <<vars, seen>>

Usable == {t \in Tags : ~Blacklisted(t)}

HInit == Init /\ seen = [d \in Dialers |-> Usable]

HNext ==
    /\ Next
    /\ seen' = [d \in Dialers |->
                  IF pc'[d] = "idle" THEN {} ELSE
                  IF pc'[d] = "lock" /\ pc[d] = "idle" THEN Usable'
                                                      ELSE seen[d] \cup Usable']

HSpec == HInit /\ [][HNext]_hvars

\* pickMember reads the blacklist, forgets the lock and chooses later; other
\* goroutines fail nodes meanwhile, and candidate buffers are recycled between
\* dials.  Still, a dial is only given a node that was off the blacklist at
\* some moment of that very dial, and that carries the network it asked for.
PickedWasUsable ==
    \A d \in Dialers :
        /\ pc[d] = "inc" => member[d] \in seen[d]
        /\ \A i \in DOMAIN cand[d] : cand[d][i] \in seen[d] /\ Supports(cand[d][i], net[d])
===============================================================================
