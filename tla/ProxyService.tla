----------------------------- MODULE ProxyService -----------------------------
(***************************************************************************)
(* What the box manager promises: the program serves a set of nodes, is    *)
(* switched from one set to another by one reload at a time, and says that *)
(* it serves only when it does.  A switch that fails both ways leaves it   *)
(* down, and one that is under way when the manager is closed may still    *)
(* bring an instance up.                                                   *)
(***************************************************************************)
CONSTANT Nodes

VARIABLES
    phase,  \* "starting", "serving", "switching", "down", "closed", "exited"
    served  \* the nodes a client can be proxied through

Init == phase = "starting" /\ served = {}

\* The first instance, or the outcome of a switch.
Serve ==
    /\ phase \in {"starting", "switching"}
    /\ phase' = "serving"
    /\ served' \in (SUBSET Nodes) \ {{}}

Exit == phase = "starting" /\ phase' = "exited" /\ UNCHANGED served

TakeDown == phase = "serving" /\ phase' = "switching" /\ served' = {}

GiveUp == phase = "switching" /\ phase' = "down" /\ UNCHANGED served

Close == phase \in {"serving", "switching", "down"} /\ phase' = "closed" /\ served' = {}

ServeLate ==
    /\ phase = "closed" /\ served = {}
    /\ served' \in (SUBSET Nodes) \ {{}}
    /\ UNCHANGED phase

Next == Serve \/ Exit \/ TakeDown \/ GiveUp \/ Close \/ ServeLate

Spec == Init /\ [][Next]_<<phase, served>>
===============================================================================
