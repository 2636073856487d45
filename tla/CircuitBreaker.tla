---------------------------- MODULE CircuitBreaker ----------------------------
(***************************************************************************)
(* What sharedMemberState promises its users, without pools, goroutines,   *)
(* locks or monitor copies: one circuit breaker per node.  A node that     *)
(* fails Threshold times with no success in between is cut off for         *)
(* Duration; it comes back when the time is over or when it is released.   *)
(***************************************************************************)
EXTENDS Naturals

CONSTANTS Tags, Threshold, Duration, MaxClock

VARIABLES failures, until, clock

bvars == <<failures, until, clock>>

Init ==
    /\ failures = [t \in Tags |-> 0]
    /\ until = [t \in Tags |-> 0]
    /\ clock = 0

Trip(t) ==
    /\ failures[t] + 1 >= Threshold
    /\ failures' = [failures EXCEPT ![t] = 0]
    /\ until' = [until EXCEPT ![t] = clock + Duration]
    /\ UNCHANGED clock

CountFailure(t) ==
    /\ failures[t] + 1 < Threshold
    /\ failures' = [failures EXCEPT ![t] = @ + 1]
    /\ UNCHANGED <<until, clock>>

Succeed(t) ==
    /\ failures' = [failures EXCEPT ![t] = 0]
    /\ UNCHANGED <<until, clock>>

Release(t) ==
    /\ failures' = [failures EXCEPT ![t] = 0]
    /\ until' = [until EXCEPT ![t] = 0]
    /\ UNCHANGED clock

Expire(t) ==
    /\ until[t] # 0
    /\ until[t] < clock
    /\ until' = [until EXCEPT ![t] = 0]
    /\ UNCHANGED <<failures, clock>>

Tick ==
    /\ clock < MaxClock
    /\ clock' = clock + 1
    /\ UNCHANGED <<failures, until>>

Next ==
    \/ \E t \in Tags :
          Trip(t) \/ CountFailure(t) \/ Succeed(t) \/ Release(t) \/ Expire(t)
    \/ Tick

Spec == Init /\ [][Next]_bvars
===============================================================================
