---------------------------- MODULE NodePoolProofs ----------------------------
(***************************************************************************)
(* Theorems about NodePool, for every set of nodes, pools and goroutines,  *)
(* every membership, every threshold and every duration.                   *)
(***************************************************************************)
EXTENDS NodePool, FiniteSetTheorems, TLAPS

-----------------------------------------------------------------------------
(* The inductive invariant *)

\* What the locals of a goroutine hold at each label: the facts that make every
\* index and every application of the module meaningful.
LocalsOf(d) ==
    /\ now[d] <= clock
    /\ pc[d] \in PickLabels => pool[d] \in Pools
    /\ pc[d] \in {"scanExpired", "freeEntry"} => InLoop(d)
    /\ pc[d] \in {"select", "balance"} => cand[d] # << >>
    /\ pc[d] \in ConnLabels => member[d] \in Tags
    /\ pc[d] = "select" => idx[d] = 1
    /\ pc[d] = "balance" => idx[d] = 1 \/ member[d] \in Tags

Locals == \A d \in Dialers : LocalsOf(d)

TypeInv == TypeOK /\ Locals

\* The remainder of a division is a natural number below the divisor.
LEMMA Remainder ==
    ASSUME NEW a \in Nat, NEW n \in Nat \ {0}
    PROVE  a % n \in 0 .. n - 1
OBVIOUS

\* The node under the loop index is a node.
LEMMA CurrentIsTag ==
    ASSUME TypeInv, NEW d \in Dialers, pc[d] \in PickLabels, InLoop(d)
    PROVE  Current(d) \in Tags
<1>1. pool[d] \in Pools
  BY DEF TypeInv, Locals, LocalsOf
<1>2. Members[pool[d]] \in Seq(Tags)
  BY <1>1, PoolAssumption
<1>3. idx[d] \in 1 .. Len(Members[pool[d]])
  BY <1>2 DEF TypeInv, TypeOK, TypePick, InLoop
<1> QED
  BY <1>2, <1>3 DEF Current

\* The round-robin index falls inside the candidates.
LEMMA SequentialChoice ==
    ASSUME TypeInv, NEW d \in Dialers, pc[d] = "select"
    PROVE  cand[d][(rrCounter[pool[d]] % Len(cand[d])) + 1] \in Tags
<1>1. /\ Len(cand[d]) \in Nat \ {0}
      /\ rrCounter[pool[d]] \in Nat
      /\ cand[d] \in Seq(Tags)
  BY PoolAssumption DEF TypeInv, TypeOK, Locals, LocalsOf, PickLabels, TypePick, TypePool
<1>2. rrCounter[pool[d]] % Len(cand[d]) \in 0 .. Len(cand[d]) - 1
  BY <1>1, Remainder
<1> QED
  BY <1>1, <1>2

\* The initial states satisfy the inductive invariant.
LEMMA TypeInit == Init => TypeInv
BY PoolAssumption DEF Init, TypeInv, TypeOK, TypeShared, TypeEntry, TypePool,
    TypeControl, TypePick, Locals, LocalsOf, DialerLabels, AdminLabels, PickLabels,
    LockedLabels, ConnLabels

\* Every step keeps the types, given what the locals hold at each label.
LEMMA TypeOKStep == TypeInv /\ [Next]_vars => TypeOK'
<1> SUFFICES ASSUME TypeInv, [Next]_vars PROVE TypeOK'
  OBVIOUS
<1> USE PoolAssumption DEF TypeInv, TypeOK
<1>1. ASSUME NEW d \in Dialers, Dial(d) PROVE TypeOK'
  <2>1. TypeShared' /\ TypeEntry' /\ TypePool'
    BY <1>1 DEF Dial, TypeShared, TypeEntry, TypePool, entryVars, sharedVars
  <2>2. TypeControl'
    BY <1>1 DEF Dial, TypeControl, Goto, DialerLabels, PickLabels
  <2>3. PICK p \in Pools, m \in Networks : /\ pool' = [pool EXCEPT ![d] = p]
                                         /\ net' = [net EXCEPT ![d] = m]
    BY <1>1 DEF Dial
  <2>4. now' \in [Dialers -> Nat]
    BY <1>1 DEF Dial, TypePick, TypeShared
  <2>5. TypePick'
    BY <1>1, <2>3, <2>4 DEF Dial, TypePick
  <2> QED
    BY <2>1, <2>2, <2>5
<1>2. ASSUME NEW d \in Dialers, LockForScan(d) PROVE TypeOK'
  <2>1. TypeShared' /\ TypeEntry' /\ TypePool'
    BY <1>2 DEF LockForScan, Lock, TypeShared, TypeEntry, TypePool, entryVars, sharedVars
  <2>2. TypeControl'
    BY <1>2 DEF LockForScan, TypeControl, Goto, DialerLabels, PickLabels, LockedLabels, ConnLabels, AdminLabels
  <2>3. TypePick'
    BY <1>2 DEF LockForScan, TypePick, pickVars
  <2> QED
    BY <2>1, <2>2, <2>3
<1>3. ASSUME NEW d \in Dialers, ScanMember(d) PROVE TypeOK'
  <2>0. Current(d) \in Tags
    BY <1>3, CurrentIsTag DEF ScanMember, PickLabels, LockedLabels, Locals, LocalsOf
  <2>1. until' = until \/ until' = [until EXCEPT ![Current(d)] = 0]
    BY <1>3 DEF ScanMember
  <2>2. TypeShared' /\ TypeEntry' /\ TypePool'
    BY <2>0, <2>1, <1>3 DEF ScanMember, TypeShared, TypeEntry, TypePool, entryVars
  <2>3. TypeControl'
    BY <1>3 DEF ScanMember, TypeControl, Goto, DialerLabels, PickLabels, LockedLabels
  <2>4. cand' = cand \/ cand' = [cand EXCEPT ![d] = Append(@, Current(d))]
    BY <1>3 DEF ScanMember, AddCandidate, TypePick
  <2>5. idx' = idx \/ idx' = [idx EXCEPT ![d] = @ + 1]
    BY <1>3 DEF ScanMember, AddCandidate
  <2>6. TypePick'
    <3>1. UNCHANGED <<pool, net, now, rescan, minActive>>
      BY <1>3 DEF ScanMember
    <3>2. cand' \in [Dialers -> Seq(Tags)]
      <4>1. Append(cand[d], Current(d)) \in Seq(Tags)
        BY <2>0 DEF TypePick
      <4> QED
        BY <4>1, <2>4 DEF TypePick
    <3>3. idx' \in [Dialers -> Nat \ {0}]
      BY <2>5 DEF TypePick
    <3> QED
      BY <3>1, <3>2, <3>3 DEF TypePick
  <2> QED
    BY <2>2, <2>3, <2>6
<1>4. ASSUME NEW d \in Dialers, ClearExpired(d) PROVE TypeOK'
  <2>0. Current(d) \in Tags
    BY <1>4, CurrentIsTag DEF ClearExpired, PickLabels, LockedLabels, Locals, LocalsOf
  <2>1. TypeShared' /\ TypeEntry' /\ TypePool'
    BY <2>0, <1>4 DEF ClearExpired, TypeShared, TypeEntry, TypePool, entryVars, sharedVars
  <2>2. TypeControl'
    BY <2>0, <1>4 DEF ClearExpired, TypeControl, Goto, DialerLabels, PickLabels, LockedLabels, ConnLabels, AdminLabels
  <2>3. TypePick'
    BY <2>0, <1>4 DEF ClearExpired, TypePick, pickVars, AddCandidate
  <2> QED
    BY <2>1, <2>2, <2>3
<1>5. ASSUME NEW d \in Dialers, EndScan(d) PROVE TypeOK'
  <2>1. TypeShared' /\ TypeEntry' /\ TypePool'
    BY <1>5 DEF EndScan, Unlock, TypeShared, TypeEntry, TypePool, entryVars, sharedVars
  <2>2. TypeControl'
    BY ZenonT(60), <1>5 DEF EndScan, TypeControl, Goto, DialerLabels, PickLabels, LockedLabels, ConnLabels, AdminLabels
  <2>3. TypePick'
    BY <1>5 DEF EndScan, TypePick, pickVars
  <2> QED
    BY <2>1, <2>2, <2>3
<1>6. ASSUME NEW d \in Dialers, LockForRelease(d) PROVE TypeOK'
  <2>1. TypeShared' /\ TypeEntry' /\ TypePool'
    BY <1>6 DEF LockForRelease, Lock, TypeShared, TypeEntry, TypePool, entryVars, sharedVars
  <2>2. TypeControl'
    BY <1>6 DEF LockForRelease, TypeControl, Goto, DialerLabels, PickLabels, LockedLabels, ConnLabels, AdminLabels
  <2>3. TypePick'
    BY <1>6 DEF LockForRelease, TypePick, pickVars
  <2> QED
    BY <2>1, <2>2, <2>3
<1>7. ASSUME NEW d \in Dialers, CheckMember(d) PROVE TypeOK'
  <2>1. mu' = mu \/ mu' = [mu EXCEPT ![pool[d]] = None]
    BY <1>7 DEF CheckMember, Unlock
  <2>2. TypeShared' /\ TypeEntry' /\ TypePool'
    BY <1>7, <2>1 DEF CheckMember, TypeShared, TypeEntry, TypePool, entryVars, sharedVars
  <2>3. TypeControl'
    BY <1>7 DEF CheckMember, TypeControl, Goto, DialerLabels, PickLabels, LockedLabels
  <2>4. idx' = idx \/ idx' = [idx EXCEPT ![d] = @ + 1]
    BY <1>7 DEF CheckMember
  <2>5. UNCHANGED <<pool, net, now, rescan, cand, minActive>>
    BY <1>7 DEF CheckMember
  <2>6. TypePick'
    BY <2>4, <2>5 DEF TypePick
  <2> QED
    BY <2>2, <2>3, <2>6
<1>9. ASSUME NEW d \in Dialers, EndCheck(d) PROVE TypeOK'
  <2>1. TypeShared' /\ TypeEntry' /\ TypePool'
    BY <1>9 DEF EndCheck, TypeShared, TypeEntry, TypePool, entryVars, sharedVars
  <2>2. TypeControl'
    BY <1>9 DEF EndCheck, TypeControl, Goto, DialerLabels, PickLabels, LockedLabels, ConnLabels, AdminLabels
  <2>3. TypePick'
    BY <1>9 DEF EndCheck, TypePick, pickVars
  <2> QED
    BY <2>1, <2>2, <2>3
<1>10. ASSUME NEW d \in Dialers, FreeMember(d) PROVE TypeOK'
  <2>0. Current(d) \in Tags
    BY <1>10, CurrentIsTag DEF FreeMember, PickLabels, LockedLabels, Locals, LocalsOf
  <2>1. failures' \in [Tags -> 0 .. Threshold - 1]
    BY <2>0, <1>10, 0 \in 0 .. Threshold - 1 DEF FreeMember, TypeShared
  <2>2. until' \in [Tags -> Nat]
    BY <2>0, <1>10 DEF FreeMember, TypeShared
  <2>3. TypeShared' /\ TypeEntry' /\ TypePool'
    BY <2>1, <2>2, <1>10 DEF FreeMember, TypeShared, TypeEntry, TypePool, entryVars
  <2>4. TypeControl'
    BY <1>10 DEF FreeMember, TypeControl, Goto, DialerLabels, PickLabels, LockedLabels
  <2>5. TypePick'
    BY <1>10 DEF FreeMember, TypePick, pickVars
  <2> QED
    BY <2>3, <2>4, <2>5
<1>11. ASSUME NEW d \in Dialers, FreeEntry(d) PROVE TypeOK'
  <2>0. Current(d) \in Tags
    BY <1>11, CurrentIsTag DEF FreeEntry, PickLabels, LockedLabels, Locals, LocalsOf
  <2>1. TypeShared' /\ TypeEntry' /\ TypePool'
    BY <2>0, <1>11 DEF FreeEntry, TypeShared, TypeEntry, TypePool, entryVars, sharedVars
  <2>2. TypeControl'
    BY <2>0, <1>11 DEF FreeEntry, TypeControl, Goto, DialerLabels, PickLabels, LockedLabels, ConnLabels, AdminLabels
  <2>3. TypePick'
    BY <2>0, <1>11 DEF FreeEntry, TypePick, pickVars
  <2> QED
    BY <2>1, <2>2, <2>3
<1>12. ASSUME NEW d \in Dialers, EndFree(d) PROVE TypeOK'
  <2>1. TypeShared' /\ TypeEntry' /\ TypePool'
    BY <1>12 DEF EndFree, TypeShared, TypeEntry, TypePool, entryVars, sharedVars
  <2>2. TypeControl'
    BY <1>12 DEF EndFree, TypeControl, Goto, DialerLabels, PickLabels, LockedLabels, ConnLabels, AdminLabels
  <2>3. TypePick'
    BY <1>12 DEF EndFree, TypePick, pickVars
  <2> QED
    BY <2>1, <2>2, <2>3
<1>13. ASSUME NEW d \in Dialers, Refuse(d) PROVE TypeOK'
  <2>1. TypeShared' /\ TypeEntry' /\ TypePool'
    BY <1>13 DEF Refuse, TypeShared, TypeEntry, TypePool, entryVars, sharedVars
  <2>2. TypeControl'
    BY <1>13 DEF Refuse, TypeControl, Goto, DialerLabels, PickLabels, LockedLabels, ConnLabels, AdminLabels
  <2>3. TypePick'
    BY <1>13 DEF Refuse, TypePick, pickVars, ReturnFromPick, ResetBuffer
  <2> QED
    BY <2>1, <2>2, <2>3
<1>14. ASSUME NEW d \in Dialers, SelectSequential(d) PROVE TypeOK'
  <2>2. cand[d][(rrCounter[pool[d]] % Len(cand[d])) + 1] \in Tags
    BY <1>14, SequentialChoice DEF SelectSequential
  <2>0. pool[d] \in Pools /\ rrCounter[pool[d]] \in Nat
    BY <1>14 DEF SelectSequential, Locals, LocalsOf, PickLabels, TypePool
  <2>3. (rrCounter[pool[d]] + 1) % CounterSize \in 0 .. CounterSize - 1
    <3>1. rrCounter[pool[d]] + 1 \in Nat /\ CounterSize \in Nat \ {0}
      BY <2>0
    <3>2. DEFINE k == rrCounter[pool[d]] + 1
    <3> HIDE DEF k
    <3>3. k % CounterSize \in 0 .. CounterSize - 1
      BY <3>1, Remainder DEF k
    <3> QED
      BY <3>3 DEF k
  <2>4. TypeShared' /\ TypeEntry' /\ TypePool'
    BY <2>3, <1>14 DEF SelectSequential, TypeShared, TypeEntry, TypePool, entryVars, sharedVars
  <2>5. TypeControl'
    BY <2>2, <1>14 DEF SelectSequential, Choose, TypeControl, Goto, DialerLabels, ConnLabels
  <2>6. TypePick'
    BY <1>14 DEF SelectSequential, Choose, ReturnFromPick, ResetBuffer, TypePick
  <2> QED
    BY <2>4, <2>5, <2>6
<1>15. ASSUME NEW d \in Dialers, SelectRandom(d) PROVE TypeOK'
  <2>0. \A i \in DOMAIN cand[d] : cand[d][i] \in Tags
    BY DEF TypePick
  <2>1. TypeShared' /\ TypeEntry' /\ TypePool'
    BY <2>0, <1>15 DEF SelectRandom, TypeShared, TypeEntry, TypePool, entryVars, sharedVars
  <2>2. TypeControl'
    BY <2>0, <1>15 DEF SelectRandom, TypeControl, Goto, DialerLabels, PickLabels, LockedLabels, ConnLabels, AdminLabels, Choose
  <2>3. TypePick'
    BY <2>0, <1>15 DEF SelectRandom, TypePick, pickVars, Choose, ReturnFromPick, ResetBuffer
  <2> QED
    BY <2>1, <2>2, <2>3
<1>16. ASSUME NEW d \in Dialers, SelectBalance(d) PROVE TypeOK'
  <2>1. TypeShared' /\ TypeEntry' /\ TypePool'
    BY <1>16 DEF SelectBalance, TypeShared, TypeEntry, TypePool, entryVars, sharedVars
  <2>2. TypeControl'
    BY <1>16 DEF SelectBalance, TypeControl, Goto, DialerLabels, PickLabels, LockedLabels, ConnLabels, AdminLabels
  <2>3. TypePick'
    BY <1>16 DEF SelectBalance, TypePick, pickVars
  <2> QED
    BY <2>1, <2>2, <2>3
<1>17. ASSUME NEW d \in Dialers, BalanceMember(d) PROVE TypeOK'
  <2>0. cand[d][idx[d]] \in Tags
    BY <1>17 DEF BalanceMember, TypePick
  <2>1. TypeShared' /\ TypeEntry' /\ TypePool'
    BY <1>17 DEF BalanceMember, TypeShared, TypeEntry, TypePool, entryVars, sharedVars
  <2>2. TypeControl'
    BY <2>0, <1>17 DEF BalanceMember, TypeControl
  <2>3. \/ minActive' = minActive
        \/ minActive' = [minActive EXCEPT ![d] = active[cand[d][idx[d]]]]
    BY <1>17 DEF BalanceMember
  <2>4. active[cand[d][idx[d]]] \in Int
    BY <2>0 DEF TypeShared
  <2>5. TypePick'
    BY SMTT(30), <2>3, <2>4, <1>17 DEF BalanceMember, TypePick
  <2> QED
    BY <2>1, <2>2, <2>5
<1>18. ASSUME NEW d \in Dialers, EndBalance(d) PROVE TypeOK'
  <2>0. member[d] \in Tags
    BY <1>18 DEF EndBalance, Locals, LocalsOf, TypePick
  <2>1. TypeShared' /\ TypeEntry' /\ TypePool'
    BY <2>0, <1>18 DEF EndBalance, TypeShared, TypeEntry, TypePool, entryVars, sharedVars
  <2>2. TypeControl'
    BY <2>0, <1>18 DEF EndBalance, TypeControl, Goto, DialerLabels, PickLabels, LockedLabels, ConnLabels, AdminLabels, Choose
  <2>3. TypePick'
    BY <2>0, <1>18 DEF EndBalance, TypePick, pickVars, Choose, ReturnFromPick, ResetBuffer
  <2> QED
    BY <2>1, <2>2, <2>3
<1>19. ASSUME NEW d \in Dialers, IncShared(d) PROVE TypeOK'
  <2>0. member[d] \in Tags
    BY <1>19 DEF IncShared, ConnLabels, Locals, LocalsOf
  <2>1. TypeShared' /\ TypeEntry' /\ TypePool'
    BY <2>0, <1>19 DEF IncShared, TypeShared, TypeEntry, TypePool, entryVars, sharedVars
  <2>2. TypeControl'
    BY <2>0, <1>19 DEF IncShared, TypeControl, Goto, DialerLabels, PickLabels, LockedLabels, ConnLabels, AdminLabels
  <2>3. TypePick'
    BY <2>0, <1>19 DEF IncShared, TypePick, pickVars
  <2> QED
    BY <2>1, <2>2, <2>3
<1>20. ASSUME NEW d \in Dialers, IncEntry(d) PROVE TypeOK'
  <2>0. member[d] \in Tags
    BY <1>20 DEF IncEntry, ConnLabels, Locals, LocalsOf
  <2>1. TypeShared' /\ TypeEntry' /\ TypePool'
    BY <2>0, <1>20 DEF IncEntry, TypeShared, TypeEntry, TypePool, entryVars, sharedVars
  <2>2. TypeControl'
    BY <2>0, <1>20 DEF IncEntry, TypeControl, Goto, DialerLabels, PickLabels, LockedLabels, ConnLabels, AdminLabels
  <2>3. TypePick'
    BY <2>0, <1>20 DEF IncEntry, TypePick, pickVars
  <2> QED
    BY <2>1, <2>2, <2>3
<1>21. ASSUME NEW d \in Dialers, DialFails(d) PROVE TypeOK'
  <2>1. TypeShared' /\ TypeEntry' /\ TypePool'
    BY <1>21 DEF DialFails, TypeShared, TypeEntry, TypePool, entryVars, sharedVars
  <2>2. TypeControl'
    BY <1>21 DEF DialFails, TypeControl, Goto, DialerLabels, PickLabels, LockedLabels, ConnLabels, AdminLabels
  <2>3. TypePick'
    BY <1>21 DEF DialFails, TypePick, pickVars
  <2> QED
    BY <2>1, <2>2, <2>3
<1>22. ASSUME NEW d \in Dialers, DialSucceeds(d) PROVE TypeOK'
  <2>0. member[d] \in Tags
    BY <1>22 DEF DialSucceeds, ConnLabels, Locals, LocalsOf
  <2>1. TypeShared' /\ TypeEntry' /\ TypePool'
    BY <2>0, <1>22 DEF DialSucceeds, TypeShared, TypeEntry, TypePool, entryVars, sharedVars
  <2>2. TypeControl'
    BY <2>0, <1>22 DEF DialSucceeds, TypeControl, Goto, DialerLabels, PickLabels, LockedLabels, ConnLabels, AdminLabels
  <2>3. TypePick'
    BY <2>0, <1>22 DEF DialSucceeds, TypePick, pickVars
  <2> QED
    BY <2>1, <2>2, <2>3
<1>23. ASSUME NEW d \in Dialers, Close(d) PROVE TypeOK'
  <2>1. TypeShared' /\ TypeEntry' /\ TypePool'
    BY <1>23 DEF Close, TypeShared, TypeEntry, TypePool, entryVars, sharedVars
  <2>2. TypeControl'
    BY <1>23 DEF Close, TypeControl, Goto, DialerLabels, PickLabels, LockedLabels, ConnLabels, AdminLabels
  <2>3. TypePick'
    BY <1>23 DEF Close, TypePick, pickVars
  <2> QED
    BY <2>1, <2>2, <2>3
<1>24. ASSUME NEW d \in Dialers, DecShared(d) PROVE TypeOK'
  <2>0. member[d] \in Tags
    BY <1>24 DEF DecShared, ConnLabels, Locals, LocalsOf
  <2>1. TypeShared' /\ TypeEntry' /\ TypePool'
    <3>1. TypeShared'
      BY <2>0, <1>24 DEF DecShared, TypeShared, entryVars, sharedVars
    <3>2. TypeEntry'
      BY <2>0, <1>24 DEF DecShared, TypeShared, TypeEntry, entryVars, sharedVars
    <3>3. TypePool'
      BY <2>0, <1>24 DEF DecShared, TypePool, entryVars, sharedVars
    <3> QED
      BY <3>1, <3>2, <3>3
  <2>2. TypeControl'
    BY <2>0, <1>24 DEF DecShared, TypeControl, Goto, DialerLabels, PickLabels, LockedLabels, ConnLabels, AdminLabels
  <2>3. TypePick'
    BY <2>0, <1>24 DEF DecShared, TypePick, pickVars
  <2> QED
    BY <2>1, <2>2, <2>3
<1>25. ASSUME NEW d \in Dialers, DecEntry(d) PROVE TypeOK'
  <2>0. member[d] \in Tags
    BY <1>25 DEF DecEntry, ConnLabels, Locals, LocalsOf
  <2>1. TypeShared' /\ TypeEntry' /\ TypePool'
    <3>1. TypeShared'
      BY <2>0, <1>25 DEF DecEntry, TypeShared, entryVars, sharedVars
    <3>2. TypeEntry'
      BY <2>0, <1>25 DEF DecEntry, TypeShared, TypeEntry, entryVars, sharedVars
    <3>3. TypePool'
      BY <2>0, <1>25 DEF DecEntry, TypePool, entryVars, sharedVars
    <3> QED
      BY <3>1, <3>2, <3>3
  <2>2. TypeControl'
    BY <2>0, <1>25 DEF DecEntry, TypeControl, Goto, DialerLabels, PickLabels, LockedLabels, ConnLabels, AdminLabels
  <2>3. TypePick'
    BY <2>0, <1>25 DEF DecEntry, TypePick, pickVars
  <2> QED
    BY <2>1, <2>2, <2>3
<1>26. ASSUME NEW d \in Dialers, RecordFailure(d) PROVE TypeOK'
  <2>0. member[d] \in Tags
    BY <1>26 DEF RecordFailure, ConnLabels, Locals, LocalsOf
  <2>1. TypeShared' /\ deadline' \in [Dialers -> Nat]
    <3>1. CASE Trips(member[d])
      <4>1. /\ failures' = [failures EXCEPT ![member[d]] = 0]
            /\ until' = [until EXCEPT ![member[d]] = clock + Duration]
            /\ deadline' = [deadline EXCEPT ![d] = clock + Duration]
            /\ UNCHANGED <<active, clock>>
        BY <3>1, <1>26 DEF RecordFailure, NewDeadline
      <4>2. clock + Duration \in Nat /\ 0 \in 0 .. Threshold - 1
        BY DEF TypeShared
      <4> QED
        BY <4>1, <4>2 DEF TypeShared, TypeEntry
    <3>2. CASE ~Trips(member[d])
      <4>1. /\ failures' = [failures EXCEPT ![member[d]] = @ + 1]
            /\ UNCHANGED <<until, active, clock, deadline>>
        BY <3>2, <1>26 DEF RecordFailure
      <4>2. failures[member[d]] + 1 \in 0 .. Threshold - 1
        BY <2>0, <3>2 DEF TypeShared, Trips
      <4> QED
        BY <4>1, <4>2 DEF TypeShared, TypeEntry
    <3> QED
      BY <3>1, <3>2
  <2>2. TypeEntry' /\ TypePool'
    BY <2>1, <1>26 DEF RecordFailure, TypeEntry, TypePool, entryVars
  <2>3. TypeControl'
    BY <1>26 DEF RecordFailure, TypeControl, Goto, DialerLabels, ConnLabels
  <2>4. TypePick'
    BY <1>26 DEF RecordFailure, TypePick, pickVars
  <2> QED
    BY <2>1, <2>2, <2>3, <2>4
<1>27. ASSUME NEW d \in Dialers, MarkEntry(d) PROVE TypeOK'
  <2>0. member[d] \in Tags
    BY <1>27 DEF MarkEntry, ConnLabels, Locals, LocalsOf
  <2>1. TypeShared' /\ TypeEntry' /\ TypePool'
    <3>1. TypeShared'
      BY <2>0, <1>27 DEF MarkEntry, TypeShared, entryVars, sharedVars
    <3>2. TypeEntry'
      BY <2>0, <1>27 DEF MarkEntry, TypeShared, TypeEntry, entryVars, sharedVars
    <3>3. TypePool'
      BY <2>0, <1>27 DEF MarkEntry, TypePool, entryVars, sharedVars
    <3> QED
      BY <3>1, <3>2, <3>3
  <2>2. TypeControl'
    BY <2>0, <1>27 DEF MarkEntry, TypeControl, Goto, DialerLabels, PickLabels, LockedLabels, ConnLabels, AdminLabels
  <2>3. TypePick'
    BY <2>0, <1>27 DEF MarkEntry, TypePick, pickVars
  <2> QED
    BY <2>1, <2>2, <2>3
<1>28. ASSUME NEW t \in Tags, ProbeSucceeds(t) PROVE TypeOK'
  <2>1. TypeShared' /\ TypeEntry' /\ TypePool'
    <3>1. TypeShared'
      BY <1>28 DEF ProbeSucceeds, TypeShared, entryVars, sharedVars
    <3>2. TypeEntry'
      BY <1>28 DEF ProbeSucceeds, TypeShared, TypeEntry, entryVars, sharedVars
    <3>3. TypePool'
      BY <1>28 DEF ProbeSucceeds, TypePool, entryVars, sharedVars
    <3> QED
      BY <3>1, <3>2, <3>3
  <2>2. TypeControl'
    BY <1>28 DEF ProbeSucceeds, TypeControl, Goto, DialerLabels, PickLabels, LockedLabels, ConnLabels, AdminLabels
  <2>3. TypePick'
    BY <1>28 DEF ProbeSucceeds, TypePick, pickVars
  <2> QED
    BY <2>1, <2>2, <2>3
<1>29. ASSUME NEW a \in Admins, Release(a) PROVE TypeOK'
  <2>1. TypeShared' /\ TypeEntry' /\ TypePool'
    <3>1. TypeShared'
      BY <1>29 DEF Release, TypeShared, entryVars, sharedVars
    <3>2. TypeEntry'
      BY <1>29 DEF Release, TypeShared, TypeEntry, entryVars, sharedVars
    <3>3. TypePool'
      BY <1>29 DEF Release, TypePool, entryVars, sharedVars
    <3> QED
      BY <3>1, <3>2, <3>3
  <2>2. TypeControl'
    BY <1>29 DEF Release, TypeControl, Goto, DialerLabels, PickLabels, LockedLabels, ConnLabels, AdminLabels
  <2>3. TypePick'
    BY <1>29 DEF Release, TypePick, pickVars
  <2> QED
    BY <2>1, <2>2, <2>3
<1>30. ASSUME NEW a \in Admins, ReleaseEntry(a) PROVE TypeOK'
  <2>1. TypeShared' /\ TypeEntry' /\ TypePool'
    <3>1. TypeShared'
      BY <1>30 DEF ReleaseEntry, TypeShared, entryVars, sharedVars
    <3>2. TypeEntry'
      BY <1>30 DEF ReleaseEntry, TypeShared, TypeEntry, entryVars, sharedVars
    <3>3. TypePool'
      BY <1>30 DEF ReleaseEntry, TypePool, entryVars, sharedVars
    <3> QED
      BY <3>1, <3>2, <3>3
  <2>2. TypeControl'
    BY <1>30 DEF ReleaseEntry, TypeControl, Goto, DialerLabels, PickLabels, LockedLabels, ConnLabels, AdminLabels
  <2>3. TypePick'
    BY <1>30 DEF ReleaseEntry, TypePick, pickVars
  <2> QED
    BY <2>1, <2>2, <2>3
<1>31. CASE Tick
  <2>1. TypeShared' /\ TypeEntry' /\ TypePool'
    BY <1>31 DEF Tick, TypeShared, TypeEntry, TypePool, entryVars, sharedVars
  <2>2. TypeControl'
    BY <1>31 DEF Tick, TypeControl, Goto, DialerLabels, PickLabels, LockedLabels, ConnLabels, AdminLabels
  <2>3. TypePick'
    BY <1>31 DEF Tick, TypePick, pickVars
  <2> QED
    BY <2>1, <2>2, <2>3
<1>32. CASE UNCHANGED vars
  BY <1>32 DEF vars, sharedVars, entryVars, pickVars, TypeShared, TypeEntry, TypePool,
      TypeControl, TypePick
<1> QED
  BY <1>1, <1>2, <1>3, <1>4, <1>5, <1>6, <1>7, <1>9, <1>10, <1>11, <1>12, <1>13, <1>14, <1>15, <1>16, <1>17, <1>18, <1>19, <1>20, <1>21, <1>22, <1>23, <1>24, <1>25, <1>26, <1>27, <1>28, <1>29, <1>30, <1>31, <1>32 DEF Next, PickStep, ConnStep

\* A dialer's step leaves the locals of the other dialers alone.
DialerStep(d) == Dial(d) \/ PickStep(d) \/ ConnStep(d)
OtherStep ==
    \/ \E t \in Tags : ProbeSucceeds(t)
    \/ \E a \in Admins : Release(a) \/ ReleaseEntry(a)
    \/ Tick

Undisturbed(e) ==
    /\ now'[e] = now[e]
    /\ pc'[e] = pc[e]
    /\ pool'[e] = pool[e]
    /\ net'[e] = net[e]
    /\ idx'[e] = idx[e]
    /\ cand'[e] = cand[e]
    /\ member'[e] = member[e]

\* A dialer's step leaves the locals of the other dialers alone.
LEMMA Frame ==
    ASSUME TypeInv, NEW d \in Dialers, DialerStep(d), NEW e \in Dialers, e # d
    PROVE  Undisturbed(e) /\ clock' = clock
<1> USE DEF TypeInv, TypeOK, TypeControl, TypePick, Undisturbed, Goto, pickVars
<1>1. CASE Dial(d)
  BY <1>1 DEF Dial
<1>2. CASE LockForScan(d)
  BY <1>2 DEF LockForScan
<1>3. CASE ScanMember(d)
  BY <1>3 DEF ScanMember, AddCandidate
<1>4. CASE ClearExpired(d)
  BY <1>4 DEF ClearExpired, AddCandidate
<1>5. CASE EndScan(d)
  BY <1>5 DEF EndScan
<1>6. CASE LockForRelease(d)
  BY <1>6 DEF LockForRelease
<1>7. CASE CheckMember(d)
  BY <1>7 DEF CheckMember
<1>9. CASE EndCheck(d)
  BY <1>9 DEF EndCheck
<1>10. CASE FreeMember(d)
  BY <1>10 DEF FreeMember
<1>11. CASE FreeEntry(d)
  BY <1>11 DEF FreeEntry
<1>12. CASE EndFree(d)
  BY <1>12 DEF EndFree
<1>13. CASE Refuse(d)
  BY <1>13 DEF Refuse, ReturnFromPick, ResetBuffer
<1>14. CASE SelectSequential(d)
  BY <1>14 DEF SelectSequential, Choose, ReturnFromPick, ResetBuffer
<1>15. CASE SelectRandom(d)
  BY <1>15 DEF SelectRandom, Choose, ReturnFromPick, ResetBuffer
<1>16. CASE SelectBalance(d)
  BY <1>16 DEF SelectBalance
<1>17. CASE BalanceMember(d)
  BY <1>17 DEF BalanceMember
<1>18. CASE EndBalance(d)
  BY <1>18 DEF EndBalance, Choose, ReturnFromPick, ResetBuffer
<1>19. CASE IncShared(d)
  BY <1>19 DEF IncShared
<1>20. CASE IncEntry(d)
  BY <1>20 DEF IncEntry
<1>21. CASE DialFails(d)
  BY <1>21 DEF DialFails
<1>22. CASE DialSucceeds(d)
  BY <1>22 DEF DialSucceeds
<1>23. CASE Close(d)
  BY <1>23 DEF Close
<1>24. CASE DecShared(d)
  BY <1>24 DEF DecShared
<1>25. CASE DecEntry(d)
  BY <1>25 DEF DecEntry
<1>26. CASE RecordFailure(d)
  BY <1>26 DEF RecordFailure
<1>27. CASE MarkEntry(d)
  BY <1>27 DEF MarkEntry
<1> QED
  BY <1>1, <1>2, <1>3, <1>4, <1>5, <1>6, <1>7, <1>9, <1>10, <1>11, <1>12, <1>13, <1>14, <1>15, <1>16, <1>17, <1>18, <1>19, <1>20, <1>21, <1>22, <1>23, <1>24, <1>25, <1>26, <1>27 DEF DialerStep, PickStep, ConnStep

\* Probes, releases and the clock leave the locals of every dialer alone.
LEMMA FrameOther ==
    ASSUME TypeInv, OtherStep, NEW e \in Dialers
    PROVE  Undisturbed(e) /\ clock <= clock'
<1> USE PoolAssumption DEF TypeInv, TypeOK, TypeControl, TypeShared, Undisturbed, Goto, pickVars
<1>1. ASSUME NEW t \in Tags, ProbeSucceeds(t) PROVE Undisturbed(e) /\ clock <= clock'
  BY <1>1 DEF ProbeSucceeds
<1>2. ASSUME NEW a \in Admins, Release(a) PROVE Undisturbed(e) /\ clock <= clock'
  BY <1>2 DEF Release
<1>3. ASSUME NEW a \in Admins, ReleaseEntry(a) PROVE Undisturbed(e) /\ clock <= clock'
  BY <1>3 DEF ReleaseEntry
<1>4. CASE Tick
  BY <1>4 DEF Tick
<1> QED
  BY <1>1, <1>2, <1>3, <1>4 DEF OtherStep

\* What the locals of a goroutine hold survives a step that leaves them alone.
LEMMA LocalsKept ==
    ASSUME TypeInv, TypeOK', NEW e \in Dialers, Undisturbed(e), clock <= clock'
    PROVE  LocalsOf(e)'
<1>1. LocalsOf(e)
  BY DEF TypeInv, Locals
<1>2. now'[e] <= clock'
  BY <1>1 DEF TypeInv, TypeOK, TypeShared, TypePick, LocalsOf, Undisturbed
<1>3. InLoop(e) => InLoop(e)'
  BY DEF InLoop, Undisturbed
<1> QED
  BY <1>1, <1>2, <1>3 DEF LocalsOf, Undisturbed

\* A step of a dialer re-establishes what its own locals hold at its new label.
LEMMA LocalsStep ==
    ASSUME TypeInv, TypeOK', NEW d \in Dialers, DialerStep(d)
    PROVE  LocalsOf(d)'
<1> USE DEF TypeInv, TypeOK, TypeShared, TypeControl, TypePick, Locals, LocalsOf, Goto,
      PickLabels, LockedLabels, ConnLabels, InLoop, pickVars
<1>1. CASE Dial(d)
  BY <1>1 DEF Dial
<1>2. CASE LockForScan(d)
  BY <1>2 DEF LockForScan
<1>3. CASE ScanMember(d)
  BY <1>3, CurrentIsTag DEF ScanMember, AddCandidate
<1>4. CASE ClearExpired(d)
  BY <1>4, CurrentIsTag DEF ClearExpired, AddCandidate
<1>5. CASE EndScan(d)
  BY ZenonT(60), <1>5 DEF EndScan
<1>6. CASE LockForRelease(d)
  BY <1>6 DEF LockForRelease
<1>7. CASE CheckMember(d)
  BY <1>7 DEF CheckMember
<1>9. CASE EndCheck(d)
  BY <1>9 DEF EndCheck
<1>10. CASE FreeMember(d)
  BY <1>10 DEF FreeMember
<1>11. CASE FreeEntry(d)
  BY <1>11 DEF FreeEntry
<1>12. CASE EndFree(d)
  BY <1>12 DEF EndFree
<1>13. CASE Refuse(d)
  BY <1>13 DEF Refuse, ReturnFromPick, ResetBuffer
<1>14. CASE SelectSequential(d)
  <2>3. cand[d][(rrCounter[pool[d]] % Len(cand[d])) + 1] \in Tags
    BY <1>14, SequentialChoice DEF SelectSequential
  <2> QED
    BY <2>3, <1>14 DEF SelectSequential, Choose, ReturnFromPick, ResetBuffer
<1>15. CASE SelectRandom(d)
  <2>1. PICK i \in DOMAIN cand[d] : Choose(d, cand[d][i])
    BY <1>15 DEF SelectRandom
  <2>2. cand[d][i] \in Tags
    OBVIOUS
  <2> QED
    BY <2>1, <2>2, <1>15 DEF SelectRandom, Choose, ReturnFromPick, ResetBuffer
<1>16. CASE SelectBalance(d)
  BY <1>16 DEF SelectBalance
<1>17. CASE BalanceMember(d)
  <2>1. cand[d][idx[d]] \in Tags
    <3>1. cand[d] \in Seq(Tags) /\ idx[d] \in 1 .. Len(cand[d])
      BY <1>17 DEF BalanceMember
    <3> QED
      BY ONLY <3>1
  <2>2. member'[d] \in Tags
    <3>1. \/ member' = [member EXCEPT ![d] = cand[d][idx[d]]]
          \/ member' = member /\ member[d] # None
      BY <1>17 DEF BalanceMember
    <3> QED
      BY <2>1, <3>1
  <2>3. pc' = pc /\ pool' = pool /\ now' = now /\ clock' = clock /\ cand' = cand
    BY <1>17 DEF BalanceMember
  <2>4. pc[d] = "balance"
    BY <1>17 DEF BalanceMember
  <2> QED
    BY <2>2, <2>3, <2>4
<1>18. CASE EndBalance(d)
  <2>1. member[d] \in Tags
    BY <1>18 DEF EndBalance
  <2> QED
    BY <2>1, <1>18 DEF EndBalance, Choose, ReturnFromPick, ResetBuffer
<1>19. CASE IncShared(d)
  BY <1>19 DEF IncShared
<1>20. CASE IncEntry(d)
  BY <1>20 DEF IncEntry
<1>21. CASE DialFails(d)
  BY <1>21 DEF DialFails
<1>22. CASE DialSucceeds(d)
  BY <1>22 DEF DialSucceeds
<1>23. CASE Close(d)
  BY <1>23 DEF Close
<1>24. CASE DecShared(d)
  BY <1>24 DEF DecShared
<1>25. CASE DecEntry(d)
  BY ZenonT(60), <1>25 DEF DecEntry
<1>26. CASE RecordFailure(d)
  BY ZenonT(60), <1>26 DEF RecordFailure
<1>27. CASE MarkEntry(d)
  BY <1>27 DEF MarkEntry
<1> QED
  BY <1>1, <1>2, <1>3, <1>4, <1>5, <1>6, <1>7, <1>9, <1>10, <1>11, <1>12, <1>13, <1>14, <1>15, <1>16, <1>17, <1>18, <1>19, <1>20, <1>21, <1>22, <1>23, <1>24, <1>25, <1>26, <1>27 DEF DialerStep, PickStep, ConnStep

\* TypeInv is inductive.
LEMMA TypeStep == TypeInv /\ [Next]_vars => TypeInv'
<1> SUFFICES ASSUME TypeInv, [Next]_vars PROVE TypeInv'
  OBVIOUS
<1>1. TypeOK'
  BY TypeOKStep
<1>2. ASSUME NEW d \in Dialers, DialerStep(d), NEW e \in Dialers PROVE LocalsOf(e)'
  <2>1. CASE e = d
    BY <1>1, <1>2, <2>1, LocalsStep
  <2>2. CASE e # d
    BY <1>1, <1>2, <2>2, Frame, LocalsKept DEF TypeInv, TypeOK, TypeShared
  <2> QED
    BY <2>1, <2>2
<1>3. ASSUME OtherStep, NEW e \in Dialers PROVE LocalsOf(e)'
  BY <1>1, <1>3, FrameOther, LocalsKept
<1>4. ASSUME UNCHANGED vars, NEW e \in Dialers PROVE LocalsOf(e)'
  BY <1>1, <1>4, LocalsKept DEF vars, pickVars, Undisturbed, TypeInv, TypeOK, TypeShared
<1> QED
  BY <1>1, <1>2, <1>3, <1>4 DEF TypeInv, Locals, Next, DialerStep, OtherStep

\* Every variable of the pools keeps its type in every reachable state, for any
\* nodes, pools, modes, threshold and number of goroutines: the candidates are
\* sequences of nodes and every index a loop uses points into them.
THEOREM TypeCorrect == Spec => []TypeOK
<1>1. TypeInv => TypeOK
  BY DEF TypeInv
<1> QED
  BY <1>1, TypeInit, TypeStep, PTL DEF Spec

-----------------------------------------------------------------------------
(* The lock *)

Locked(d) == pc[d] \in LockedLabels

\* What one step of a dialer does to the lock of its pool.
LEMMA LockEffect ==
    ASSUME TypeInv, NEW d \in Dialers, DialerStep(d)
    PROVE  \/ mu' = mu /\ Locked(d)' = Locked(d) /\ (Locked(d) => pool'[d] = pool[d])
           \/ Lock(d) /\ ~Locked(d) /\ Locked(d)' /\ pool[d] \in Pools /\ pool'[d] = pool[d]
           \/ Unlock(d) /\ Locked(d) /\ ~Locked(d)' /\ pool[d] \in Pools
<1> USE DEF TypeInv, TypeOK, TypeControl, TypePick, Locals, LocalsOf, Locked, Goto, pickVars,
      PickLabels, LockedLabels
<1>1. CASE Dial(d)
  BY <1>1 DEF Dial
<1>2. CASE LockForScan(d)
  BY <1>2 DEF LockForScan
<1>3. CASE ScanMember(d)
  BY <1>3 DEF ScanMember
<1>4. CASE ClearExpired(d)
  BY <1>4 DEF ClearExpired
<1>5. CASE EndScan(d)
  BY <1>5 DEF EndScan
<1>6. CASE LockForRelease(d)
  BY <1>6 DEF LockForRelease
<1>7. CASE CheckMember(d)
  BY <1>7 DEF CheckMember
<1>9. CASE EndCheck(d)
  BY <1>9 DEF EndCheck
<1>10. CASE FreeMember(d)
  BY <1>10 DEF FreeMember
<1>11. CASE FreeEntry(d)
  BY <1>11 DEF FreeEntry
<1>12. CASE EndFree(d)
  BY <1>12 DEF EndFree
<1>13. CASE Refuse(d)
  BY <1>13 DEF Refuse, ReturnFromPick, ResetBuffer
<1>14. CASE SelectSequential(d)
  BY <1>14 DEF SelectSequential, Choose, ReturnFromPick, ResetBuffer
<1>15. CASE SelectRandom(d)
  BY <1>15 DEF SelectRandom, Choose, ReturnFromPick, ResetBuffer
<1>16. CASE SelectBalance(d)
  BY <1>16 DEF SelectBalance
<1>17. CASE BalanceMember(d)
  BY <1>17 DEF BalanceMember
<1>18. CASE EndBalance(d)
  BY <1>18 DEF EndBalance, Choose, ReturnFromPick, ResetBuffer
<1>19. CASE IncShared(d)
  BY <1>19 DEF IncShared
<1>20. CASE IncEntry(d)
  BY <1>20 DEF IncEntry
<1>21. CASE DialFails(d)
  BY <1>21 DEF DialFails
<1>22. CASE DialSucceeds(d)
  BY <1>22 DEF DialSucceeds
<1>23. CASE Close(d)
  BY <1>23 DEF Close
<1>24. CASE DecShared(d)
  BY <1>24 DEF DecShared
<1>25. CASE DecEntry(d)
  BY <1>25 DEF DecEntry
<1>26. CASE RecordFailure(d)
  BY <1>26 DEF RecordFailure
<1>27. CASE MarkEntry(d)
  BY <1>27 DEF MarkEntry
<1> QED
  BY <1>1, <1>2, <1>3, <1>4, <1>5, <1>6, <1>7, <1>9, <1>10, <1>11, <1>12, <1>13, <1>14, <1>15, <1>16, <1>17, <1>18, <1>19, <1>20, <1>21, <1>22, <1>23, <1>24, <1>25, <1>26, <1>27 DEF DialerStep, PickStep, ConnStep

\* Every step keeps the lock with the goroutine inside the critical section.
LEMMA LockStep ==
    ASSUME TypeInv, LockOwnership, NEW d \in Dialers, DialerStep(d)
    PROVE  LockOwnership'
<1> SUFFICES ASSUME NEW p \in Pools, NEW e \in Dialers
             PROVE  mu'[p] = e <=> Locked(e)' /\ pool'[e] = p
  BY DEF LockOwnership, Locked
<1>1. mu[p] = e <=> Locked(e) /\ pool[e] = p
  BY DEF LockOwnership, Locked
<1>2. mu[p] = d <=> Locked(d) /\ pool[d] = p
  BY DEF LockOwnership, Locked
<1>3. e # d => Locked(e)' = Locked(e) /\ pool'[e] = pool[e]
  BY Frame DEF Undisturbed, Locked
<1>4. e # None /\ d # None
  BY PoolAssumption
<1>5. mu \in [Pools -> Dialers \cup {None}]
  BY DEF TypeInv, TypeOK, TypePool
<1>6. CASE mu' = mu /\ Locked(d)' = Locked(d) /\ (Locked(d) => pool'[d] = pool[d])
  BY <1>1, <1>2, <1>3, <1>6
<1>7. CASE Lock(d) /\ ~Locked(d) /\ Locked(d)' /\ pool[d] \in Pools /\ pool'[d] = pool[d]
  BY <1>1, <1>2, <1>3, <1>4, <1>5, <1>7 DEF Lock
<1>8. CASE Unlock(d) /\ Locked(d) /\ ~Locked(d)' /\ pool[d] \in Pools
  BY <1>1, <1>2, <1>3, <1>4, <1>5, <1>8 DEF Unlock
<1> QED
  BY <1>6, <1>7, <1>8, LockEffect

\* At every moment p.mu is held by exactly the goroutine that is inside one of
\* the two critical sections of p: they exclude each other and no path of
\* pickMember, early returns included, leaves the mutex locked.
THEOREM LocksAreOwned == Spec => []LockOwnership
<1>1. Init => LockOwnership
  BY PoolAssumption DEF Init, LockOwnership, LockedLabels
<1>2. TypeInv /\ LockOwnership /\ [Next]_vars => LockOwnership'
  <2> SUFFICES ASSUME TypeInv, LockOwnership, [Next]_vars PROVE LockOwnership'
    OBVIOUS
  <2>1. ASSUME NEW d \in Dialers, DialerStep(d) PROVE LockOwnership'
    BY <2>1, LockStep
  <2>2. CASE OtherStep
    <3>1. mu' = mu
      BY <2>2 DEF OtherStep, ProbeSucceeds, Release, ReleaseEntry, Tick
    <3> QED
      BY <2>2, <3>1, FrameOther DEF LockOwnership, Undisturbed
  <2>3. CASE UNCHANGED vars
    BY <2>3 DEF vars, pickVars, LockOwnership
  <2> QED
    BY <2>1, <2>2, <2>3 DEF Next, DialerStep, OtherStep
<1> QED
  BY <1>1, <1>2, TypeInit, TypeStep, PTL DEF Spec

-----------------------------------------------------------------------------
(* The circuit breaker *)

BreakerStep == [Breaker!Next]_<<failures, until, clock>>

\* A step of a dialer is a step of the circuit breaker or changes none of it.
LEMMA BreakerDialerStep ==
    ASSUME TypeInv, NEW d \in Dialers, DialerStep(d)
    PROVE  BreakerStep
<1> USE DEF TypeInv, TypeOK, BreakerStep, Locals, LocalsOf, sharedVars, PickLabels, LockedLabels,
      ConnLabels
<1>3. CASE ScanMember(d)
  <2>1. Current(d) \in Tags
    BY <1>3, CurrentIsTag DEF ScanMember
  <2>2. UNCHANGED <<failures, clock>>
    BY <1>3 DEF ScanMember
  <2>3. CASE until' = until
    BY <2>2, <2>3
  <2>4. CASE Expired(d, Current(d)) /\ until' = [until EXCEPT ![Current(d)] = 0]
    <3>1. until[Current(d)] # 0 /\ until[Current(d)] < clock
      BY <2>1, <2>4 DEF Expired, Blacklisted, TypeShared, TypePick
    <3>2. Breaker!Expire(Current(d))
      BY <2>2, <2>4, <3>1 DEF Breaker!Expire
    <3> QED
      BY <2>1, <3>2 DEF Breaker!Next
  <2> QED
    BY <1>3, <2>3, <2>4 DEF ScanMember
<1>7. CASE CheckMember(d)
  BY <1>7 DEF CheckMember
<1>10. CASE FreeMember(d)
  <2>1. Current(d) \in Tags
    BY <1>10, CurrentIsTag DEF FreeMember
  <2>2. Breaker!Release(Current(d))
    BY <1>10 DEF FreeMember, Breaker!Release
  <2> QED
    BY <2>1, <2>2 DEF Breaker!Next
<1>22. CASE DialSucceeds(d)
  <2>1. member[d] \in Tags
    BY <1>22 DEF DialSucceeds
  <2>2. Breaker!Succeed(member[d])
    BY <1>22 DEF DialSucceeds, Breaker!Succeed
  <2> QED
    BY <2>1, <2>2 DEF Breaker!Next
<1>26. CASE RecordFailure(d)
  <2>1. member[d] \in Tags
    BY <1>26 DEF RecordFailure
  <2>2. CASE Trips(member[d])
    <3>1. Breaker!Trip(member[d])
      BY <1>26, <2>2 DEF RecordFailure, Trips, NewDeadline, Breaker!Trip
    <3> QED
      BY <2>1, <3>1 DEF Breaker!Next
  <2>3. CASE ~Trips(member[d])
    <3>1. failures[member[d]] \in Nat /\ Threshold \in Nat
      BY <2>1, PoolAssumption DEF TypeShared
    <3>2. failures[member[d]] + 1 < Threshold
      BY <2>3, <3>1 DEF Trips
    <3>3. Breaker!CountFailure(member[d])
      BY <1>26, <2>3, <3>2 DEF RecordFailure, Breaker!CountFailure
    <3> QED
      BY <2>1, <3>3 DEF Breaker!Next
  <2> QED
    BY <2>2, <2>3
<1>1. CASE Dial(d)
  BY <1>1 DEF Dial
<1>2. CASE LockForScan(d)
  BY <1>2 DEF LockForScan
<1>4. CASE ClearExpired(d)
  BY <1>4 DEF ClearExpired
<1>5. CASE EndScan(d)
  BY <1>5 DEF EndScan
<1>6. CASE LockForRelease(d)
  BY <1>6 DEF LockForRelease
<1>9. CASE EndCheck(d)
  BY <1>9 DEF EndCheck
<1>11. CASE FreeEntry(d)
  BY <1>11 DEF FreeEntry
<1>12. CASE EndFree(d)
  BY <1>12 DEF EndFree
<1>13. CASE Refuse(d)
  BY <1>13 DEF Refuse
<1>14. CASE SelectSequential(d)
  BY <1>14 DEF SelectSequential
<1>15. CASE SelectRandom(d)
  BY <1>15 DEF SelectRandom
<1>16. CASE SelectBalance(d)
  BY <1>16 DEF SelectBalance
<1>17. CASE BalanceMember(d)
  BY <1>17 DEF BalanceMember
<1>18. CASE EndBalance(d)
  BY <1>18 DEF EndBalance
<1>19. CASE IncShared(d)
  BY <1>19 DEF IncShared
<1>20. CASE IncEntry(d)
  BY <1>20 DEF IncEntry
<1>21. CASE DialFails(d)
  BY <1>21 DEF DialFails
<1>23. CASE Close(d)
  BY <1>23 DEF Close
<1>24. CASE DecShared(d)
  BY <1>24 DEF DecShared
<1>25. CASE DecEntry(d)
  BY <1>25 DEF DecEntry
<1>27. CASE MarkEntry(d)
  BY <1>27 DEF MarkEntry
<1> QED
  BY <1>1, <1>2, <1>3, <1>4, <1>5, <1>6, <1>7, <1>9, <1>10, <1>11, <1>12, <1>13, <1>14, <1>15, <1>16, <1>17, <1>18, <1>19, <1>20, <1>21, <1>22, <1>23, <1>24, <1>25, <1>26, <1>27 DEF DialerStep, PickStep, ConnStep

\* Every goroutine, lock and loop forgotten, the pools implement one atomic
\* circuit breaker per node: a failure counts or trips it, only a success or a
\* release resets the count, and a blacklist ends by expiry or by a release.
THEOREM PoolsImplementBreaker == Spec => BreakerSpec
<1>1. Init => Breaker!Init
  BY DEF Init, Breaker!Init
<1>2. TypeInv /\ [Next]_vars => BreakerStep
  <2> SUFFICES ASSUME TypeInv, [Next]_vars PROVE BreakerStep
    OBVIOUS
  <2>1. ASSUME NEW d \in Dialers, DialerStep(d) PROVE BreakerStep
    BY <2>1, BreakerDialerStep
  <2>2. ASSUME NEW t \in Tags, ProbeSucceeds(t) PROVE BreakerStep
    <3>1. Breaker!Succeed(t)
      BY <2>2 DEF ProbeSucceeds, Breaker!Succeed
    <3> QED
      BY <3>1 DEF BreakerStep, Breaker!Next
  <2>3. ASSUME NEW a \in Admins, Release(a) PROVE BreakerStep
    <3>1. PICK t \in Tags : /\ failures' = [failures EXCEPT ![t] = 0]
                            /\ until' = [until EXCEPT ![t] = 0]
      BY <2>3 DEF Release
    <3>2. Breaker!Release(t)
      BY <2>3, <3>1 DEF Release, Breaker!Release
    <3> QED
      BY <3>2 DEF BreakerStep, Breaker!Next
  <2>4. ASSUME NEW a \in Admins, ReleaseEntry(a) PROVE BreakerStep
    BY <2>4 DEF ReleaseEntry, BreakerStep, sharedVars
  <2>5. CASE Tick
    BY <2>5 DEF Tick, BreakerStep, sharedVars, Breaker!Next, Breaker!Tick
  <2>6. CASE UNCHANGED vars
    BY SMTT(30), <2>6 DEF vars, sharedVars, BreakerStep
  <2> QED
    BY <2>1, <2>2, <2>3, <2>4, <2>5, <2>6 DEF Next, DialerStep
<1> QED
  BY <1>1, <1>2, TypeInit, TypeStep, PTL DEF Spec, BreakerSpec, Breaker!Spec, Breaker!bvars,
      BreakerStep

-----------------------------------------------------------------------------
(* The connection counters *)

InShared(d) ==
    pc[d] \in {"incEntry", "dialing", "decFailed", "open", "decClosed"}
InEntry(d) ==
    pc[d] \in {"dialing", "decFailed", "decFailedEntry", "open", "decClosed",
               "decClosedEntry"}

\* A step of a dialer leaves a counter and its own claim on it alone, takes a
\* claim and increments, or gives the claim up and decrements.
SharedEffect(d) ==
    \/ /\ active' = active
       /\ InShared(d)' = InShared(d)
       /\ InShared(d) => member'[d] = member[d]
    \/ /\ active' = [active EXCEPT ![member[d]] = @ + 1]
       /\ ~InShared(d) /\ InShared(d)' /\ member'[d] = member[d] /\ member[d] \in Tags
    \/ /\ active' = [active EXCEPT ![member[d]] = @ - 1]
       /\ InShared(d) /\ ~InShared(d)' /\ member[d] \in Tags
EntryEffect(d) ==
    \/ /\ entryActive' = entryActive
       /\ InEntry(d)' = InEntry(d)
       /\ InEntry(d) => member'[d] = member[d]
    \/ /\ entryActive' = [entryActive EXCEPT ![member[d]] = @ + 1]
       /\ ~InEntry(d) /\ InEntry(d)' /\ member'[d] = member[d] /\ member[d] \in Tags
    \/ /\ entryActive' = [entryActive EXCEPT ![member[d]] = @ - 1]
       /\ InEntry(d) /\ ~InEntry(d)' /\ member[d] \in Tags

\* Each step of a dialer has one of these effects on the counters.
LEMMA CounterEffect ==
    ASSUME TypeInv, NEW d \in Dialers, DialerStep(d)
    PROVE  SharedEffect(d) /\ EntryEffect(d)
<1> USE DEF TypeInv, TypeOK, TypeControl, Locals, LocalsOf, SharedEffect, EntryEffect,
      InShared, InEntry, Goto, sharedVars, entryVars, ConnLabels
<1>1. CASE Dial(d)
  BY <1>1 DEF Dial
<1>2. CASE LockForScan(d)
  BY <1>2 DEF LockForScan
<1>3. CASE ScanMember(d)
  BY <1>3 DEF ScanMember
<1>4. CASE ClearExpired(d)
  BY <1>4 DEF ClearExpired
<1>5. CASE EndScan(d)
  BY <1>5 DEF EndScan
<1>6. CASE LockForRelease(d)
  BY <1>6 DEF LockForRelease
<1>7. CASE CheckMember(d)
  BY <1>7 DEF CheckMember
<1>9. CASE EndCheck(d)
  BY <1>9 DEF EndCheck
<1>10. CASE FreeMember(d)
  BY <1>10 DEF FreeMember
<1>11. CASE FreeEntry(d)
  BY <1>11 DEF FreeEntry
<1>12. CASE EndFree(d)
  BY <1>12 DEF EndFree
<1>13. CASE Refuse(d)
  BY <1>13 DEF Refuse, ReturnFromPick
<1>14. CASE SelectSequential(d)
  BY <1>14 DEF SelectSequential, Choose, ReturnFromPick
<1>15. CASE SelectRandom(d)
  BY <1>15 DEF SelectRandom, Choose, ReturnFromPick
<1>16. CASE SelectBalance(d)
  BY <1>16 DEF SelectBalance
<1>17. CASE BalanceMember(d)
  BY <1>17 DEF BalanceMember
<1>18. CASE EndBalance(d)
  BY <1>18 DEF EndBalance, Choose, ReturnFromPick
<1>19. CASE IncShared(d)
  BY <1>19 DEF IncShared
<1>20. CASE IncEntry(d)
  BY <1>20 DEF IncEntry
<1>21. CASE DialFails(d)
  BY <1>21 DEF DialFails
<1>22. CASE DialSucceeds(d)
  BY <1>22 DEF DialSucceeds
<1>23. CASE Close(d)
  BY <1>23 DEF Close
<1>24. CASE DecShared(d)
  BY <1>24 DEF DecShared
<1>25. CASE DecEntry(d)
  BY <1>25 DEF DecEntry
<1>26. CASE RecordFailure(d)
  BY <1>26 DEF RecordFailure
<1>27. CASE MarkEntry(d)
  BY <1>27 DEF MarkEntry
<1> QED
  BY <1>1, <1>2, <1>3, <1>4, <1>5, <1>6, <1>7, <1>9, <1>10, <1>11, <1>12, <1>13, <1>14, <1>15, <1>16, <1>17, <1>18, <1>19, <1>20, <1>21, <1>22, <1>23, <1>24, <1>25, <1>26, <1>27 DEF DialerStep, PickStep, ConnStep

\* The goroutines that hold a claim on a counter are finitely many.
LEMMA HoldersAreFinite ==
    \A t \in Tags : /\ IsFiniteSet(Holders(t)) /\ Cardinality(Holders(t)) \in Nat
                    /\ IsFiniteSet(EntryHolders(t)) /\ Cardinality(EntryHolders(t)) \in Nat
<1> TAKE t \in Tags
<1>1. Holders(t) \in SUBSET Dialers /\ EntryHolders(t) \in SUBSET Dialers
  BY DEF Holders, EntryHolders
<1> QED
  BY <1>1, FS_Subset, FS_CardinalityType, PoolAssumption

\* Every step keeps the shared counter at the number of its holders.
LEMMA SharedCounterStep ==
    ASSUME TypeInv, ActiveAccounting, NEW d \in Dialers, DialerStep(d), NEW t \in Tags
    PROVE  active'[t] = Cardinality(Holders(t)')
<1>1. SharedEffect(d)
  BY CounterEffect
<1>2. \A e \in Dialers \ {d} : InShared(e)' = InShared(e) /\ member'[e] = member[e]
  BY Frame DEF Undisturbed, InShared
<1>3. Holders(t) = {e \in Dialers : member[e] = t /\ InShared(e)}
  BY DEF Holders, InShared
<1>4. Holders(t)' = {e \in Dialers : member'[e] = t /\ InShared(e)'}
  BY DEF Holders, InShared
<1>5. active \in [Tags -> Int] /\ active[t] = Cardinality(Holders(t))
  BY DEF ActiveAccounting, TypeInv, TypeOK, TypeShared
<1>6. IsFiniteSet(Holders(t)) /\ Cardinality(Holders(t)) \in Nat
  BY HoldersAreFinite
<1>7. CASE /\ active' = active
           /\ InShared(d)' = InShared(d)
           /\ InShared(d) => member'[d] = member[d]
  <2>1. Holders(t)' = Holders(t)
    BY <1>2, <1>3, <1>4, <1>7
  <2> QED
    BY <2>1, <1>5, <1>7
<1>8. CASE /\ active' = [active EXCEPT ![member[d]] = @ + 1]
           /\ ~InShared(d) /\ InShared(d)' /\ member'[d] = member[d] /\ member[d] \in Tags
  <2>1. CASE member[d] = t
    <3>1. Holders(t)' = Holders(t) \cup {d} /\ d \notin Holders(t)
      BY <1>2, <1>3, <1>4, <1>8, <2>1
    <3>2. Cardinality(Holders(t)') = Cardinality(Holders(t)) + 1
      BY <3>1, <1>6, FS_AddElement
    <3> QED
      BY <3>2, <1>5, <1>8, <2>1
  <2>2. CASE member[d] # t
    <3>1. Holders(t)' = Holders(t)
      BY <1>2, <1>3, <1>4, <1>8, <2>2
    <3> QED
      BY <3>1, <1>5, <1>8, <2>2
  <2> QED
    BY <2>1, <2>2
<1>9. CASE /\ active' = [active EXCEPT ![member[d]] = @ - 1]
           /\ InShared(d) /\ ~InShared(d)' /\ member[d] \in Tags
  <2>1. CASE member[d] = t
    <3>1. Holders(t)' = Holders(t) \ {d} /\ d \in Holders(t)
      BY <1>2, <1>3, <1>4, <1>9, <2>1
    <3>2. Cardinality(Holders(t)') = Cardinality(Holders(t)) - 1
      BY <3>1, <1>6, FS_RemoveElement
    <3> QED
      BY <3>2, <1>5, <1>9, <2>1
  <2>2. CASE member[d] # t
    <3>1. Holders(t)' = Holders(t)
      BY <1>2, <1>3, <1>4, <1>9, <2>2
    <3> QED
      BY <3>1, <1>5, <1>9, <2>2
  <2> QED
    BY <2>1, <2>2
<1> QED
  BY <1>1, <1>7, <1>8, <1>9 DEF SharedEffect

\* Every step keeps the entry's counter at the number of its holders.
LEMMA EntryCounterStep ==
    ASSUME TypeInv, ActiveAccounting, NEW d \in Dialers, DialerStep(d), NEW t \in Tags
    PROVE  entryActive'[t] = Cardinality(EntryHolders(t)')
<1>1. EntryEffect(d)
  BY CounterEffect
<1>2. \A e \in Dialers \ {d} : InEntry(e)' = InEntry(e) /\ member'[e] = member[e]
  BY Frame DEF Undisturbed, InEntry
<1>3. EntryHolders(t) = {e \in Dialers : member[e] = t /\ InEntry(e)}
  BY DEF EntryHolders, InEntry
<1>4. EntryHolders(t)' = {e \in Dialers : member'[e] = t /\ InEntry(e)'}
  BY DEF EntryHolders, InEntry
<1>5. entryActive \in [Tags -> Int] /\ entryActive[t] = Cardinality(EntryHolders(t))
  BY DEF ActiveAccounting, TypeInv, TypeOK, TypeEntry
<1>6. IsFiniteSet(EntryHolders(t)) /\ Cardinality(EntryHolders(t)) \in Nat
  BY HoldersAreFinite
<1>7. CASE /\ entryActive' = entryActive
           /\ InEntry(d)' = InEntry(d)
           /\ InEntry(d) => member'[d] = member[d]
  <2>1. EntryHolders(t)' = EntryHolders(t)
    BY <1>2, <1>3, <1>4, <1>7
  <2> QED
    BY <2>1, <1>5, <1>7
<1>8. CASE /\ entryActive' = [entryActive EXCEPT ![member[d]] = @ + 1]
           /\ ~InEntry(d) /\ InEntry(d)' /\ member'[d] = member[d] /\ member[d] \in Tags
  <2>1. CASE member[d] = t
    <3>1. EntryHolders(t)' = EntryHolders(t) \cup {d} /\ d \notin EntryHolders(t)
      BY <1>2, <1>3, <1>4, <1>8, <2>1
    <3>2. Cardinality(EntryHolders(t)') = Cardinality(EntryHolders(t)) + 1
      BY <3>1, <1>6, FS_AddElement
    <3> QED
      BY <3>2, <1>5, <1>8, <2>1
  <2>2. CASE member[d] # t
    <3>1. EntryHolders(t)' = EntryHolders(t)
      BY <1>2, <1>3, <1>4, <1>8, <2>2
    <3> QED
      BY <3>1, <1>5, <1>8, <2>2
  <2> QED
    BY <2>1, <2>2
<1>9. CASE /\ entryActive' = [entryActive EXCEPT ![member[d]] = @ - 1]
           /\ InEntry(d) /\ ~InEntry(d)' /\ member[d] \in Tags
  <2>1. CASE member[d] = t
    <3>1. EntryHolders(t)' = EntryHolders(t) \ {d} /\ d \in EntryHolders(t)
      BY <1>2, <1>3, <1>4, <1>9, <2>1
    <3>2. Cardinality(EntryHolders(t)') = Cardinality(EntryHolders(t)) - 1
      BY <3>1, <1>6, FS_RemoveElement
    <3> QED
      BY <3>2, <1>5, <1>9, <2>1
  <2>2. CASE member[d] # t
    <3>1. EntryHolders(t)' = EntryHolders(t)
      BY <1>2, <1>3, <1>4, <1>9, <2>2
    <3> QED
      BY <3>1, <1>5, <1>9, <2>2
  <2> QED
    BY <2>1, <2>2
<1> QED
  BY <1>1, <1>7, <1>8, <1>9 DEF EntryEffect

\* However dials interleave and end, the connection counter of a node, and the
\* monitor's copy of it, is the number of goroutines between their increment and
\* their decrement: it neither leaks nor goes negative.
THEOREM CountersAreExact == Spec => []ActiveAccounting
<1>1. Init => ActiveAccounting
  <2> SUFFICES ASSUME Init, NEW t \in Tags
               PROVE  /\ active[t] = Cardinality(Holders(t))
                      /\ entryActive[t] = Cardinality(EntryHolders(t))
    BY DEF ActiveAccounting
  <2>1. Holders(t) = {} /\ EntryHolders(t) = {}
    BY DEF Init, Holders, EntryHolders
  <2> QED
    BY <2>1, FS_EmptySet DEF Init
<1>2. TypeInv /\ ActiveAccounting /\ [Next]_vars => ActiveAccounting'
  <2> SUFFICES ASSUME TypeInv, ActiveAccounting, [Next]_vars PROVE ActiveAccounting'
    OBVIOUS
  <2>1. ASSUME NEW d \in Dialers, DialerStep(d) PROVE ActiveAccounting'
    BY <2>1, SharedCounterStep, EntryCounterStep DEF ActiveAccounting
  <2>2. CASE OtherStep \/ UNCHANGED vars
    <3>1. active' = active /\ entryActive' = entryActive
      BY <2>2 DEF OtherStep, ProbeSucceeds, Release, ReleaseEntry, Tick, vars, sharedVars,
          entryVars
    <3>2. \A e \in Dialers : pc'[e] = pc[e] /\ member'[e] = member[e]
      BY <2>2, FrameOther DEF Undisturbed, vars
    <3>3. \A t \in Tags : Holders(t)' = Holders(t) /\ EntryHolders(t)' = EntryHolders(t)
      BY <3>2 DEF Holders, EntryHolders
    <3> QED
      BY <3>1, <3>3 DEF ActiveAccounting
  <2> QED
    BY <2>1, <2>2 DEF Next, DialerStep, OtherStep
<1> QED
  BY <1>1, <1>2, TypeInit, TypeStep, PTL DEF Spec
-----------------------------------------------------------------------------
(* The blacklists *)

\* Every step leaves the blacklist of a node alone, lifts it, or makes it end
\* after a full Duration; the copies and the deadlines on their way to one
\* come from it.
UntilEffect ==
    /\ \A t \in Tags : until'[t] = until[t] \/ until'[t] = 0 \/ until'[t] = clock + Duration
    /\ \A t \in Tags : \/ entryUntil'[t] = entryUntil[t] \/ entryUntil'[t] = 0
                       \/ \E e \in Dialers : entryUntil'[t] = deadline[e]
    /\ \A e \in Dialers : \/ deadline'[e] = deadline[e] \/ deadline'[e] = 0
                          \/ deadline'[e] = clock + Duration

\* The steps of a dialer have that effect.
LEMMA UntilDialerStep ==
    ASSUME TypeInv, NEW d \in Dialers, DialerStep(d)
    PROVE  UntilEffect /\ clock' = clock
<1> USE DEF TypeInv, TypeOK, TypeShared, TypeEntry, UntilEffect, sharedVars, entryVars
<1>1. CASE Dial(d)
  BY <1>1 DEF Dial
<1>2. CASE LockForScan(d)
  BY <1>2 DEF LockForScan
<1>3. CASE ScanMember(d)
  BY <1>3, CurrentIsTag DEF ScanMember
<1>4. CASE ClearExpired(d)
  BY <1>4, CurrentIsTag DEF ClearExpired
<1>5. CASE EndScan(d)
  BY <1>5 DEF EndScan
<1>6. CASE LockForRelease(d)
  BY <1>6 DEF LockForRelease
<1>7. CASE CheckMember(d)
  BY <1>7 DEF CheckMember
<1>8. CASE EndCheck(d)
  BY <1>8 DEF EndCheck
<1>9. CASE FreeMember(d)
  BY <1>9, CurrentIsTag DEF FreeMember
<1>10. CASE FreeEntry(d)
  BY <1>10, CurrentIsTag DEF FreeEntry
<1>11. CASE EndFree(d)
  BY <1>11 DEF EndFree
<1>12. CASE Refuse(d)
  BY <1>12 DEF Refuse
<1>13. CASE SelectSequential(d)
  BY <1>13 DEF SelectSequential
<1>14. CASE SelectRandom(d)
  BY <1>14 DEF SelectRandom
<1>15. CASE SelectBalance(d)
  BY <1>15 DEF SelectBalance
<1>16. CASE BalanceMember(d)
  BY <1>16 DEF BalanceMember
<1>17. CASE EndBalance(d)
  BY <1>17 DEF EndBalance
<1>18. CASE IncShared(d)
  BY <1>18 DEF IncShared
<1>19. CASE IncEntry(d)
  BY <1>19 DEF IncEntry
<1>20. CASE DialFails(d)
  BY <1>20 DEF DialFails
<1>21. CASE DialSucceeds(d)
  BY <1>21 DEF DialSucceeds
<1>22. CASE Close(d)
  BY <1>22 DEF Close
<1>23. CASE DecShared(d)
  BY <1>23 DEF DecShared
<1>24. CASE DecEntry(d)
  BY <1>24 DEF DecEntry
<1>25. CASE RecordFailure(d)
  BY <1>25 DEF RecordFailure, NewDeadline
<1>26. CASE MarkEntry(d)
  BY <1>26 DEF MarkEntry
<1> QED
  BY <1>1, <1>2, <1>3, <1>4, <1>5, <1>6, <1>7, <1>8, <1>9, <1>10, <1>11, <1>12, <1>13, 
      <1>14, <1>15, <1>16, <1>17, <1>18, <1>19, <1>20, <1>21, <1>22, <1>23, <1>24, <1>25, <1>26 DEF DialerStep, PickStep, ConnStep

\* So have all steps, and time does not run backwards.
LEMMA UntilStep ==
    ASSUME TypeInv, [Next]_vars
    PROVE  UntilEffect /\ clock <= clock'
<1>1. clock \in Nat
  BY DEF TypeInv, TypeOK, TypeShared
<1>2. ASSUME NEW d \in Dialers, DialerStep(d) PROVE UntilEffect /\ clock <= clock'
  BY <1>1, <1>2, UntilDialerStep
<1>3. CASE OtherStep \/ UNCHANGED vars
  BY <1>1, <1>3 DEF OtherStep, ProbeSucceeds, Release, ReleaseEntry, Tick, vars, sharedVars,
      entryVars, UntilEffect, TypeInv, TypeOK, TypeShared, TypeEntry
<1> QED
  BY <1>2, <1>3 DEF Next, DialerStep, OtherStep

\* No blacklist and no copy of one ends later than Duration from now, for any
\* number of pools that fail, copy and release the same node.  The deadlines
\* that goroutines carry to the copies are part of the induction.
THEOREM BlacklistsAreBounded == Spec => []BlacklistBounded
<1> DEFINE Inv == /\ BlacklistBounded
                  /\ \A e \in Dialers : deadline[e] <= clock + Duration
<1>1. Init => Inv
  BY PoolAssumption DEF Init, BlacklistBounded
<1>2. TypeInv /\ Inv /\ [Next]_vars => Inv'
  <2> SUFFICES ASSUME TypeInv, Inv, [Next]_vars PROVE Inv'
    OBVIOUS
  <2>1. UntilEffect /\ clock <= clock'
    BY UntilStep
  <2>2. clock \in Nat /\ clock' \in Nat /\ Duration \in Nat
    BY TypeStep, PoolAssumption DEF TypeInv, TypeOK, TypeShared
  <2>3. ASSUME NEW t \in Tags PROVE until'[t] <= clock' + Duration
    BY <2>1, <2>2 DEF UntilEffect, BlacklistBounded, TypeInv, TypeOK, TypeShared
  <2>4. ASSUME NEW t \in Tags PROVE entryUntil'[t] <= clock' + Duration
    BY <2>1, <2>2 DEF UntilEffect, BlacklistBounded, TypeInv, TypeOK, TypeEntry
  <2>5. ASSUME NEW e \in Dialers PROVE deadline'[e] <= clock' + Duration
    BY <2>1, <2>2 DEF UntilEffect, TypeInv, TypeOK, TypeEntry
  <2> QED
    BY <2>3, <2>4, <2>5 DEF BlacklistBounded
<1> QED
  BY <1>1, <1>2, TypeInit, TypeStep, PTL DEF Spec

\* The loop index is back at the first member when a scan begins.
IdxReset(d) == pc[d] \in {"idle", "lock"} \cup ConnLabels => idx[d] = 1

\* What the scan of d has established of the members it has passed.
Running(d, t) == until[t] = 0 \/ until[t] >= now[d]
Covered(d) ==
    pc[d] \in {"scan", "scanExpired", "relock", "check"} =>
        \A i \in DOMAIN Members[pool[d]] :
            (/\ pc[d] = "scan" => i < idx[d]
             /\ pc[d] = "scanExpired" => i <= idx[d]) => Running(d, Members[pool[d]][i])

\* A step of a dialer keeps its own index reset outside the loops.
LEMMA IdxResetStep ==
    ASSUME TypeInv, NEW d \in Dialers, IdxReset(d), DialerStep(d)
    PROVE  IdxReset(d)'
<1> USE DEF TypeInv, TypeOK, TypeControl, TypePick, IdxReset, Goto, ConnLabels, pickVars
<1>1. CASE Dial(d)
  BY <1>1 DEF Dial
<1>2. CASE LockForScan(d)
  BY <1>2 DEF LockForScan
<1>3. CASE ScanMember(d)
  BY <1>3 DEF ScanMember, AddCandidate
<1>4. CASE ClearExpired(d)
  BY <1>4 DEF ClearExpired, AddCandidate
<1>5. CASE EndScan(d)
  BY <1>5 DEF EndScan
<1>6. CASE LockForRelease(d)
  BY <1>6 DEF LockForRelease
<1>7. CASE CheckMember(d)
  BY <1>7 DEF CheckMember
<1>8. CASE EndCheck(d)
  BY <1>8 DEF EndCheck
<1>9. CASE FreeMember(d)
  BY <1>9 DEF FreeMember
<1>10. CASE FreeEntry(d)
  BY <1>10 DEF FreeEntry
<1>11. CASE EndFree(d)
  BY <1>11 DEF EndFree
<1>12. CASE Refuse(d)
  BY <1>12 DEF Refuse, ReturnFromPick, ResetBuffer
<1>13. CASE SelectSequential(d)
  BY <1>13 DEF SelectSequential, Choose, ReturnFromPick, ResetBuffer
<1>14. CASE SelectRandom(d)
  BY <1>14 DEF SelectRandom, Choose, ReturnFromPick, ResetBuffer
<1>15. CASE SelectBalance(d)
  BY <1>15 DEF SelectBalance
<1>16. CASE BalanceMember(d)
  BY <1>16 DEF BalanceMember
<1>17. CASE EndBalance(d)
  BY <1>17 DEF EndBalance, Choose, ReturnFromPick, ResetBuffer
<1>18. CASE IncShared(d)
  BY <1>18 DEF IncShared
<1>19. CASE IncEntry(d)
  BY <1>19 DEF IncEntry
<1>20. CASE DialFails(d)
  BY <1>20 DEF DialFails
<1>21. CASE DialSucceeds(d)
  BY <1>21 DEF DialSucceeds
<1>22. CASE Close(d)
  BY <1>22 DEF Close
<1>23. CASE DecShared(d)
  BY <1>23 DEF DecShared
<1>24. CASE DecEntry(d)
  BY <1>24 DEF DecEntry
<1>25. CASE RecordFailure(d)
  BY <1>25 DEF RecordFailure
<1>26. CASE MarkEntry(d)
  BY <1>26 DEF MarkEntry
<1> QED
  BY <1>1, <1>2, <1>3, <1>4, <1>5, <1>6, <1>7, <1>8, <1>9, <1>10, <1>11, <1>12, <1>13, 
      <1>14, <1>15, <1>16, <1>17, <1>18, <1>19, <1>20, <1>21, <1>22, <1>23, <1>24, <1>25, <1>26 DEF DialerStep, PickStep, ConnStep

\* A step of a dialer keeps what its own scan has established.
LEMMA CoveredStep ==
    ASSUME TypeInv, NEW d \in Dialers, IdxReset(d), Covered(d), DialerStep(d)
    PROVE  Covered(d)'
<1> DEFINE M == Members[pool[d]]
<1>a. pc[d] \in PickLabels =>
          /\ pool[d] \in Pools
          /\ DOMAIN M = 1 .. Len(M) /\ Len(M) \in Nat
          /\ \A i \in DOMAIN M : M[i] \in Tags
  BY PoolAssumption DEF TypeInv, Locals, LocalsOf
<1>b. /\ d \in DOMAIN pc /\ d \in DOMAIN idx
      /\ idx[d] \in Nat /\ now[d] \in Nat
      /\ until \in [Tags -> Nat]
  BY DEF TypeInv, TypeOK, TypeControl, TypePick, TypeShared
<1> USE <1>a, <1>b DEF Goto, ConnLabels, PickLabels, LockedLabels
\* The scan has moved on or ended, and no blacklist has changed.
<1>c. ASSUME until' = until, pool' = pool, now' = now, pc[d] \in PickLabels,
             \A i \in DOMAIN M :
                 /\ pc'[d] = "scan" => i < idx'[d]
                 /\ pc'[d] = "scanExpired" => i <= idx'[d]
                 => Running(d, M[i])
      PROVE  Covered(d)'
  BY <1>c DEF Covered, Running
<1>1. CASE Dial(d)
  BY <1>1 DEF Dial, Covered
<1>2. CASE LockForScan(d)
  BY <1>2 DEF LockForScan, IdxReset, Covered, pickVars
<1>3. CASE ScanMember(d)
  <2>1. /\ pc[d] = "scan" /\ InLoop(d) /\ Current(d) = M[idx[d]]
        /\ pool' = pool /\ now' = now
    BY <1>3 DEF ScanMember, Current
  <2>2. \A i \in DOMAIN M : i < idx[d] => Running(d, M[i])
    BY <2>1 DEF Covered
  <2>3. CASE Expired(d, Current(d))
    <3>1. /\ until' = [until EXCEPT ![Current(d)] = 0]
          /\ pc'[d] = "scanExpired" /\ idx' = idx
      BY <1>3, <2>3 DEF ScanMember, Expired
    <3>2. SUFFICES ASSUME NEW i \in DOMAIN M, i <= idx[d] PROVE Running(d, M[i])'
      BY <2>1, <3>1 DEF Covered
    <3>3. M[i] \in Tags /\ i \in Nat
      BY <2>1
    <3>4. CASE i = idx[d]
      BY <2>1, <3>1, <3>3, <3>4 DEF Running
    <3>5. CASE i < idx[d]
      BY <2>1, <2>2, <3>1, <3>3, <3>5 DEF Running
    <3> QED
      BY <3>2, <3>3, <3>4, <3>5
  <2>4. CASE ~Expired(d, Current(d))
    <3>1. until' = until /\ pc'[d] = "scan" /\ idx'[d] = idx[d] + 1
      BY <1>3, <2>1, <2>4 DEF ScanMember, AddCandidate
    <3>2. Current(d) \in Tags => Running(d, Current(d))
      BY <2>4 DEF Expired, Blacklisted, Running
    <3>3. ASSUME NEW i \in DOMAIN M, i < idx[d] + 1 PROVE Running(d, M[i])
      <4>1. M[i] \in Tags /\ i \in Nat
        BY <2>1
      <4>2. i = idx[d] \/ i < idx[d]
        BY <3>3, <4>1
      <4> QED
        BY <2>1, <2>2, <3>2, <4>1, <4>2
    <3> QED
      BY <1>c, <2>1, <3>1, <3>3
  <2> QED
    BY <2>3, <2>4
<1>4. CASE ClearExpired(d)
  <2>1. /\ pc[d] = "scanExpired" /\ pc'[d] = "scan" /\ idx'[d] = idx[d] + 1
        /\ until' = until /\ pool' = pool /\ now' = now
    BY <1>4 DEF ClearExpired, AddCandidate, sharedVars
  <2>2. ASSUME NEW i \in DOMAIN M, i < idx[d] + 1 PROVE Running(d, M[i])
    <3>1. i <= idx[d]
      BY <2>1, <2>2
    <3> QED
      BY <2>1, <3>1 DEF Covered
  <2> QED
    BY <1>c, <2>1, <2>2
<1>5. CASE EndScan(d)
  <2>1. /\ pc[d] = "scan" /\ ~InLoop(d) /\ pc'[d] \in {"select", "relock", "refused"}
        /\ until' = until /\ pool' = pool /\ now' = now
    BY <1>5 DEF EndScan, sharedVars
  <2>2. ASSUME NEW i \in DOMAIN M PROVE Running(d, M[i])
    <3>1. i < idx[d]
      BY <2>1 DEF InLoop
    <3> QED
      BY <2>1, <3>1 DEF Covered
  <2> QED
    BY <1>c, <2>1, <2>2
<1>6. CASE LockForRelease(d)
  <2>1. /\ pc[d] = "relock" /\ pc'[d] = "check"
        /\ until' = until /\ pool' = pool /\ now' = now
    BY <1>6 DEF LockForRelease, sharedVars, pickVars
  <2>2. \A i \in DOMAIN M : Running(d, M[i])
    BY <2>1 DEF Covered
  <2> QED
    BY <1>c, <2>1, <2>2
<1>7. CASE CheckMember(d)
  <2>1. /\ pc[d] = "check" /\ pc'[d] \in {"check", "refused"}
        /\ until' = until /\ pool' = pool /\ now' = now
    BY <1>7 DEF CheckMember, sharedVars
  <2>2. \A i \in DOMAIN M : Running(d, M[i])
    BY <2>1 DEF Covered
  <2> QED
    BY <1>c, <2>1, <2>2
<1>8. CASE EndCheck(d)
  BY <1>8 DEF EndCheck, Covered
<1>9. CASE FreeMember(d)
  BY <1>9 DEF FreeMember, Covered
<1>10. CASE FreeEntry(d)
  BY <1>10 DEF FreeEntry, Covered
<1>11. CASE EndFree(d)
  BY <1>11 DEF EndFree, Covered
<1>12. CASE Refuse(d)
  BY <1>12 DEF Refuse, ReturnFromPick, Covered
<1>13. CASE SelectSequential(d)
  BY <1>13 DEF SelectSequential, Choose, ReturnFromPick, Covered
<1>14. CASE SelectRandom(d)
  BY <1>14 DEF SelectRandom, Choose, ReturnFromPick, Covered
<1>15. CASE SelectBalance(d)
  BY <1>15 DEF SelectBalance, Covered
<1>16. CASE BalanceMember(d)
  BY <1>16 DEF BalanceMember, Covered
<1>17. CASE EndBalance(d)
  BY <1>17 DEF EndBalance, Choose, ReturnFromPick, Covered
<1>18. CASE IncShared(d)
  BY <1>18 DEF IncShared, Covered
<1>19. CASE IncEntry(d)
  BY <1>19 DEF IncEntry, Covered
<1>20. CASE DialFails(d)
  BY <1>20 DEF DialFails, Covered
<1>21. CASE DialSucceeds(d)
  BY <1>21 DEF DialSucceeds, Covered
<1>22. CASE Close(d)
  BY <1>22 DEF Close, Covered
<1>23. CASE DecShared(d)
  BY <1>23 DEF DecShared, Covered
<1>24. CASE DecEntry(d)
  BY <1>24 DEF DecEntry, Covered
<1>25. CASE RecordFailure(d)
  BY <1>25 DEF RecordFailure, Covered
<1>26. CASE MarkEntry(d)
  BY <1>26 DEF MarkEntry, Covered
<1> QED
  BY <1>1, <1>2, <1>3, <1>4, <1>5, <1>6, <1>7, <1>8, <1>9, <1>10, <1>11, <1>12, <1>13, 
      <1>14, <1>15, <1>16, <1>17, <1>18, <1>19, <1>20, <1>21, <1>22, <1>23, <1>24, <1>25, <1>26 DEF DialerStep, PickStep, ConnStep

\* The clock reading pickMember took before the lock is good enough for both of
\* its critical sections: between the scan and the check nothing expires for it.
THEOREM CheckIsConclusive == Spec => []CheckSeesNoneExpired
<1> DEFINE Inv == \A d \in Dialers : IdxReset(d) /\ Covered(d)
<1>1. Init => Inv
  BY DEF Init, IdxReset, Covered
<1>2. TypeInv /\ Inv /\ [Next]_vars => Inv'
  <2> SUFFICES ASSUME TypeInv, Inv, [Next]_vars, NEW e \in Dialers
               PROVE  IdxReset(e)' /\ Covered(e)'
    OBVIOUS
  <2>1. CASE DialerStep(e)
    BY <2>1, IdxResetStep, CoveredStep
  <2>2. CASE ~DialerStep(e)
    <3>1. Undisturbed(e)
      BY <2>2, Frame, FrameOther DEF Next, DialerStep, OtherStep, Undisturbed, vars, pickVars
    <3>2. /\ now[e] \in Nat /\ now[e] <= clock /\ clock \in Nat /\ Duration \in Nat
          /\ until \in [Tags -> Nat]
      BY PoolAssumption DEF TypeInv, TypeOK, TypeShared, TypePick, Locals, LocalsOf
    <3>3. \A t \in Tags : Running(e, t) => Running(e, t)'
      BY <3>1, <3>2, UntilStep DEF UntilEffect, Undisturbed, Running
    <3>4. pc[e] \in PickLabels => \A i \in DOMAIN Members[pool[e]] : Members[pool[e]][i] \in Tags
      BY PoolAssumption DEF TypeInv, Locals, LocalsOf
    <3> QED
      BY <3>1, <3>3, <3>4 DEF Undisturbed, IdxReset, Covered, PickLabels, LockedLabels
  <2> QED
    BY <2>1, <2>2
<1>3. Inv => CheckSeesNoneExpired
  BY DEF Covered, Running, CheckSeesNoneExpired
<1> QED
  BY <1>1, <1>2, <1>3, TypeInit, TypeStep, PTL DEF Spec

-----------------------------------------------------------------------------
(* Who lifts a blacklist *)

\* The step of d clears the blacklist of t: the scan, when it is over, or the
\* release of all members.
Lifts(d, t) ==
    /\ InLoop(d) /\ t = Current(d)
    /\ \/ pc[d] = "free"
       \/ pc[d] = "scan" /\ Expired(d, t)

\* A step of a dialer ends no blacklist in any other way.
LEMMA LiftStep ==
    ASSUME TypeInv, NEW d \in Dialers, DialerStep(d), NEW t \in Tags,
           until[t] # 0, until'[t] = 0
    PROVE  Lifts(d, t)
<1>a. until \in [Tags -> Nat] /\ clock \in Nat /\ Duration \in Nat \ {0}
  BY PoolAssumption DEF TypeInv, TypeOK, TypeShared
<1> USE <1>a DEF sharedVars
<1>1. CASE Dial(d)
  BY <1>1 DEF Dial
<1>2. CASE LockForScan(d)
  BY <1>2 DEF LockForScan
<1>3. CASE ScanMember(d)
  <2>1. pc[d] = "scan" /\ InLoop(d)
    BY <1>3 DEF ScanMember
  <2>2. until' = [until EXCEPT ![Current(d)] = 0] /\ Expired(d, Current(d))
    BY <1>3 DEF ScanMember
  <2>3. t = Current(d)
    BY <2>2
  <2> QED
    BY <2>1, <2>2, <2>3 DEF Lifts
<1>4. CASE ClearExpired(d)
  BY <1>4 DEF ClearExpired
<1>5. CASE EndScan(d)
  BY <1>5 DEF EndScan
<1>6. CASE LockForRelease(d)
  BY <1>6 DEF LockForRelease
<1>7. CASE CheckMember(d)
  BY <1>7 DEF CheckMember
<1>8. CASE EndCheck(d)
  BY <1>8 DEF EndCheck
<1>9. CASE FreeMember(d)
  BY <1>9 DEF FreeMember, Lifts
<1>10. CASE FreeEntry(d)
  BY <1>10 DEF FreeEntry
<1>11. CASE EndFree(d)
  BY <1>11 DEF EndFree
<1>12. CASE Refuse(d)
  BY <1>12 DEF Refuse
<1>13. CASE SelectSequential(d)
  BY <1>13 DEF SelectSequential
<1>14. CASE SelectRandom(d)
  BY <1>14 DEF SelectRandom
<1>15. CASE SelectBalance(d)
  BY <1>15 DEF SelectBalance
<1>16. CASE BalanceMember(d)
  BY <1>16 DEF BalanceMember
<1>17. CASE EndBalance(d)
  BY <1>17 DEF EndBalance
<1>18. CASE IncShared(d)
  BY <1>18 DEF IncShared
<1>19. CASE IncEntry(d)
  BY <1>19 DEF IncEntry
<1>20. CASE DialFails(d)
  BY <1>20 DEF DialFails
<1>21. CASE DialSucceeds(d)
  BY <1>21 DEF DialSucceeds
<1>22. CASE Close(d)
  BY <1>22 DEF Close
<1>23. CASE DecShared(d)
  BY <1>23 DEF DecShared
<1>24. CASE DecEntry(d)
  BY <1>24 DEF DecEntry
<1>25. CASE RecordFailure(d)
  BY <1>25 DEF RecordFailure, NewDeadline
<1>26. CASE MarkEntry(d)
  BY <1>26 DEF MarkEntry
<1> QED
  BY <1>1, <1>2, <1>3, <1>4, <1>5, <1>6, <1>7, <1>8, <1>9, <1>10, <1>11, <1>12, <1>13,
      <1>14, <1>15, <1>16, <1>17, <1>18, <1>19, <1>20, <1>21, <1>22, <1>23, <1>24, <1>25, <1>26
      DEF DialerStep, PickStep, ConnStep

\* Whatever the dials of all pools do, a node leaves the blacklist before its
\* time only through the release button or through a goroutine that releases
\* every member of its pool: an expiry is seen with a clock reading of the past.
THEOREM NothingLiftsEarly == Spec => NoEarlyRelease
<1> DEFINE Justified(t) ==
        \/ \E a \in Admins : pc[a] = "idle" /\ member'[a] = t
        \/ \E d \in Dialers : pc[d] = "free" /\ InLoop(d) /\ t = Current(d)
<1>1. ASSUME TypeInv, [Next]_vars, NEW t \in Tags, LiftedEarly(t)
      PROVE  Justified(t)
  <2>1. until[t] # 0 /\ until'[t] = 0 /\ clock <= until[t]
    BY <1>1 DEF LiftedEarly
  <2>2. until[t] \in Nat /\ clock \in Nat
    BY <1>1 DEF TypeInv, TypeOK, TypeShared
  <2>3. ASSUME NEW d \in Dialers, DialerStep(d) PROVE Justified(t)
    <3>1. Lifts(d, t)
      BY <1>1, <2>1, <2>3, LiftStep
    <3>2. now[d] \in Nat /\ now[d] <= clock
      BY <1>1 DEF TypeInv, TypeOK, TypePick, Locals, LocalsOf
    <3>3. ~Expired(d, t)
      BY <2>1, <2>2, <3>2 DEF Expired
    <3> QED
      BY <3>1, <3>3 DEF Lifts
  <2>4. ASSUME NEW a \in Admins, Release(a) PROVE Justified(t)
    <3>1. PICK u \in Tags : /\ until' = [until EXCEPT ![u] = 0]
                            /\ member' = [member EXCEPT ![a] = u]
      BY <2>4 DEF Release
    <3>2. u = t
      BY <1>1, <2>1, <3>1 DEF TypeInv, TypeOK, TypeShared
    <3>3. member'[a] = t
      BY <1>1, <3>1, <3>2 DEF TypeInv, TypeOK, TypeControl
    <3> QED
      BY <2>4, <3>3 DEF Release
  <2>5. CASE \/ \E u \in Tags : ProbeSucceeds(u)
             \/ \E a \in Admins : ReleaseEntry(a)
             \/ Tick \/ UNCHANGED vars
    BY <2>1, <2>5 DEF ProbeSucceeds, ReleaseEntry, Tick, vars, sharedVars
  <2> QED
    BY <1>1, <2>3, <2>4, <2>5 DEF Next, DialerStep
<1>2. TypeInv /\ [Next]_vars =>
          [\A t \in Tags : LiftedEarly(t) =>
              \/ \E a \in Admins : pc[a] = "idle" /\ member'[a] = t
              \/ \E d \in Dialers : /\ pc[d] = "free" /\ InLoop(d)
                                    /\ t = Current(d)]_vars
  BY <1>1
<1> QED
  BY <1>2, TypeInit, TypeStep, PTL DEF Spec, NoEarlyRelease

-----------------------------------------------------------------------------
(* Releasing everything *)

\* What the check of d has established of the members it has passed, until the
\* release begins.
Checked(d) ==
    /\ pc[d] = "relock" => idx[d] = 1
    /\ pc[d] \in {"check", "free"} =>
          \A i \in DOMAIN Members[pool[d]] :
              (IF pc[d] = "check" THEN i < idx[d] ELSE idx[d] = 1)
                  => Blacklisted(Members[pool[d]][i])

\* A step of a dialer keeps what its own check has established.
LEMMA CheckedStep ==
    ASSUME TypeInv, NEW d \in Dialers, Checked(d), DialerStep(d)
    PROVE  Checked(d)'
<1> DEFINE M == Members[pool[d]]
<1>a. pc[d] \in PickLabels => DOMAIN M = 1 .. Len(M) /\ Len(M) \in Nat
  BY PoolAssumption DEF TypeInv, Locals, LocalsOf
<1>b. d \in DOMAIN pc /\ d \in DOMAIN idx /\ idx[d] \in Nat \ {0}
  BY DEF TypeInv, TypeOK, TypeControl, TypePick
<1> USE <1>b DEF Goto
<1>1. CASE Dial(d)
  BY <1>1 DEF Dial, Checked
<1>2. CASE LockForScan(d)
  BY <1>2 DEF LockForScan, Checked
<1>3. CASE ScanMember(d)
  <2>1. pc'[d] \in {"scan", "scanExpired"}
    BY <1>3 DEF ScanMember
  <2> QED
    BY <2>1 DEF Checked
<1>4. CASE ClearExpired(d)
  BY <1>4 DEF ClearExpired, Checked
<1>5. CASE EndScan(d)
  BY <1>5 DEF EndScan, Checked
<1>6. CASE LockForRelease(d)
  BY <1>a, <1>6 DEF LockForRelease, Checked, pickVars, PickLabels
<1>7. CASE CheckMember(d)
  <2>1. pc[d] = "check" /\ InLoop(d) /\ pool' = pool /\ until' = until
    BY <1>7 DEF CheckMember, sharedVars
  <2>2. CASE pc'[d] = "refused"
    BY <2>2 DEF Checked
  <2>3. CASE Blacklisted(Current(d)) /\ idx'[d] = idx[d] + 1 /\ pc' = pc
    <3>1. ASSUME NEW i \in DOMAIN M, i < idx[d] + 1 PROVE Blacklisted(M[i])
      <4>1. i \in Nat
        BY <1>a, <2>1 DEF PickLabels, LockedLabels
      <4>2. i = idx[d] \/ i < idx[d]
        BY <3>1, <4>1
      <4> QED
        BY <2>1, <2>3, <4>2 DEF Checked, Current
    <3> QED
      BY <2>1, <2>3, <3>1 DEF Checked, Blacklisted
  <2> QED
    BY <1>7, <2>2, <2>3 DEF CheckMember
<1>8. CASE EndCheck(d)
  <2>1. /\ pc[d] = "check" /\ ~InLoop(d) /\ pc'[d] = "free"
        /\ pool' = pool /\ until' = until
    BY <1>8 DEF EndCheck, sharedVars
  <2>2. ASSUME NEW i \in DOMAIN M PROVE Blacklisted(M[i])
    <3>1. i < idx[d]
      BY <1>a, <2>1 DEF InLoop, PickLabels, LockedLabels
    <3> QED
      BY <2>1, <3>1 DEF Checked
  <2> QED
    BY <2>1, <2>2 DEF Checked, Blacklisted
<1>9. CASE FreeMember(d)
  BY <1>9 DEF FreeMember, Checked
<1>10. CASE FreeEntry(d)
  <2>1. pc'[d] = "free" /\ idx'[d] # 1
    BY <1>10 DEF FreeEntry
  <2> QED
    BY <2>1 DEF Checked
<1>11. CASE EndFree(d)
  BY <1>11 DEF EndFree, Checked
<1>12. CASE Refuse(d)
  BY <1>12 DEF Refuse, Checked
<1>13. CASE SelectSequential(d)
  BY <1>13 DEF SelectSequential, Choose, Checked
<1>14. CASE SelectRandom(d)
  BY <1>14 DEF SelectRandom, Choose, Checked
<1>15. CASE SelectBalance(d)
  BY <1>15 DEF SelectBalance, Checked
<1>16. CASE BalanceMember(d)
  BY <1>16 DEF BalanceMember, Checked
<1>17. CASE EndBalance(d)
  BY <1>17 DEF EndBalance, Choose, Checked
<1>18. CASE IncShared(d)
  BY <1>18 DEF IncShared, Checked
<1>19. CASE IncEntry(d)
  BY <1>19 DEF IncEntry, Checked
<1>20. CASE DialFails(d)
  BY <1>20 DEF DialFails, Checked
<1>21. CASE DialSucceeds(d)
  BY <1>21 DEF DialSucceeds, Checked
<1>22. CASE Close(d)
  BY <1>22 DEF Close, Checked
<1>23. CASE DecShared(d)
  BY <1>23 DEF DecShared, Checked
<1>24. CASE DecEntry(d)
  BY <1>24 DEF DecEntry, Checked
<1>25. CASE RecordFailure(d)
  BY <1>25 DEF RecordFailure, Checked
<1>26. CASE MarkEntry(d)
  BY <1>26 DEF MarkEntry, Checked
<1> QED
  BY <1>1, <1>2, <1>3, <1>4, <1>5, <1>6, <1>7, <1>8, <1>9, <1>10, <1>11, <1>12, <1>13,
      <1>14, <1>15, <1>16, <1>17, <1>18, <1>19, <1>20, <1>21, <1>22, <1>23, <1>24, <1>25, <1>26
      DEF DialerStep, PickStep, ConnStep

\* In pool mode and in multi-port mode, where no node is in two pools, and with
\* nobody at the release button, a goroutine that begins to release the members
\* of its pool does so in a state in which every one of them is blacklisted: the
\* lock keeps the other dials of the pool from lifting one behind its back.
THEOREM ReleaseIsTotal ==
    ASSUME Admins = {},
           \A p, q \in Pools : p # q =>
               \A i \in DOMAIN Members[p], j \in DOMAIN Members[q] :
                   Members[p][i] # Members[q][j]
    PROVE  Spec => []ReleaseOnlyWhenAllBlacklisted
<1> DEFINE Inv == \A d \in Dialers : Checked(d)
<1>1. Init => Inv
  BY DEF Init, Checked
<1>2. TypeInv /\ LockOwnership /\ Inv /\ [Next]_vars => Inv'
  <2> SUFFICES ASSUME TypeInv, LockOwnership, Inv, [Next]_vars, NEW e \in Dialers
               PROVE  Checked(e)'
    OBVIOUS
  <2>1. CASE DialerStep(e)
    BY <2>1, CheckedStep
  <2>2. CASE ~DialerStep(e)
    <3>1. Undisturbed(e)
      BY <2>2, Frame, FrameOther DEF Next, DialerStep, OtherStep, Undisturbed, vars, pickVars
    <3>2. pc[e] \in PickLabels =>
              /\ pool[e] \in Pools
              /\ \A i \in DOMAIN Members[pool[e]] : Members[pool[e]][i] \in Tags
      BY PoolAssumption DEF TypeInv, Locals, LocalsOf
    <3>3. ASSUME pc[e] \in {"check", "free"}, NEW i \in DOMAIN Members[pool[e]],
                 until[Members[pool[e]][i]] # 0
          PROVE  until'[Members[pool[e]][i]] # 0
      <4> DEFINE t == Members[pool[e]][i]
      <4>1. t \in Tags /\ pool[e] \in Pools /\ mu[pool[e]] = e
        BY <3>2, <3>3 DEF LockOwnership, PickLabels, LockedLabels
      <4>2. SUFFICES ASSUME until'[t] = 0 PROVE FALSE
        OBVIOUS
      <4>3. ASSUME NEW d \in Dialers, DialerStep(d) PROVE FALSE
        <5>1. Lifts(d, t) /\ d # e
          BY <2>2, <3>3, <4>1, <4>2, <4>3, LiftStep
        <5>2. pool[d] \in Pools /\ mu[pool[d]] = d
          BY <5>1 DEF Lifts, LockOwnership, PickLabels, LockedLabels, TypeInv, Locals, LocalsOf
        <5>3. pool[d] # pool[e]
          BY <4>1, <5>1, <5>2
        <5>4. idx[d] \in DOMAIN Members[pool[d]]
          BY <5>1, <5>2, PoolAssumption DEF Lifts, InLoop, TypeInv, TypeOK, TypePick
        <5> QED
          BY <4>1, <5>1, <5>2, <5>3, <5>4 DEF Lifts, Current
      <4>4. CASE OtherStep \/ UNCHANGED vars
        BY <3>3, <4>2, <4>4 DEF OtherStep, ProbeSucceeds, Tick, vars, sharedVars
      <4> QED
        BY <4>3, <4>4 DEF Next, DialerStep, OtherStep
    <3> QED
      BY <3>1, <3>3 DEF Undisturbed, Checked, Blacklisted
  <2> QED
    BY <2>1, <2>2
<1>3. Inv => ReleaseOnlyWhenAllBlacklisted
  BY DEF Checked, ReleaseOnlyWhenAllBlacklisted
<1> QED
  BY <1>1, <1>2, <1>3, LocksAreOwned, TypeInit, TypeStep, PTL DEF Spec
===============================================================================
