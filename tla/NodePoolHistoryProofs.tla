------------------------ MODULE NodePoolHistoryProofs ------------------------
(***************************************************************************)
(* A dial is only given a node that was usable during that very dial,      *)
(* proved for every set of nodes, pools and goroutines.                    *)
(***************************************************************************)
EXTENDS NodePoolHistory, NodePoolProofs

-----------------------------------------------------------------------------
(* The inductive invariant *)

\* The candidates of a dial were usable during it; outside pickMember the
\* buffer is empty.
Collected(d) ==
    \A i \in DOMAIN cand[d] : cand[d][i] \in seen[d] /\ Supports(cand[d][i], net[d])
Emptied(d) == pc[d] \in {"idle", "lock"} \cup ConnLabels => cand[d] = << >>

\* So was the member whose blacklist the scan has just found to be over, and the
\* one the balance loop or the selection has settled on.
Settled(d) ==
    /\ pc[d] = "scanExpired" => Current(d) \in seen[d]
    /\ pc[d] = "balance" /\ idx[d] # 1 => member[d] \in seen[d]
    /\ pc[d] = "inc" => member[d] \in seen[d]

\* Until then it has none, so that the balance loop starts afresh.
Unsettled(d) ==
    pc[d] \notin ConnLabels /\ (pc[d] = "balance" => idx[d] = 1) => member[d] = None

Picked(d) == Collected(d) /\ Emptied(d) /\ Settled(d) /\ Unsettled(d)

\* The history of a dial under way only grows.
Remembers(d) == seen[d] \subseteq seen'[d] /\ Usable' \subseteq seen'[d]

\* Every step of a dial keeps its history, but for the one that ends it and the
\* one that begins it.
LEMMA HistoryGrows ==
    ASSUME HNext, NEW d \in Dialers, pc'[d] # "idle", pc[d] = "idle" => pc'[d] # "lock"
    PROVE  Remembers(d)
BY DEF HNext, Remembers

\* The round-robin index falls inside the candidates.
LEMMA SequentialIndex ==
    ASSUME TypeInv, NEW d \in Dialers, pc[d] = "select"
    PROVE  (rrCounter[pool[d]] % Len(cand[d])) + 1 \in DOMAIN cand[d]
<1>1. /\ Len(cand[d]) \in Nat \ {0}
      /\ rrCounter[pool[d]] \in Nat
      /\ cand[d] \in Seq(Tags)
  BY PoolAssumption DEF TypeInv, TypeOK, Locals, LocalsOf, PickLabels, TypePick, TypePool
<1>2. rrCounter[pool[d]] % Len(cand[d]) \in 0 .. Len(cand[d]) - 1
  BY <1>1, Remainder
<1> QED
  BY <1>1, <1>2

\* The step of a dialer that collects the member under its index.
LEMMA AddCandidateStep ==
    ASSUME TypeInv, NEW d \in Dialers, Picked(d), Remembers(d), pc[d] \in PickLabels,
           InLoop(d), AddCandidate(d), net' = net, pool' = pool, member' = member,
           pc'[d] = "scan", Current(d) \in seen'[d], pc[d] \in {"scan", "scanExpired"}
    PROVE  Picked(d)'
<1>1. Current(d) \in Tags
  BY CurrentIsTag
<1>2. cand[d] \in Seq(Tags) /\ d \in DOMAIN cand
  BY DEF TypeInv, TypeOK, TypePick
<1>3. Collected(d)'
  <2>1. CASE Supports(Current(d), net[d])
    <3>1. cand'[d] = Append(cand[d], Current(d))
      BY <1>2, <2>1 DEF AddCandidate
    <3>2. ASSUME NEW i \in DOMAIN cand'[d]
          PROVE  cand'[d][i] \in seen'[d] /\ Supports(cand'[d][i], net[d])
      <4>1. CASE i \in DOMAIN cand[d]
        <5>1. cand'[d][i] = cand[d][i]
          BY <1>1, <1>2, <3>1, <4>1
        <5> QED
          BY <4>1, <5>1 DEF Picked, Collected, Remembers
      <4>2. CASE i \notin DOMAIN cand[d]
        <5>1. cand'[d][i] = Current(d)
          BY <1>1, <1>2, <3>1, <3>2, <4>2
        <5> QED
          BY <2>1, <5>1
      <4> QED
        BY <4>1, <4>2
    <3> QED
      BY <3>2 DEF Collected, Supports
  <2>2. CASE ~Supports(Current(d), net[d])
    <3>1. cand'[d] = cand[d]
      BY <1>2, <2>2 DEF AddCandidate
    <3> QED
      BY <3>1 DEF Picked, Collected, Remembers, Supports
  <2> QED
    BY <2>1, <2>2
<1>4. Emptied(d)' /\ Settled(d)' /\ Unsettled(d)'
  BY DEF Emptied, Settled, Unsettled, Picked, ConnLabels
<1> QED
  BY <1>3, <1>4 DEF Picked

\* The candidates stay what they are while the dial goes on.
LEMMA CollectedKept ==
    ASSUME NEW d \in Dialers, Collected(d), Remembers(d), cand'[d] = cand[d],
           net'[d] = net[d]
    PROVE  Collected(d)'
BY DEF Collected, Remembers, Supports

\* The selection of a member that was usable.
LEMMA ChooseStep ==
    ASSUME TypeInv, NEW d \in Dialers, NEW t \in seen[d], Remembers(d), Choose(d, t)
    PROVE  Picked(d)'
<1>1. pc'[d] = "inc" /\ member'[d] = t /\ cand'[d] = << >>
  BY DEF Choose, Goto, ReturnFromPick, ResetBuffer, TypeInv, TypeOK, TypeControl, TypePick
<1> QED
  BY <1>1 DEF Picked, Collected, Emptied, Settled, Unsettled, ConnLabels, Remembers

\* Every step of a dialer keeps all this for itself.
LEMMA PickedStep ==
    ASSUME TypeInv, NEW d \in Dialers, Picked(d), DialerStep(d), HNext
    PROVE  Picked(d)'
<1>a. /\ d \in DOMAIN pc /\ d \in DOMAIN idx /\ d \in DOMAIN cand /\ d \in DOMAIN member
      /\ d \in DOMAIN net /\ d \in DOMAIN pool
      /\ idx[d] \in Nat \ {0} /\ cand[d] \in Seq(Tags)
  BY DEF TypeInv, TypeOK, TypeControl, TypePick
\* The steps that neither collect nor choose.
<1>b. ASSUME /\ cand'[d] = cand[d] /\ net'[d] = net[d]
             /\ pc[d] \notin {"idle", "lock"} \cup ConnLabels
             /\ pc'[d] \notin {"idle", "lock", "scanExpired", "balance"} \cup ConnLabels
             /\ pc[d] # "balance" /\ member'[d] = member[d]
      PROVE  Picked(d)'
  <2>1. Remembers(d)
    BY <1>b, HistoryGrows
  <2>2. Collected(d)'
    BY <1>b, <2>1, CollectedKept DEF Picked
  <2>3. Emptied(d)' /\ Settled(d)' /\ Unsettled(d)'
    BY <1>b DEF Emptied, Settled, Unsettled, Picked, ConnLabels
  <2> QED
    BY <2>2, <2>3 DEF Picked
\* The steps of a dial that has its member, and its end.
<1>c. ASSUME cand'[d] = << >>, pc'[d] \in {"idle", "lock"} \cup (ConnLabels \ {"inc"}),
             pc'[d] \in {"idle", "lock"} => member'[d] = None
      PROVE  Picked(d)'
  BY <1>c DEF Picked, Collected, Emptied, Settled, Unsettled, ConnLabels
<1> USE <1>a DEF Goto
<1>1. CASE Dial(d)
  <2>1. pc[d] = "idle" /\ pc'[d] = "lock" /\ cand' = cand /\ member' = member
    BY <1>1 DEF Dial
  <2> QED
    BY <1>c, <2>1 DEF Picked, Emptied, Unsettled, ConnLabels
<1>2. CASE LockForScan(d)
  <2>1. /\ pc[d] = "lock" /\ pc'[d] = "scan" /\ cand' = cand /\ member' = member
    BY <1>2 DEF LockForScan, pickVars
  <2>2. cand'[d] = << >>
    BY <2>1 DEF Picked, Emptied
  <2> QED
    BY <2>1, <2>2 DEF Picked, Collected, Emptied, Settled, Unsettled, ConnLabels
<1>3. CASE ScanMember(d)
  <2>1. /\ pc[d] = "scan" /\ pc[d] \in PickLabels /\ InLoop(d)
        /\ net' = net /\ pool' = pool /\ member' = member
    BY <1>3 DEF ScanMember, PickLabels, LockedLabels
  <2>2. CASE Expired(d, Current(d)) /\ ~UNCHANGED pc
    <3>1. pc'[d] = "scanExpired" /\ idx' = idx /\ cand' = cand
      BY <1>3, <2>2 DEF ScanMember, Expired
    <3>2. until' = [until EXCEPT ![Current(d)] = 0]
      BY <1>3, <2>2 DEF ScanMember, Expired
    <3>3. Remembers(d)
      BY <2>1, <3>1, HistoryGrows
    <3>4. Current(d) \in Usable'
      BY <2>1, <3>2, CurrentIsTag DEF Usable, Blacklisted, TypeInv, TypeOK, TypeShared
    <3>5. Collected(d)'
      BY <2>1, <3>1, <3>3, CollectedKept DEF Picked
    <3>6. Current(d)' = Current(d)
      BY <2>1, <3>1 DEF Current
    <3> QED
      BY <2>1, <3>1, <3>3, <3>4, <3>5, <3>6 DEF Picked, Emptied, Settled, Unsettled,
         Remembers, ConnLabels
  <2>3. CASE Blacklisted(Current(d)) /\ cand' = cand /\ pc' = pc
    BY <1>b, <2>1, <2>3 DEF ConnLabels
  <2>4. CASE ~Blacklisted(Current(d)) /\ AddCandidate(d) /\ UNCHANGED <<until, pc>>
    <3>1. Remembers(d)
      BY <2>1, <2>4, HistoryGrows
    <3>2. Current(d) \in Usable'
      BY <2>1, <2>4, CurrentIsTag DEF Usable, Blacklisted
    <3>3. Current(d) \in seen'[d]
      BY <3>1, <3>2 DEF Remembers
    <3> QED
      BY <2>1, <2>4, <3>1, <3>3, AddCandidateStep
  <2> QED
    BY <1>3, <2>1, <2>2, <2>3, <2>4 DEF ScanMember
<1>4. CASE ClearExpired(d)
  <2>1. /\ pc[d] = "scanExpired" /\ pc'[d] = "scan" /\ pc[d] \in PickLabels
        /\ net' = net /\ pool' = pool /\ member' = member /\ AddCandidate(d)
    BY <1>4 DEF ClearExpired, PickLabels, LockedLabels
  <2>2. Remembers(d)
    BY <2>1, HistoryGrows
  <2>3. InLoop(d) /\ Current(d) \in seen'[d]
    BY <2>1, <2>2 DEF Picked, Settled, Remembers, TypeInv, Locals, LocalsOf
  <2> QED
    BY <2>1, <2>2, <2>3, AddCandidateStep
<1>5. CASE EndScan(d)
  <2>1. /\ pc[d] \notin {"idle", "lock", "balance"} \cup ConnLabels
        /\ pc'[d] \notin {"idle", "lock", "scanExpired", "balance"} \cup ConnLabels
    BY <1>5 DEF EndScan, ConnLabels
  <2>2. cand' = cand /\ net' = net /\ member' = member
    BY <1>5 DEF EndScan, pickVars
  <2> QED
    BY <1>b, <2>1, <2>2
<1>6. CASE LockForRelease(d)
  <2>1. /\ pc[d] \notin {"idle", "lock", "balance"} \cup ConnLabels
        /\ pc'[d] \notin {"idle", "lock", "scanExpired", "balance"} \cup ConnLabels
    BY <1>6 DEF LockForRelease, ConnLabels
  <2>2. cand' = cand /\ net' = net /\ member' = member
    BY <1>6 DEF LockForRelease, pickVars
  <2> QED
    BY <1>b, <2>1, <2>2
<1>7. CASE CheckMember(d)
  <2>1. /\ pc[d] \notin {"idle", "lock", "balance"} \cup ConnLabels
        /\ pc'[d] \notin {"idle", "lock", "scanExpired", "balance"} \cup ConnLabels
    BY <1>7 DEF CheckMember, ConnLabels
  <2>2. cand' = cand /\ net' = net /\ member' = member
    BY <1>7 DEF CheckMember, pickVars
  <2> QED
    BY <1>b, <2>1, <2>2
<1>8. CASE EndCheck(d)
  <2>1. /\ pc[d] \notin {"idle", "lock", "balance"} \cup ConnLabels
        /\ pc'[d] \notin {"idle", "lock", "scanExpired", "balance"} \cup ConnLabels
    BY <1>8 DEF EndCheck, ConnLabels
  <2>2. cand' = cand /\ net' = net /\ member' = member
    BY <1>8 DEF EndCheck, pickVars
  <2> QED
    BY <1>b, <2>1, <2>2
<1>9. CASE FreeMember(d)
  <2>1. /\ pc[d] \notin {"idle", "lock", "balance"} \cup ConnLabels
        /\ pc'[d] \notin {"idle", "lock", "scanExpired", "balance"} \cup ConnLabels
    BY <1>9 DEF FreeMember, ConnLabels
  <2>2. cand' = cand /\ net' = net /\ member' = member
    BY <1>9 DEF FreeMember, pickVars
  <2> QED
    BY <1>b, <2>1, <2>2
<1>10. CASE FreeEntry(d)
  <2>1. /\ pc[d] \notin {"idle", "lock", "balance"} \cup ConnLabels
        /\ pc'[d] \notin {"idle", "lock", "scanExpired", "balance"} \cup ConnLabels
    BY <1>10 DEF FreeEntry, ConnLabels
  <2>2. cand' = cand /\ net' = net /\ member' = member
    BY <1>10 DEF FreeEntry, pickVars
  <2> QED
    BY <1>b, <2>1, <2>2
<1>11. CASE EndFree(d)
  <2>1. /\ pc[d] \notin {"idle", "lock", "balance"} \cup ConnLabels
        /\ pc'[d] \notin {"idle", "lock", "scanExpired", "balance"} \cup ConnLabels
    BY <1>11 DEF EndFree, ConnLabels
  <2>2. cand' = cand /\ net' = net /\ member' = member
    BY <1>11 DEF EndFree, pickVars
  <2> QED
    BY <1>b, <2>1, <2>2
<1>12. CASE Refuse(d)
  <2>1. pc[d] = "refused" /\ pc'[d] = "idle" /\ cand'[d] = << >> /\ member' = member
    BY <1>12 DEF Refuse, ReturnFromPick, ResetBuffer
  <2> QED
    BY <1>c, <2>1 DEF Picked, Unsettled, ConnLabels
<1>13. CASE SelectSequential(d)
  <2>1. PICK t \in seen[d] : pc[d] = "select" /\ Choose(d, t)
    <3>1. (rrCounter[pool[d]] % Len(cand[d])) + 1 \in DOMAIN cand[d]
      BY <1>13, SequentialIndex DEF SelectSequential
    <3>2. cand[d][(rrCounter[pool[d]] % Len(cand[d])) + 1] \in seen[d]
      BY <3>1 DEF Picked, Collected
    <3> QED
      BY <1>13, <3>2 DEF SelectSequential
  <2>2. pc'[d] = "inc"
    BY <2>1 DEF Choose
  <2>3. Remembers(d)
    BY <2>1, <2>2, HistoryGrows
  <2> QED
    BY <2>1, <2>3, ChooseStep
<1>14. CASE SelectRandom(d)
  <2>1. PICK t \in seen[d] : pc[d] = "select" /\ Choose(d, t)
    BY <1>14 DEF SelectRandom, Picked, Collected
  <2>2. pc'[d] = "inc"
    BY <2>1 DEF Choose
  <2>3. Remembers(d)
    BY <2>1, <2>2, HistoryGrows
  <2> QED
    BY <2>1, <2>3, ChooseStep
<1>15. CASE SelectBalance(d)
  <2>1. /\ pc[d] = "select" /\ pc'[d] = "balance"
        /\ idx' = idx /\ cand' = cand /\ net' = net /\ member' = member
    BY <1>15 DEF SelectBalance, pickVars
  <2>2. idx[d] = 1
    BY <2>1 DEF TypeInv, Locals, LocalsOf
  <2>3. Collected(d)'
    BY <2>1, HistoryGrows, CollectedKept DEF Picked
  <2> QED
    BY <2>1, <2>2, <2>3 DEF Picked, Emptied, Settled, Unsettled, ConnLabels
<1>16. CASE BalanceMember(d)
  <2>1. /\ pc[d] = "balance" /\ pc'[d] = "balance"
        /\ idx'[d] = idx[d] + 1 /\ cand' = cand /\ net' = net
    BY <1>16 DEF BalanceMember
  <2>2. idx[d] \in DOMAIN cand[d]
    BY <1>16 DEF BalanceMember
  <2>3. Remembers(d)
    BY <2>1, HistoryGrows
  <2>4. Collected(d)'
    BY <2>1, <2>3, CollectedKept DEF Picked
  <2>5. \/ member'[d] = cand[d][idx[d]]
        \/ member'[d] = member[d] /\ idx[d] # 1
    <3>1. idx[d] = 1 => member[d] = None
      BY <2>1 DEF Picked, Unsettled, ConnLabels
    <3>2. CASE member[d] = None \/ active[cand[d][idx[d]]] < minActive[d]
      <4>1. member' = [member EXCEPT ![d] = cand[d][idx[d]]]
        BY <1>16, <3>2 DEF BalanceMember
      <4> QED
        BY <4>1
    <3>3. CASE ~(member[d] = None \/ active[cand[d][idx[d]]] < minActive[d])
      <4>1. member' = member
        BY <1>16, <3>3 DEF BalanceMember
      <4> QED
        BY <3>1, <3>3, <4>1
    <3> QED
      BY <3>2, <3>3
  <2>6. member'[d] \in seen'[d]
    BY <2>1, <2>2, <2>3, <2>5 DEF Picked, Collected, Settled, Remembers
  <2> QED
    BY <2>1, <2>4, <2>6 DEF Picked, Emptied, Settled, Unsettled, ConnLabels
<1>17. CASE EndBalance(d)
  <2>0. idx[d] # 1
    BY <1>17 DEF EndBalance, TypeInv, Locals, LocalsOf
  <2>1. PICK t \in seen[d] : pc[d] = "balance" /\ Choose(d, t)
    BY <1>17, <2>0 DEF EndBalance, Picked, Settled
  <2>2. pc'[d] = "inc"
    BY <2>1 DEF Choose
  <2>3. Remembers(d)
    BY <2>1, <2>2, HistoryGrows
  <2> QED
    BY <2>1, <2>3, ChooseStep
<1>18. CASE IncShared(d)
  <2>1. pc[d] \in ConnLabels /\ pc'[d] \in {"idle"} \cup (ConnLabels \ {"inc"})
    BY <1>18 DEF IncShared, ConnLabels
  <2>2. cand'[d] = << >>
    BY <1>18, <2>1 DEF IncShared, pickVars, Picked, Emptied
  <2>3. pc'[d] \in {"idle", "lock"} => member'[d] = None
    BY <1>18 DEF IncShared
  <2> QED
    BY <1>c, <2>1, <2>2, <2>3
<1>19. CASE IncEntry(d)
  <2>1. pc[d] \in ConnLabels /\ pc'[d] \in {"idle"} \cup (ConnLabels \ {"inc"})
    BY <1>19 DEF IncEntry, ConnLabels
  <2>2. cand'[d] = << >>
    BY <1>19, <2>1 DEF IncEntry, pickVars, Picked, Emptied
  <2>3. pc'[d] \in {"idle", "lock"} => member'[d] = None
    BY <1>19 DEF IncEntry
  <2> QED
    BY <1>c, <2>1, <2>2, <2>3
<1>20. CASE DialFails(d)
  <2>1. pc[d] \in ConnLabels /\ pc'[d] \in {"idle"} \cup (ConnLabels \ {"inc"})
    BY <1>20 DEF DialFails, ConnLabels
  <2>2. cand'[d] = << >>
    BY <1>20, <2>1 DEF DialFails, pickVars, Picked, Emptied
  <2>3. pc'[d] \in {"idle", "lock"} => member'[d] = None
    BY <1>20 DEF DialFails
  <2> QED
    BY <1>c, <2>1, <2>2, <2>3
<1>21. CASE DialSucceeds(d)
  <2>1. pc[d] \in ConnLabels /\ pc'[d] \in {"idle"} \cup (ConnLabels \ {"inc"})
    BY <1>21 DEF DialSucceeds, ConnLabels
  <2>2. cand'[d] = << >>
    BY <1>21, <2>1 DEF DialSucceeds, pickVars, Picked, Emptied
  <2>3. pc'[d] \in {"idle", "lock"} => member'[d] = None
    BY <1>21 DEF DialSucceeds
  <2> QED
    BY <1>c, <2>1, <2>2, <2>3
<1>22. CASE Close(d)
  <2>1. pc[d] \in ConnLabels /\ pc'[d] \in {"idle"} \cup (ConnLabels \ {"inc"})
    BY <1>22 DEF Close, ConnLabels
  <2>2. cand'[d] = << >>
    BY <1>22, <2>1 DEF Close, pickVars, Picked, Emptied
  <2>3. pc'[d] \in {"idle", "lock"} => member'[d] = None
    BY <1>22 DEF Close
  <2> QED
    BY <1>c, <2>1, <2>2, <2>3
<1>23. CASE DecShared(d)
  <2>1. pc[d] \in ConnLabels /\ pc'[d] \in {"idle"} \cup (ConnLabels \ {"inc"})
    BY <1>23 DEF DecShared, ConnLabels
  <2>2. cand'[d] = << >>
    BY <1>23, <2>1 DEF DecShared, pickVars, Picked, Emptied
  <2>3. pc'[d] \in {"idle", "lock"} => member'[d] = None
    BY <1>23 DEF DecShared
  <2> QED
    BY <1>c, <2>1, <2>2, <2>3
<1>24. CASE DecEntry(d)
  <2>1. pc[d] \in ConnLabels /\ pc'[d] \in {"idle"} \cup (ConnLabels \ {"inc"})
    BY <1>24 DEF DecEntry, ConnLabels
  <2>2. cand'[d] = << >>
    BY <1>24, <2>1 DEF DecEntry, pickVars, Picked, Emptied
  <2>3. pc'[d] \in {"idle", "lock"} => member'[d] = None
    BY <1>24 DEF DecEntry
  <2> QED
    BY <1>c, <2>1, <2>2, <2>3
<1>25. CASE RecordFailure(d)
  <2>1. pc[d] \in ConnLabels /\ pc'[d] \in {"idle"} \cup (ConnLabels \ {"inc"})
    BY <1>25 DEF RecordFailure, ConnLabels
  <2>2. cand'[d] = << >>
    BY <1>25, <2>1 DEF RecordFailure, pickVars, Picked, Emptied
  <2>3. pc'[d] \in {"idle", "lock"} => member'[d] = None
    BY <1>25 DEF RecordFailure
  <2> QED
    BY <1>c, <2>1, <2>2, <2>3
<1>26. CASE MarkEntry(d)
  <2>1. pc[d] \in ConnLabels /\ pc'[d] \in {"idle"} \cup (ConnLabels \ {"inc"})
    BY <1>26 DEF MarkEntry, ConnLabels
  <2>2. cand'[d] = << >>
    BY <1>26, <2>1 DEF MarkEntry, pickVars, Picked, Emptied
  <2>3. pc'[d] \in {"idle", "lock"} => member'[d] = None
    BY <1>26 DEF MarkEntry
  <2> QED
    BY <1>c, <2>1, <2>2, <2>3
<1> QED
  BY <1>1, <1>2, <1>3, <1>4, <1>5, <1>6, <1>7, <1>8, <1>9, <1>10, <1>11, <1>12, <1>13,
      <1>14, <1>15, <1>16, <1>17, <1>18, <1>19, <1>20, <1>21, <1>22, <1>23, <1>24, <1>25, <1>26
      DEF DialerStep, PickStep, ConnStep

-----------------------------------------------------------------------------
\* For any number of dials, pools, probes and releases: a dial is only given a
\* node that was off the blacklist at some moment of that very dial and carries
\* the network it asked for, although the blacklist is read member by member, the
\* choice is made without the lock, and candidate buffers are recycled.
THEOREM PickedOnlyUsable == HSpec => []PickedWasUsable
<1> DEFINE Inv == \A d \in Dialers : Picked(d)
<1>1. HInit => TypeInv /\ Inv
  BY TypeInit DEF HInit, Init, Picked, Collected, Emptied, Settled, Unsettled, ConnLabels
<1>2. TypeInv /\ [HNext]_hvars => TypeInv'
  BY TypeStep DEF HNext, hvars
<1>3. TypeInv /\ Inv /\ [HNext]_hvars => Inv'
  <2> SUFFICES ASSUME TypeInv, Inv, [HNext]_hvars, NEW e \in Dialers PROVE Picked(e)'
    OBVIOUS
  <2>1. CASE HNext /\ DialerStep(e)
    BY <2>1, PickedStep
  <2>2. CASE HNext /\ ~DialerStep(e)
    <3>1. Undisturbed(e)
      BY <2>2, Frame, FrameOther DEF HNext, Next, DialerStep, OtherStep
    <3>2. Current(e)' = Current(e)
      BY <3>1 DEF Undisturbed, Current
    <3>3. CASE pc[e] = "idle"
      BY <3>1, <3>3 DEF Undisturbed, Picked, Collected, Emptied, Settled, Unsettled, ConnLabels
    <3>4. CASE pc[e] # "idle"
      <4>1. Remembers(e)
        BY <2>2, <3>1, <3>4, HistoryGrows DEF Undisturbed
      <4>2. Collected(e)'
        BY <3>1, <4>1, CollectedKept DEF Undisturbed, Picked
      <4> QED
        BY <3>1, <3>2, <4>1, <4>2 DEF Undisturbed, Picked, Emptied, Settled, Unsettled, Remembers
    <3> QED
      BY <3>3, <3>4
  <2>3. CASE UNCHANGED hvars
    BY <2>3 DEF hvars, vars, pickVars, Picked, Collected, Emptied, Settled, Unsettled, Current
  <2> QED
    BY <2>1, <2>2, <2>3
<1>4. Inv => PickedWasUsable
  BY DEF Picked, Collected, Settled, PickedWasUsable
<1> QED
  BY <1>1, <1>2, <1>3, <1>4, PTL DEF HSpec
===============================================================================
