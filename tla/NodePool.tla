------------------------------- MODULE NodePool -------------------------------
(***************************************************************************)
(* The pool outbound of easy_proxies (internal/outbound/pool): goroutines  *)
(* dial through a pool, the pool picks a member that is not blacklisted,   *)
(* and the outcome of the dial feeds the failure counter and the blacklist *)
(* of the node.  The counters live in a sharedMemberState, one per node    *)
(* tag, which every pool that contains the node uses (hybrid mode: one     *)
(* pool over all nodes and one single-member pool per node).  The monitor  *)
(* keeps a second copy of the blacklist and of the connection count, the   *)
(* entry, written after the lock of the shared state is released.          *)
(*                                                                         *)
(* A step is one critical section (p.mu is held over several steps, s.mu   *)
(* for one) or one atomic read or write of the code.                       *)
(***************************************************************************)
EXTENDS Integers, Sequences, FiniteSets

CONSTANTS
    Tags,        \* node tags, the keys of sharedStateStore
    Pools,       \* pool outbounds of the running instance
    Members,     \* Members[p]: the tags of p, in configuration order
    Mode,        \* Mode[p]: the scheduling mode of p
    UdpTags,     \* the nodes whose outbound also carries UDP
    Dialers,     \* goroutines: each dials, holds one connection, closes it
    Admins,      \* goroutines that release a node through the monitor API
    Threshold,   \* options.FailureThreshold
    Duration,    \* options.BlacklistDuration
    MaxClock,    \* bound: the clock stops here
    CounterSize, \* the round-robin counter counts modulo this (2^32 in the code)
    None

Modes == {"sequential", "random", "balance", "smart"}
Networks == {"tcp", "udp"}

ASSUME PoolAssumption ==
    /\ Members \in [Pools -> Seq(Tags)]
    /\ \A p \in Pools : Members[p] # << >>
    /\ Mode \in [Pools -> Modes]
    /\ UdpTags \subseteq Tags
    /\ IsFiniteSet(Dialers)
    /\ Dialers \cap Admins = {}
    /\ Threshold \in Nat \ {0}
    /\ Duration \in Nat \ {0}
    /\ MaxClock \in Nat
    /\ CounterSize \in Nat \ {0}
    /\ None \notin Tags \cup Pools \cup Dialers \cup Networks

VARIABLES
    \* sharedMemberState, by tag
    failures,    \* consecutive failures recorded by dials
    until,       \* blacklistedUntil, 0 when the node is not blacklisted
    active,      \* open connections and dials under way
    \* monitor entry, by tag
    entryUntil,  \* the monitor's copy of until
    entryActive, \* the monitor's copy of active
    \* pool outbound
    mu,          \* mu[p]: the dialer that holds p.mu, or None
    rrCounter,   \* rrCounter[p]: round-robin position
    \* goroutines
    pc,          \* where each dialer and each admin is
    pool,        \* the pool a dialer dials through
    net,         \* the network it asked for
    now,         \* the time it read on entry to pickMember
    rescan,      \* whether it is in the second availableMembersLocked
    idx,         \* loop index over the members or the candidates
    cand,        \* candidates collected so far
    minActive,   \* least active count met by the balance loop
    member,      \* the node chosen, held or being released
    deadline,    \* blacklist deadline still to be copied to the entry, or 0
    clock

sharedVars == <<failures, until, active>>
entryVars  == <<entryUntil, entryActive>>
pickVars   == <<pool, net, now, rescan, idx, cand, minActive>>
vars == <<sharedVars, entryVars, mu, rrCounter, pc, pickVars, member, deadline, clock>>

\* The labels a goroutine passes through.  In LockedLabels it holds p.mu; in
\* PickLabels it is inside pickMember and the locals of pickMember are live;
\* in ConnLabels it is bound to the member it picked.
LockedLabels ==
    {"scan", "scanExpired", "check", "free", "freeEntry"}
PickLabels ==
    LockedLabels \cup {"lock", "relock", "select", "balance", "refused"}
ConnLabels ==
    {"inc", "incEntry", "dialing", "decFailed", "decFailedEntry", "fail",
     "mark", "open", "decClosed", "decClosedEntry"}
DialerLabels == {"idle"} \cup PickLabels \cup ConnLabels
AdminLabels == {"idle", "freeEntry"}

Init ==
    /\ failures = [t \in Tags |-> 0]
    /\ until = [t \in Tags |-> 0]
    /\ active = [t \in Tags |-> 0]
    /\ entryUntil = [t \in Tags |-> 0]
    /\ entryActive = [t \in Tags |-> 0]
    /\ mu = [p \in Pools |-> None]
    /\ rrCounter = [p \in Pools |-> 0]
    /\ pc = [g \in Dialers \cup Admins |-> "idle"]
    /\ pool = [d \in Dialers |-> None]
    /\ net = [d \in Dialers |-> None]
    /\ now = [d \in Dialers |-> 0]
    /\ rescan = [d \in Dialers |-> FALSE]
    /\ idx = [d \in Dialers |-> 1]
    /\ cand = [d \in Dialers |-> << >>]
    /\ minActive = [d \in Dialers |-> 0]
    /\ member = [g \in Dialers \cup Admins |-> None]
    /\ deadline = [d \in Dialers |-> 0]
    /\ clock = 0

-----------------------------------------------------------------------------
(* Helpers.  A definition called Mutant... is a wrong form of the one after   *)
(* it, which no action uses: it is there to see that a property notices.      *)

Goto(g, label) == pc' = [pc EXCEPT ![g] = label]

Blacklisted(t) == until[t] # 0

\* Mutant: the blacklist ends one instant early (>= for After).
MutantExpired(d, t) == Blacklisted(t) /\ now[d] >= until[t]

\* Mutant: it ends one instant late.
MutantExpiresLate(d, t) == Blacklisted(t) /\ now[d] > until[t] + 1

\* isBlacklisted clears the flag when the time the caller read is past it.
Expired(d, t) == Blacklisted(t) /\ now[d] > until[t]

Supports(t, n) == n = "tcp" \/ t \in UdpTags

Current(d) == Members[pool[d]][idx[d]]
InLoop(d) == idx[d] <= Len(Members[pool[d]])

\* Mutants: the mutex is not taken; a return path without Unlock.
MutantLock(d) == UNCHANGED mu
MutantUnlock(d) == UNCHANGED mu

Lock(d)   == mu[pool[d]] = None /\ mu' = [mu EXCEPT ![pool[d]] = d]
Unlock(d) == mu' = [mu EXCEPT ![pool[d]] = None]

\* Mutant: a recycled buffer keeps the candidates of an earlier dial.
MutantResetBuffer(d) == UNCHANGED cand

\* A scan starts from buf[:0] of a buffer that goes back to the sync.Pool.
ResetBuffer(d) == cand' = [cand EXCEPT ![d] = << >>]

\* The locals of pickMember go away when it returns.
ReturnFromPick(d) ==
    /\ pool' = [pool EXCEPT ![d] = None]
    /\ net' = [net EXCEPT ![d] = None]
    /\ now' = [now EXCEPT ![d] = 0]
    /\ rescan' = [rescan EXCEPT ![d] = FALSE]
    /\ idx' = [idx EXCEPT ![d] = 1]
    /\ ResetBuffer(d)
    /\ minActive' = [minActive EXCEPT ![d] = 0]

\* The member under the loop index is not blacklisted: it is a candidate if
\* its outbound carries the network asked for.
AddCandidate(d) ==
    /\ cand' = [cand EXCEPT ![d] =
                  IF Supports(Current(d), net[d]) THEN Append(@, Current(d)) ELSE @]
    /\ idx' = [idx EXCEPT ![d] = @ + 1]

\* Mutants: an off-by-one in the threshold; a deadline added to a running one.
MutantTrips(t) == failures[t] + 1 > Threshold
MutantNewDeadline(t) == IF until[t] > clock THEN until[t] + Duration ELSE clock + Duration

\* recordFailure: does one more failure blacklist the node, and until when?
Trips(t) == failures[t] + 1 >= Threshold
NewDeadline(t) == clock + Duration

-----------------------------------------------------------------------------
(* pickMember: first critical section *)

\* DialContext or ListenPacket is called; pickMember reads the clock.
Dial(d) ==
    /\ pc[d] = "idle"
    /\ \E p \in Pools, n \in Networks :
          /\ pool' = [pool EXCEPT ![d] = p]
          /\ net' = [net EXCEPT ![d] = n]
    /\ now' = [now EXCEPT ![d] = clock]
    /\ Goto(d, "lock")
    /\ UNCHANGED <<sharedVars, entryVars, mu, rrCounter, rescan, idx, cand,
                   minActive, member, deadline, clock>>

LockForScan(d) ==
    /\ pc[d] = "lock"
    /\ Lock(d)
    /\ Goto(d, "scan")
    /\ UNCHANGED <<sharedVars, entryVars, rrCounter, pickVars, member, deadline, clock>>

\* One turn of availableMembersLocked, up to the unlock of s.mu.
ScanMember(d) ==
    /\ pc[d] = "scan"
    /\ InLoop(d)
    /\ \/ /\ Expired(d, Current(d))
          /\ until' = [until EXCEPT ![Current(d)] = 0]
          /\ Goto(d, "scanExpired")
          /\ UNCHANGED <<idx, cand>>
       \/ /\ Blacklisted(Current(d))
          /\ ~Expired(d, Current(d))
          /\ idx' = [idx EXCEPT ![d] = @ + 1]
          /\ UNCHANGED <<until, cand, pc>>
       \/ /\ ~Blacklisted(Current(d))
          /\ AddCandidate(d)
          /\ UNCHANGED <<until, pc>>
    /\ UNCHANGED <<failures, active, entryVars, mu, rrCounter, pool, net, now,
                   rescan, minActive, member, deadline, clock>>

\* The rest of the turn for a blacklist that had expired: the entry's copy is
\* cleared outside s.mu.
ClearExpired(d) ==
    /\ pc[d] = "scanExpired"
    /\ entryUntil' = [entryUntil EXCEPT ![Current(d)] = 0]
    /\ AddCandidate(d)
    /\ Goto(d, "scan")
    /\ UNCHANGED <<sharedVars, entryActive, mu, rrCounter, pool, net, now,
                   rescan, minActive, member, deadline, clock>>

\* End of the loop: p.mu is released; without a candidate the first scan goes
\* on to releaseIfAllBlacklistedLocked and the second one gives up.
EndScan(d) ==
    /\ pc[d] = "scan"
    /\ ~InLoop(d)
    /\ Unlock(d)
    /\ idx' = [idx EXCEPT ![d] = 1]
    /\ \/ cand[d] # << >> /\ Goto(d, "select")
       \/ cand[d] = << >> /\ ~rescan[d] /\ Goto(d, "relock")
       \/ cand[d] = << >> /\ rescan[d] /\ Goto(d, "refused")
    /\ UNCHANGED <<sharedVars, entryVars, rrCounter, pool, net, now, rescan,
                   cand, minActive, member, deadline, clock>>

-----------------------------------------------------------------------------
(* pickMember: second critical section, releaseIfAllBlacklistedLocked *)

LockForRelease(d) ==
    /\ pc[d] = "relock"
    /\ Lock(d)
    /\ Goto(d, "check")
    /\ UNCHANGED <<sharedVars, entryVars, rrCounter, pickVars, member, deadline, clock>>

\* One turn of the loop that looks for a member that is not blacklisted; one
\* is enough to give up.  isBlacklisted finds none expired here: the scan
\* cleared those, with the same now (CheckSeesNoneExpired).
CheckMember(d) ==
    /\ pc[d] = "check"
    /\ InLoop(d)
    /\ \/ /\ Blacklisted(Current(d))
          /\ idx' = [idx EXCEPT ![d] = @ + 1]
          /\ UNCHANGED <<mu, pc>>
       \/ /\ ~Blacklisted(Current(d))
          /\ Unlock(d)
          /\ Goto(d, "refused")
          /\ UNCHANGED idx
    /\ UNCHANGED <<sharedVars, entryVars, rrCounter, pool, net, now,
                   rescan, cand, minActive, member, deadline, clock>>

EndCheck(d) ==
    /\ pc[d] = "check"
    /\ ~InLoop(d)
    /\ idx' = [idx EXCEPT ![d] = 1]
    /\ Goto(d, "free")
    /\ UNCHANGED <<sharedVars, entryVars, mu, rrCounter, pool, net, now, rescan,
                   cand, minActive, member, deadline, clock>>

\* forceRelease of the next member, first under s.mu, then in the entry.
FreeMember(d) ==
    /\ pc[d] = "free"
    /\ InLoop(d)
    /\ failures' = [failures EXCEPT ![Current(d)] = 0]
    /\ until' = [until EXCEPT ![Current(d)] = 0]
    /\ Goto(d, "freeEntry")
    /\ UNCHANGED <<active, entryVars, mu, rrCounter, pickVars, member, deadline, clock>>

FreeEntry(d) ==
    /\ pc[d] = "freeEntry"
    /\ entryUntil' = [entryUntil EXCEPT ![Current(d)] = 0]
    /\ idx' = [idx EXCEPT ![d] = @ + 1]
    /\ Goto(d, "free")
    /\ UNCHANGED <<sharedVars, entryActive, mu, rrCounter, pool, net, now, rescan,
                   cand, minActive, member, deadline, clock>>

\* Everything is released: scan again, p.mu still held.
EndFree(d) ==
    /\ pc[d] = "free"
    /\ ~InLoop(d)
    /\ idx' = [idx EXCEPT ![d] = 1]
    /\ rescan' = [rescan EXCEPT ![d] = TRUE]
    /\ Goto(d, "scan")
    /\ UNCHANGED <<sharedVars, entryVars, mu, rrCounter, pool, net, now, cand,
                   minActive, member, deadline, clock>>

\* "no healthy proxy available" reaches the caller.
Refuse(d) ==
    /\ pc[d] = "refused"
    /\ ReturnFromPick(d)
    /\ Goto(d, "idle")
    /\ UNCHANGED <<sharedVars, entryVars, mu, rrCounter, member, deadline, clock>>

-----------------------------------------------------------------------------
(* selectMember *)

Choose(d, t) ==
    /\ member' = [member EXCEPT ![d] = t]
    /\ ReturnFromPick(d)
    /\ Goto(d, "inc")

SelectSequential(d) ==
    /\ pc[d] = "select"
    /\ Mode[pool[d]] = "sequential"
    /\ rrCounter' = [rrCounter EXCEPT ![pool[d]] = (@ + 1) % CounterSize]
    /\ Choose(d, cand[d][(rrCounter[pool[d]] % Len(cand[d])) + 1])
    /\ UNCHANGED <<sharedVars, entryVars, mu, deadline, clock>>

\* random, and smart: every weight 10000 / (latency + 10) is positive, so
\* every candidate can be drawn.
SelectRandom(d) ==
    /\ pc[d] = "select"
    /\ Mode[pool[d]] \in {"random", "smart"}
    /\ \E i \in DOMAIN cand[d] : Choose(d, cand[d][i])
    /\ UNCHANGED <<sharedVars, entryVars, mu, rrCounter, deadline, clock>>

\* balance reads the active counters one after the other, with no lock.
SelectBalance(d) ==
    /\ pc[d] = "select"
    /\ Mode[pool[d]] = "balance"
    /\ Goto(d, "balance")
    /\ UNCHANGED <<sharedVars, entryVars, mu, rrCounter, pickVars, member, deadline, clock>>

BalanceMember(d) ==
    /\ pc[d] = "balance"
    /\ idx[d] <= Len(cand[d])
    /\ LET t == cand[d][idx[d]] IN
          IF member[d] = None \/ active[t] < minActive[d]
          THEN /\ member' = [member EXCEPT ![d] = t]
               /\ minActive' = [minActive EXCEPT ![d] = active[t]]
          ELSE UNCHANGED <<member, minActive>>
    /\ idx' = [idx EXCEPT ![d] = @ + 1]
    /\ UNCHANGED <<sharedVars, entryVars, mu, rrCounter, pc, pool, net, now,
                   rescan, cand, deadline, clock>>

EndBalance(d) ==
    /\ pc[d] = "balance"
    /\ idx[d] > Len(cand[d])
    /\ Choose(d, member[d])
    /\ UNCHANGED <<sharedVars, entryVars, mu, rrCounter, deadline, clock>>

-----------------------------------------------------------------------------
(* DialContext: the dial, its outcome, the connection *)

IncShared(d) ==
    /\ pc[d] = "inc"
    /\ active' = [active EXCEPT ![member[d]] = @ + 1]
    /\ Goto(d, "incEntry")
    /\ UNCHANGED <<failures, until, entryVars, mu, rrCounter, pickVars, member,
                   deadline, clock>>

IncEntry(d) ==
    /\ pc[d] = "incEntry"
    /\ entryActive' = [entryActive EXCEPT ![member[d]] = @ + 1]
    /\ Goto(d, "dialing")
    /\ UNCHANGED <<sharedVars, entryUntil, mu, rrCounter, pickVars, member,
                   deadline, clock>>

\* Mutant: the error path forgets decActive.
MutantDialFails(d) ==
    /\ pc[d] = "dialing"
    /\ Goto(d, "fail")
    /\ UNCHANGED <<sharedVars, entryVars, mu, rrCounter, pickVars, member,
                   deadline, clock>>

DialFails(d) ==
    /\ pc[d] = "dialing"
    /\ Goto(d, "decFailed")
    /\ UNCHANGED <<sharedVars, entryVars, mu, rrCounter, pickVars, member,
                   deadline, clock>>

\* Mutant: recordSuccess of an old dial lifts the blacklist as well.
MutantDialSucceeds(d) ==
    /\ pc[d] = "dialing"
    /\ failures' = [failures EXCEPT ![member[d]] = 0]
    /\ until' = [until EXCEPT ![member[d]] = 0]
    /\ Goto(d, "open")
    /\ UNCHANGED <<active, entryVars, mu, rrCounter, pickVars, member,
                   deadline, clock>>

\* The dial succeeds: recordSuccess resets the failure counter, the caller
\* gets a trackedConn.
DialSucceeds(d) ==
    /\ pc[d] = "dialing"
    /\ failures' = [failures EXCEPT ![member[d]] = 0]
    /\ Goto(d, "open")
    /\ UNCHANGED <<until, active, entryVars, mu, rrCounter, pickVars, member,
                   deadline, clock>>

\* trackedConn.Close: the first call runs release (sync.Once), later ones do not.
Close(d) ==
    /\ pc[d] = "open"
    /\ Goto(d, "decClosed")
    /\ UNCHANGED <<sharedVars, entryVars, mu, rrCounter, pickVars, member,
                   deadline, clock>>

DecShared(d) ==
    /\ \/ pc[d] = "decFailed" /\ Goto(d, "decFailedEntry")
       \/ pc[d] = "decClosed" /\ Goto(d, "decClosedEntry")
    /\ active' = [active EXCEPT ![member[d]] = @ - 1]
    /\ UNCHANGED <<failures, until, entryVars, mu, rrCounter, pickVars, member,
                   deadline, clock>>

DecEntry(d) ==
    /\ \/ /\ pc[d] = "decFailedEntry"
          /\ Goto(d, "fail")
          /\ UNCHANGED member
       \/ /\ pc[d] = "decClosedEntry"
          /\ Goto(d, "idle")
          /\ member' = [member EXCEPT ![d] = None]
    /\ entryActive' = [entryActive EXCEPT ![member[d]] = @ - 1]
    /\ UNCHANGED <<sharedVars, entryUntil, mu, rrCounter, pickVars, deadline, clock>>

\* recordFailure under s.mu: the counter reaches the threshold and the node
\* is blacklisted, or it grows.
RecordFailure(d) ==
    /\ pc[d] = "fail"
    /\ LET t == member[d] IN
       \/ /\ Trips(t)
          /\ failures' = [failures EXCEPT ![t] = 0]
          /\ until' = [until EXCEPT ![t] = NewDeadline(t)]
          /\ deadline' = [deadline EXCEPT ![d] = NewDeadline(t)]
          /\ Goto(d, "mark")
          /\ UNCHANGED member
       \/ /\ ~Trips(t)
          /\ failures' = [failures EXCEPT ![t] = @ + 1]
          /\ Goto(d, "idle")
          /\ member' = [member EXCEPT ![d] = None]
          /\ UNCHANGED <<until, deadline>>
    /\ UNCHANGED <<active, entryVars, mu, rrCounter, pickVars, clock>>

\* entry.Blacklist, after s.mu was released.
MarkEntry(d) ==
    /\ pc[d] = "mark"
    /\ entryUntil' = [entryUntil EXCEPT ![member[d]] = deadline[d]]
    /\ deadline' = [deadline EXCEPT ![d] = 0]
    /\ member' = [member EXCEPT ![d] = None]
    /\ Goto(d, "idle")
    /\ UNCHANGED <<sharedVars, entryActive, mu, rrCounter, pickVars, clock>>

-----------------------------------------------------------------------------
(* Probes and the release button *)

\* A health probe that succeeds calls recordSuccessWithLatency; a failed one
\* leaves the shared state alone.
ProbeSucceeds(t) ==
    /\ failures' = [failures EXCEPT ![t] = 0]
    /\ UNCHANGED <<until, active, entryVars, mu, rrCounter, pc, pickVars,
                   member, deadline, clock>>

\* POST /api/nodes/{tag}/release: forceRelease, under s.mu and then in the entry.
Release(a) ==
    /\ pc[a] = "idle"
    /\ \E t \in Tags :
          /\ failures' = [failures EXCEPT ![t] = 0]
          /\ until' = [until EXCEPT ![t] = 0]
          /\ member' = [member EXCEPT ![a] = t]
    /\ Goto(a, "freeEntry")
    /\ UNCHANGED <<active, entryVars, mu, rrCounter, pickVars, deadline, clock>>

ReleaseEntry(a) ==
    /\ pc[a] = "freeEntry"
    /\ entryUntil' = [entryUntil EXCEPT ![member[a]] = 0]
    /\ member' = [member EXCEPT ![a] = None]
    /\ Goto(a, "idle")
    /\ UNCHANGED <<sharedVars, entryActive, mu, rrCounter, pickVars, deadline, clock>>

Tick ==
    /\ clock < MaxClock
    /\ clock' = clock + 1
    /\ UNCHANGED <<sharedVars, entryVars, mu, rrCounter, pc, pickVars, member, deadline>>

-----------------------------------------------------------------------------
\* What a goroutine inside pickMember does next without waiting for a peer.
PickStep(d) ==
    \/ LockForScan(d) \/ ScanMember(d) \/ ClearExpired(d) \/ EndScan(d)
    \/ LockForRelease(d) \/ CheckMember(d) \/ EndCheck(d)
    \/ FreeMember(d) \/ FreeEntry(d) \/ EndFree(d) \/ Refuse(d)
    \/ SelectSequential(d) \/ SelectRandom(d)
    \/ SelectBalance(d) \/ BalanceMember(d) \/ EndBalance(d)

ConnStep(d) ==
    \/ IncShared(d) \/ IncEntry(d) \/ DialFails(d) \/ DialSucceeds(d) \/ Close(d)
    \/ DecShared(d) \/ DecEntry(d) \/ RecordFailure(d) \/ MarkEntry(d)

Next ==
    \/ \E d \in Dialers : Dial(d) \/ PickStep(d) \/ ConnStep(d)
    \/ \E t \in Tags : ProbeSucceeds(t)
    \/ \E a \in Admins : Release(a) \/ ReleaseEntry(a)
    \/ Tick

Spec == Init /\ [][Next]_vars

-----------------------------------------------------------------------------
(* Fairness *)

\* Every goroutine runs on.  A Go mutex hands itself to a waiter that has
\* waited for a millisecond (starvation mode), so a lock that is free again
\* and again is obtained: strong fairness for the two Lock calls.  Nothing is
\* assumed of the callers (Dial, Close, Release), of the network (a dial may
\* hang), of probes or of the clock.
Fairness ==
    /\ \A d \in Dialers :
          /\ SF_vars(LockForScan(d))
          /\ SF_vars(LockForRelease(d))
          /\ WF_vars(PickStep(d))
          /\ WF_vars(pc[d] \notin {"dialing", "open"} /\ ConnStep(d))
    /\ \A a \in Admins : WF_vars(ReleaseEntry(a))

FairSpec == Spec /\ Fairness

-----------------------------------------------------------------------------
(* Invariants *)

TypeShared ==
    /\ failures \in [Tags -> 0 .. Threshold - 1]
    /\ until \in [Tags -> Nat]
    /\ active \in [Tags -> Int]
    /\ clock \in Nat
TypeEntry ==
    /\ entryUntil \in [Tags -> Nat]
    /\ entryActive \in [Tags -> Int]
    /\ deadline \in [Dialers -> Nat]
TypePool ==
    /\ mu \in [Pools -> Dialers \cup {None}]
    /\ rrCounter \in [Pools -> 0 .. CounterSize - 1]
TypeControl ==
    /\ pc \in [Dialers \cup Admins -> DialerLabels]
    /\ \A a \in Admins : pc[a] \in AdminLabels
    /\ member \in [Dialers \cup Admins -> Tags \cup {None}]
TypePick ==
    /\ pool \in [Dialers -> Pools \cup {None}]
    /\ net \in [Dialers -> Networks \cup {None}]
    /\ now \in [Dialers -> Nat]
    /\ rescan \in [Dialers -> BOOLEAN]
    /\ idx \in [Dialers -> Nat \ {0}]
    /\ cand \in [Dialers -> Seq(Tags)]
    /\ minActive \in [Dialers -> Int]
TypeOK == TypeShared /\ TypeEntry /\ TypePool /\ TypeControl /\ TypePick

\* p.mu is held by exactly the goroutine that is between its Lock and its
\* Unlock on every path of pickMember, early returns included.
LockOwnership ==
    \A p \in Pools, d \in Dialers :
        mu[p] = d <=> pc[d] \in LockedLabels /\ pool[d] = p

\* The goroutines that have counted themselves in a node's active counter, and
\* in the monitor's copy of it, and have not yet counted themselves out.
Holders(t) ==
    {d \in Dialers : /\ member[d] = t
                     /\ pc[d] \in {"incEntry", "dialing", "decFailed", "open",
                                   "decClosed"}}
EntryHolders(t) ==
    {d \in Dialers : /\ member[d] = t
                     /\ pc[d] \in {"dialing", "decFailed", "decFailedEntry",
                                   "open", "decClosed", "decClosedEntry"}}

\* Whatever dials do and however they end, the two connection counters of a
\* node are the numbers of goroutines inside an inc/dec pair: balance mode
\* never schedules on a leaked or a negative count (incActive, decActive,
\* trackedConn.Close).
ActiveAccounting ==
    \A t \in Tags :
        /\ active[t] = Cardinality(Holders(t))
        /\ entryActive[t] = Cardinality(EntryHolders(t))

\* A blacklist, and the monitor's copy of one, ends at most Duration from now,
\* whatever was recorded, copied late or released meanwhile.
BlacklistBounded ==
    \A t \in Tags :
        /\ until[t] <= clock + Duration
        /\ entryUntil[t] <= clock + Duration

\* releaseIfAllBlacklistedLocked, "All blacklisted, force release all": when
\* the goroutine has checked every member and starts to release them, every
\* one of them is blacklisted.  Holding p.mu for the check and the release is
\* what makes this true between dials of one pool; another pool of the same
\* node, or the release button, may free one in between, which does no harm.
ReleaseOnlyWhenAllBlacklisted ==
    \A d \in Dialers :
        pc[d] = "free" /\ idx[d] = 1 =>
            \A i \in DOMAIN Members[pool[d]] : Blacklisted(Members[pool[d]][i])

\* The check of the second critical section, made with a clock reading from
\* before the first, meets no blacklist that is over: what the scan left is
\* still running, and what was recorded since ends later.
CheckSeesNoneExpired ==
    \A d \in Dialers : pc[d] = "check" =>
        \A i \in DOMAIN Members[pool[d]] :
            LET t == Members[pool[d]][i] IN until[t] = 0 \/ until[t] >= now[d]

\* "no healthy proxy available": a TCP dial is refused only at a moment when
\* every member of its pool is blacklisted.
RefusedOnlyWhenNoneHealthy ==
    [][\A d \in Dialers :
          pc[d] # "refused" /\ pc'[d] = "refused" /\ net[d] = "tcp" =>
              \A i \in DOMAIN Members[pool[d]] : until'[Members[pool[d]][i]] # 0]_vars

-----------------------------------------------------------------------------
(* Action properties *)

\* A node leaves the blacklist before its deadline only through the release
\* button or through a goroutine that found every member of its pool
\* blacklisted; a dial of a pool never frees a node of another pool.
LiftedEarly(t) == until[t] # 0 /\ until'[t] = 0 /\ clock <= until[t]
NoEarlyRelease ==
    [][\A t \in Tags : LiftedEarly(t) =>
          \/ \E a \in Admins : pc[a] = "idle" /\ member'[a] = t
          \/ \E d \in Dialers : /\ pc[d] = "free" /\ InLoop(d)
                                /\ t = Current(d)]_vars

-----------------------------------------------------------------------------
(* Liveness *)

\* A dial gets its member or its refusal: no interleaving of the two critical
\* sections of pickMember, of other pools and of releases leaves it waiting.
PickTerminates ==
    \A d \in Dialers : pc[d] = "lock" ~> pc[d] \in {"inc", "idle"}

-----------------------------------------------------------------------------
(* Refinement *)

Breaker == INSTANCE CircuitBreaker
           WITH failures <- failures, until <- until, clock <- clock,
                Tags <- Tags, Threshold <- Threshold,
                Duration <- Duration, MaxClock <- MaxClock

\* Seen through failures, until and clock, the pools with their locks, loops,
\* stale clock readings and copies are one atomic circuit breaker per node.
BreakerSpec == Breaker!Spec
===============================================================================
