----------------------------- MODULE MonitorProofs -----------------------------
(***************************************************************************)
(* Proofs about Monitor, for all nodes, configurations, modes and bounds:  *)
(* type correctness with the worker slots, that the monitor lists what is  *)
(* served, that its functions reach the instance that runs, and that all   *)
(* pools and functions of a node share one state.                          *)
(***************************************************************************)
EXTENDS Monitor, SequenceTheorems, FiniteSetTheorems, TLAPS

\* The sets the variables stay in.
Entry == [gen : Nat \ {0}, shown : {"unchecked", "yes", "no"},
          probe : Function, release : Function]

Instance == [nodes : Configs, gen : Nat \ {0}, held : [Pools -> Seq(Nat \ {0})],
             started : SUBSET Pools, up : BOOLEAN]

InitCalls == [inst : Nat \ {0}, pool : Pools, states : Seq(Nat \ {0}),
              step : {"acquire", "load", "write", "release", "probe"}, gen : Nat]

Loads == [pc : {"idle", "reset", "bump", "create", "register", "start"},
          what : {"none", "start", "reload", "rollback"},
          nodes : Seq(Tags), old : Seq(Tags), inst : Nat, pools : Seq(Pools),
          member : Nat \ {0}, at : {"entry", "release", "probe", "members"}]

Checks == [pc : {"off", "first", "listed", "round", "wait"}, todo : SUBSET Tags, gen : Nat,
           call : {None} \cup Calls, slots : Int]

Shapes ==
    /\ generation \in Nat \ {0} /\ epoch \in Nat \ {0}
    /\ entries \in [Tags -> {None} \cup Entry]
    /\ inst \in Seq(Instance)
    /\ inits \subseteq InitCalls
    /\ running \in 0 .. Len(inst)
    /\ ld \in Loads
    /\ check \in Checks
    /\ probes \subseteq Calls
    /\ stray \in BOOLEAN

\* The pools of an instance.
PoolsIn(i) == Range(PoolsOf(inst[i].nodes))

\* The goroutine that loads: it works on the newest instance, and nothing is
\* published meanwhile.
LoadInv ==
    /\ ld.pc # "idle" => ld.nodes \in Configs
    /\ ld.what = "reload" => ld.old \in Configs
    /\ running # 0 => ld.pc = "idle"
    /\ ld.pc # "register" => ld.member = 1
    /\ ld.pc \in {"register", "start"} <=> ld.inst # 0
    /\ ld.inst = 0 => ld.at = "entry"
    /\ ld.inst # 0 =>
           /\ ld.inst = Len(inst)
           /\ inst[ld.inst].nodes = ld.nodes
           /\ Range(ld.pools) \subseteq Range(PoolsOf(ld.nodes))
    /\ ld.pc = "register" =>
           /\ ld.pools # <<>> /\ ld.member <= Len(Members(Pool, ld.nodes))
           /\ ld.at # "members" /\ (ld.at # "entry" => entries[Member] # None)
    /\ ld.pc = "start" => ld.at \in {"entry", "members"} /\ (ld.at = "members" => ld.pools # <<>>)

\* Every generation and every epoch has an instance of its own.
Counters ==
    /\ Len(inst) <= MaxInstances
    /\ ld.pc \in {"reset", "bump", "create"} => Len(inst) < MaxInstances
    /\ generation <= Len(inst) + (IF ld.pc = "create" THEN 1 ELSE 0)
    /\ epoch <= Len(inst) + (IF ld.pc \in {"bump", "create"} THEN 1 ELSE 0)

\* The instance that runs or is being started; it is of this generation.
Newest == IF running # 0 THEN running ELSE ld.inst

\* The pools that are still to be started, or registered and started.
Waiting ==
    CASE ld.pc = "start"    -> Range(ld.pools)
      [] ld.pc = "register" -> Range(PoolsOf(ld.nodes))
      [] OTHER              -> {}

\* A pool is started with as many states as it has members.
InstanceInv(i) ==
    /\ inst[i].gen <= generation
    /\ \A p \in Pools :
          /\ inst[i].held[p] \in Seq(1 .. epoch)
          /\ inst[i].held[p] = <<>> \/ Len(inst[i].held[p]) = Len(Members(p, inst[i].nodes))
    /\ \A p \in inst[i].started : inst[i].held[p] # <<>>
    /\ i = Newest => inst[i].gen = generation
    /\ i = running => inst[i].up
    /\ i = ld.inst => ~inst[i].up /\ PoolsIn(i) \subseteq inst[i].started \cup Waiting
    /\ inst[i].up => PoolsIn(i) \subseteq inst[i].started
    /\ inst[i].up /\ inst[i].gen = generation => i = running \/ ld.pc \in {"reset", "bump"}

\* A function is of a pool of an instance, which has the node.
FunctionOk(f, t) ==
    f.inst # 0 =>
        /\ f.inst \in 1 .. Len(inst) /\ f.pool \in PoolsIn(f.inst)
        /\ t \in Range(Members(f.pool, inst[f.inst].nodes))

EntryInv(t) ==
    entries[t] # None =>
        /\ entries[t].gen <= generation
        /\ FunctionOk(entries[t].probe, t) /\ FunctionOk(entries[t].release, t)

CallInv(c) == entries[c.tag] # None /\ c.func.inst # 0 /\ FunctionOk(c.func, c.tag)

\* A pool whose members are being initialised has none; the calls of it wait
\* for its mutex.
InitInv(m) ==
    /\ m.inst \in 1 .. Len(inst) /\ m.pool \in PoolsIn(m.inst)
    /\ inst[m.inst].held[m.pool] = <<>>
    /\ m.states \in Seq(1 .. epoch) /\ Len(m.states) \in 1 .. Len(MembersOf(m))
    /\ m.gen <= generation
    /\ m.step = "acquire" => Len(m.states) < Len(MembersOf(m))
    /\ m.step = "write" => m.gen # 0
    /\ m.step \in {"release", "probe"} => entries[Current(m)] # None

OneEach == \A m, n \in inits : m.inst = n.inst /\ m.pool = n.pool => m = n

CheckProbes == {pr \in probes : pr.by = "check"}

\* A worker of the round for every slot that is taken, none left over from the
\* round before, and none for a node that is still to be probed.
CheckInv ==
    /\ check.gen <= generation
    /\ \A t \in check.todo : entries[t] # None
    /\ check.pc # "round" => check.call = None /\ CheckProbes = {}
    /\ check.call # None =>
          /\ check.call.by = "check" /\ CallInv(check.call)
          /\ check.call.tag \notin check.todo
    /\ IsFiniteSet(CheckProbes) /\ check.slots = Cardinality(CheckProbes) /\ check.slots <= Limit
    /\ \A pr \in CheckProbes :
          pr.tag \notin check.todo /\ (check.call # None => pr.tag # check.call.tag)

\* The nodes that the pools of the instance have yet to give their functions to.
Pending(t) ==
    /\ ld.pc = "register"
    /\ \E j \in 1 .. Len(ld.pools) :
           \E k \in (IF j = 1 THEN ld.member ELSE 1) .. Len(Members(ld.pools[j], ld.nodes)) :
               t = Members(ld.pools[j], ld.nodes)[k]

\* The nodes of the newest instance that have got their functions from it.
Linked(t) == Newest # 0 /\ t \in Range(inst[Newest].nodes) /\ ~Pending(t)

Base ==
    /\ Shapes /\ LoadInv /\ Counters
    /\ \A i \in 1 .. Len(inst) : InstanceInv(i)
    /\ \A t \in Tags : EntryInv(t)
    /\ \A pr \in probes : CallInv(pr)
    /\ \A m \in inits : InitInv(m)
    /\ OneEach /\ CheckInv
    /\ \A t \in Tags : Linked(t) => entries[t] # None

\* Pools and calls of the newest instance hold the states of this epoch.
SharesEpoch ==
    Newest # 0 =>
        /\ \A p \in Pools : inst[Newest].held[p] \in Seq({epoch})
        /\ \A m \in inits : m.inst = Newest => m.states \in Seq({epoch})

\* Nothing stray: the calls under way are of the newest instance or, between two
\* attempts, of one of this generation.
NoStray ==
    ~stray =>
        \A m \in inits : /\ Newest # 0 => m.inst = Newest
                         /\ inst[m.inst].gen = generation /\ m.gen \in {0, generation}

\* What an entry has to have for the newest instance.
GoodGen(t)  == entries[t] # None /\ entries[t].gen = generation
Good(f)     == f.inst = Newest /\ f.state \in {0, epoch}

LinkedInv ==
    ~stray /\ Newest # 0 =>
        /\ \A t \in Tags : Linked(t) =>
              GoodGen(t) /\ Good(entries[t].probe) /\ Good(entries[t].release)
        /\ ld.pc = "register" =>
              /\ ld.at # "entry" => GoodGen(Member)
              /\ ld.at = "probe" => Good(entries[Member].release)

ListsInv ==
    ~stray => \A t \in Listed :
        \E i \in 1 .. Len(inst) : inst[i].gen = generation /\ t \in Range(inst[i].nodes)

Safe == Base /\ SharesEpoch /\ NoStray /\ LinkedInv /\ ListsInv

-----------------------------------------------------------------------------
(* Sequences and nodes *)

\* The elements of a sequence are its head and those of its tail.
LEMMA RangeOfTail ==
    ASSUME NEW S, NEW s \in Seq(S), s # <<>>
    PROVE  /\ Head(s) \in S /\ Tail(s) \in Seq(S) /\ Head(s) = s[1] /\ Len(s) \in Nat \ {0}
           /\ Range(s) = {Head(s)} \cup Range(Tail(s))
<1>1. /\ Head(s) \in S /\ Tail(s) \in Seq(S) /\ Head(s) = s[1]
      /\ Len(s) \in Nat \ {0} /\ Len(Tail(s)) = Len(s) - 1
      /\ \A i \in 1 .. Len(Tail(s)) : Tail(s)[i] = s[i + 1]
  BY HeadTailProperties, EmptySeq
<1>2. /\ Range(s) = {s[i] : i \in 1 .. Len(s)}
      /\ Range(Tail(s)) = {Tail(s)[i] : i \in 1 .. Len(Tail(s))}
  <2>1. \A q \in Seq(S) : Range(q) = {q[i] : i \in 1 .. Len(q)}
    BY RangeEquality
  <2> QED
    BY <1>1, <2>1
<1>3. ASSUME NEW x \in Range(s) PROVE x \in {Head(s)} \cup Range(Tail(s))
  <2>1. PICK i \in 1 .. Len(s) : x = s[i]
    BY <1>2
  <2>2. CASE i = 1
    BY <1>1, <2>1, <2>2
  <2>3. CASE i # 1
    <3>1. i - 1 \in 1 .. Len(Tail(s)) /\ Tail(s)[i - 1] = s[i]
      BY <1>1, <2>3
    <3> QED
      BY <1>2, <2>1, <3>1
  <2> QED
    BY <2>2, <2>3
<1>4. ASSUME NEW x \in {Head(s)} \cup Range(Tail(s)) PROVE x \in Range(s)
  <2>1. CASE x = Head(s)
    BY <1>1, <1>2, <2>1
  <2>2. CASE x # Head(s)
    <3>1. PICK i \in 1 .. Len(Tail(s)) : x = Tail(s)[i]
      BY <1>2, <1>4, <2>2
    <3>2. i + 1 \in 1 .. Len(s) /\ x = s[i + 1]
      BY <1>1, <3>1
    <3> QED
      BY <1>2, <3>2
  <2> QED
    BY <2>1, <2>2
<1> QED
  BY <1>1, <1>3, <1>4

\* The pools over a list of nodes, and the members of each: between them they
\* have all the nodes.
LEMMA PoolsOfTypes ==
    ASSUME NEW nodes \in Configs
    PROVE  /\ nodes \in Seq(Tags) /\ Range(nodes) \subseteq Tags
           /\ PoolsOf(nodes) \in Seq(Pools) /\ PoolsOf(nodes) # <<>>
           /\ Range(PoolsOf(nodes)) \subseteq Pools
           /\ \A p \in Range(PoolsOf(nodes)) :
                  /\ Members(p, nodes) \in Seq(Tags) /\ Len(Members(p, nodes)) \in Nat \ {0}
                  /\ Range(Members(p, nodes)) \subseteq Range(nodes)
           /\ \A t \in Range(nodes) :
                  \E p \in Range(PoolsOf(nodes)) : t \in Range(Members(p, nodes))
<1>1. /\ nodes \in Seq(Tags) /\ nodes # <<>> /\ nodes \in Seq(Pools)
      /\ Len(nodes) \in Nat \ {0} /\ Range(nodes) \subseteq Tags
  <2>1. nodes \in Seq(Tags) /\ nodes # <<>>
    BY MonitorAssumption
  <2>2. nodes \in Seq(Pools)
    BY <2>1, SeqMonotonic DEF Pools
  <2> QED
    BY <2>1, <2>2, EmptySeq, RangeOfSeq
<1>2. /\ <<All>> \in Seq(Pools) /\ <<>> \in Seq(Pools)
      /\ Range(<<All>>) = {All} /\ Range(<<>>) = {}
  BY DEF Pools, Range
<1> DEFINE front == IF Mode # "multi-port" THEN <<All>> ELSE <<>>
           back == IF Mode # "pool" THEN nodes ELSE <<>>
<1>3. front \in Seq(Pools) /\ back \in Seq(Pools)
  BY <1>1, <1>2
<1>4. /\ PoolsOf(nodes) \in Seq(Pools)
      /\ Range(PoolsOf(nodes)) = Range(front) \cup Range(back)
  <2>1. PoolsOf(nodes) = front \o back
    BY DEF PoolsOf
  <2> HIDE DEF front, back
  <2>2. front \o back \in Seq(Pools)
    BY <1>3, ConcatProperties
  <2>3. Range(front \o back) = Range(front) \cup Range(back)
    BY <1>3, RangeConcatenation
  <2> QED
    BY <2>1, <2>2, <2>3
<1>5. PoolsOf(nodes) # <<>>
  <2>1. front # <<>> \/ back # <<>>
    BY <1>1
  <2> HIDE DEF front, back
  <2>2. front \o back # <<>>
    BY <1>3, <2>1, ConcatProperties, EmptySeq, LenProperties
  <2> QED
    BY <2>2 DEF PoolsOf, front, back
<1>6. /\ Range(PoolsOf(nodes)) \subseteq Pools
      /\ Range(PoolsOf(nodes)) \subseteq {All} \cup Range(nodes)
      /\ All \in Range(PoolsOf(nodes)) \/ Range(nodes) \subseteq Range(PoolsOf(nodes))
  BY MonitorAssumption, <1>1, <1>2, <1>4 DEF Pools
<1>7. \A t \in Tags : /\ Members(t, nodes) = <<t>> /\ <<t>> \in Seq(Tags) /\ Len(<<t>>) = 1
                      /\ Range(<<t>>) = {t}
  BY MonitorAssumption DEF Members, Range
<1>8. Members(All, nodes) = nodes
  BY DEF Members
<1>9. ASSUME NEW p \in Range(PoolsOf(nodes))
      PROVE  /\ Members(p, nodes) \in Seq(Tags) /\ Len(Members(p, nodes)) \in Nat \ {0}
             /\ Range(Members(p, nodes)) \subseteq Range(nodes)
  <2>1. CASE p = All
    BY <1>1, <1>8, <2>1
  <2>2. CASE p # All
    <3>1. p \in Range(nodes) /\ p \in Tags
      BY <1>1, <1>6, <2>2
    <3>2. Members(p, nodes) \in Seq(Tags) /\ Len(Members(p, nodes)) = 1
      BY <1>7, <3>1
    <3>3. Range(Members(p, nodes)) = {p}
      BY <1>7, <3>1
    <3> QED
      BY <3>1, <3>2, <3>3
  <2> QED
    BY <2>1, <2>2
<1>10. ASSUME NEW t \in Range(nodes)
       PROVE  \E p \in Range(PoolsOf(nodes)) : t \in Range(Members(p, nodes))
  <2>1. CASE All \in Range(PoolsOf(nodes))
    BY <1>8, <2>1
  <2>2. CASE t \in Range(PoolsOf(nodes))
    <3>1. t \in Range(Members(t, nodes))
      BY <1>1, <1>7
    <3> QED
      BY <2>2, <3>1
  <2> QED
    BY <1>6, <2>1, <2>2
<1> HIDE DEF front, back
<1> QED
  BY <1>1, <1>4, <1>5, <1>6, <1>9, <1>10, Zenon

-----------------------------------------------------------------------------
(* What the invariant says of the parts a step deals with *)

\* A sequence over a set is one over a larger set.
LEMMA SeqGrows ==
    ASSUME NEW S, NEW T, S \subseteq T, NEW s \in Seq(S)
    PROVE  s \in Seq(T)
  BY SeqMonotonic

\* An idle goroutine is well formed.
LEMMA NoLoadType ==
    /\ NoLoad \in Loads /\ NoLoad.pc = "idle" /\ NoLoad.what = "none" /\ NoLoad.inst = 0
    /\ NoLoad.member = 1 /\ NoLoad.at = "entry"
<1>1. <<>> \in Seq(Tags) /\ <<>> \in Seq(Pools)
  BY EmptySeq
<1> QED
  BY <1>1 DEF NoLoad, Loads

\* The instances, their pools and the members of these.
LEMMA InstFacts ==
    ASSUME Shapes, NEW i \in 1 .. Len(inst)
    PROVE  /\ inst[i] \in Instance /\ inst[i].nodes \in Configs
           /\ inst[i].nodes \in Seq(Tags) /\ Range(inst[i].nodes) \subseteq Tags
           /\ PoolsIn(i) \subseteq Pools
           /\ \A p \in PoolsIn(i) :
                 /\ Members(p, inst[i].nodes) \in Seq(Tags)
                 /\ Len(Members(p, inst[i].nodes)) \in Nat \ {0}
                 /\ Range(Members(p, inst[i].nodes)) \subseteq Range(inst[i].nodes)
<1>1. inst[i] \in Instance
  BY ElementOfSeq DEF Shapes
<1>2. inst[i].nodes \in Configs
  BY <1>1 DEF Instance
<1> QED
  BY <1>1, <1>2, PoolsOfTypes DEF PoolsIn

\* What a goroutine knows that is starting the pools of an instance, and what
\* it knows while they register their members.
LEMMA LoadFacts ==
    ASSUME Shapes, LoadInv, ld.inst # 0
    PROVE  /\ ld.inst \in 1 .. Len(inst) /\ ld.inst = Len(inst) /\ running = 0
           /\ Newest = ld.inst /\ ld.pc \in {"register", "start"}
           /\ inst[ld.inst].nodes = ld.nodes
           /\ inst[ld.inst] \in Instance
           /\ ld.nodes \in Configs /\ ld.pools \in Seq(Pools)
           /\ ld.pools # <<>> => Pool = ld.pools[1] /\ Pool \in Pools /\ Pool \in PoolsIn(ld.inst)
           /\ ld.pc = "register" =>
                  /\ ld.pools # <<>>
                  /\ Members(Pool, ld.nodes) \in Seq(Tags)
                  /\ ld.member \in 1 .. Len(Members(Pool, ld.nodes))
                  /\ Member \in Range(Members(Pool, ld.nodes))
                  /\ Member \in Range(ld.nodes) /\ Member \in Tags
<1>1. /\ ld.inst = Len(inst) /\ inst[ld.inst].nodes = ld.nodes
      /\ ld.pc \in {"register", "start"} /\ running = 0
      /\ Range(ld.pools) \subseteq Range(PoolsOf(ld.nodes))
      /\ ld.nodes \in Configs /\ ld.pools \in Seq(Pools) /\ ld.inst \in Nat
      /\ ld.pc = "register" => ld.pools # <<>> /\ ld.member <= Len(Members(Pool, ld.nodes))
  BY DEF LoadInv, Shapes, Loads
<1>2. ld.inst \in 1 .. Len(inst) /\ inst[ld.inst] \in Instance
  <2>1. ld.inst \in 1 .. Len(inst)
    BY <1>1
  <2> QED
    BY <2>1, InstFacts
<1>3. ld.pools # <<>> => Pool = ld.pools[1] /\ Pool \in Pools /\ Pool \in Range(PoolsOf(ld.nodes))
  BY <1>1, RangeOfTail DEF Pool
<1>4. ASSUME ld.pc = "register"
      PROVE  /\ Members(Pool, ld.nodes) \in Seq(Tags)
             /\ ld.member \in 1 .. Len(Members(Pool, ld.nodes))
             /\ Member \in Range(Members(Pool, ld.nodes))
             /\ Member \in Range(ld.nodes) /\ Member \in Tags
  <2>1. /\ Members(Pool, ld.nodes) \in Seq(Tags)
        /\ Range(Members(Pool, ld.nodes)) \subseteq Range(ld.nodes)
        /\ Range(ld.nodes) \subseteq Tags
    BY <1>1, <1>3, <1>4, PoolsOfTypes
  <2>2. ld.member \in 1 .. Len(Members(Pool, ld.nodes))
    BY <1>1, <1>4, <2>1 DEF Shapes, Loads
  <2>3. Member \in Range(Members(Pool, ld.nodes))
    BY <2>1, <2>2, RangeEquality DEF Member
  <2> QED
    BY <2>1, <2>2, <2>3
<1> QED
  BY <1>1, <1>2, <1>3, <1>4 DEF Newest, PoolsIn

\* What a call knows that initialises the members of a pool.
LEMMA CallFacts ==
    ASSUME Shapes, NEW m \in inits, InitInv(m)
    PROVE  /\ m \in InitCalls /\ m.inst \in 1 .. Len(inst) /\ m.pool \in PoolsIn(m.inst)
           /\ MembersOf(m) \in Seq(Tags) /\ Len(MembersOf(m)) \in Nat \ {0}
           /\ Current(m) \in Range(MembersOf(m)) /\ Current(m) \in Range(inst[m.inst].nodes)
           /\ Current(m) \in Tags
           /\ m.states # <<>> /\ Len(m.states) \in Nat \ {0}
           /\ \A S : m.states \in Seq(S) => m.states[Len(m.states)] \in S
           /\ FunctionOf(m) \in Function /\ FunctionOf(m).inst = m.inst
           /\ FunctionOf(m).pool = m.pool /\ FunctionOf(m).state = m.states[Len(m.states)]
           /\ FunctionOk(FunctionOf(m), Current(m))
<1>1. m \in InitCalls /\ m.inst \in 1 .. Len(inst) /\ m.pool \in PoolsIn(m.inst)
  BY DEF Shapes, InitInv
<1>2. /\ MembersOf(m) \in Seq(Tags) /\ Len(MembersOf(m)) \in Nat \ {0}
      /\ Range(MembersOf(m)) \subseteq Range(inst[m.inst].nodes)
      /\ Range(inst[m.inst].nodes) \subseteq Tags
  BY <1>1, InstFacts DEF MembersOf
<1>3. Len(m.states) \in 1 .. Len(MembersOf(m)) /\ m.states \in Seq(Nat \ {0})
  BY <1>1 DEF InitInv, InitCalls
<1>4. Current(m) \in Range(MembersOf(m))
  BY <1>2, <1>3, RangeEquality DEF Current
<1>5. ASSUME NEW S, m.states \in Seq(S) PROVE m.states[Len(m.states)] \in S
  <2>1. Len(m.states) \in 1 .. Len(m.states)
    BY <1>2, <1>3
  <2> QED
    BY <1>5, <2>1, ElementOfSeq
<1>6. /\ FunctionOf(m) \in Function /\ FunctionOf(m).inst = m.inst
      /\ FunctionOf(m).pool = m.pool /\ FunctionOf(m).state = m.states[Len(m.states)]
  <2>1. m.states[Len(m.states)] \in Nat \ {0}
    BY <1>3, <1>5
  <2> QED
    BY <1>1, <2>1 DEF FunctionOf, Function, InitCalls
<1>7. m.states # <<>> /\ Len(m.states) \in Nat \ {0}
  BY <1>2, <1>3, EmptySeq
<1> QED
  BY <1>1, <1>2, <1>4, <1>5, <1>6, <1>7 DEF FunctionOk, MembersOf

-----------------------------------------------------------------------------
(* What a step does to the entries *)

\* One entry changes, the others stay.
LEMMA WriteEntry ==
    ASSUME Shapes, NEW t \in Tags, NEW e \in Entry, entries' = [entries EXCEPT ![t] = e]
    PROVE  /\ entries' \in [Tags -> {None} \cup Entry] /\ entries'[t] = e /\ entries'[t] # None
           /\ \A u \in Tags : u # t => entries'[u] = entries[u]
<1>1. e # None
  BY NoneAssumption DEF Entry
<1> QED
  BY <1>1 DEF Shapes

\* A result is written, a node is registered, or gets a function.
Kept(t) ==
    /\ entries[t] # None /\ entries'[t] # None /\ entries'[t].gen = entries[t].gen
    /\ entries'[t].probe = entries[t].probe /\ entries'[t].release = entries[t].release

RegisteredBy(t, gen) ==
    /\ entries'[t] # None /\ entries'[t].gen = gen
    /\ entries[t] # None => /\ entries'[t].probe = entries[t].probe
                            /\ entries'[t].release = entries[t].release
    /\ entries[t] = None => entries'[t].probe = NoFunction /\ entries'[t].release = NoFunction

ReleaseBy(t, f) ==
    /\ entries[t] # None /\ entries'[t] # None /\ entries'[t].gen = entries[t].gen
    /\ entries'[t].probe = entries[t].probe /\ entries'[t].release = f

ProbeBy(t, f) ==
    /\ entries[t] # None /\ entries'[t] # None /\ entries'[t].gen = entries[t].gen
    /\ entries'[t].probe = f /\ entries'[t].release = entries[t].release

EntryStep(t) ==
    \/ entries'[t] = entries[t] \/ Kept(t)
    \/ RegisterNode /\ t = Member /\ RegisteredBy(t, generation)
    \/ SetRelease /\ t = Member /\ ReleaseBy(t, ByTag)
    \/ SetProbe /\ t = Member /\ ProbeBy(t, ByTag)
    \/ \E m \in inits :
          /\ t = Current(m)
          /\ \/ RegisterWrites(m) /\ RegisteredBy(t, m.gen)
             \/ SetMemberRelease(m) /\ ReleaseBy(t, FunctionOf(m))
             \/ SetMemberProbe(m) /\ ProbeBy(t, FunctionOf(m))

\* The operators that make the new entry.
LEMMA RegisteredDoes ==
    ASSUME Shapes, NEW t \in Tags, NEW gen \in Nat \ {0},
           entries' = [entries EXCEPT ![t] = Registered(t, gen)]
    PROVE  /\ entries' \in [Tags -> {None} \cup Entry] /\ RegisteredBy(t, gen)
           /\ \A u \in Tags : u # t => entries'[u] = entries[u]
<1> DEFINE e == Registered(t, gen)
<1>1. /\ e \in Entry /\ e.gen = gen
      /\ entries[t] # None => e.probe = entries[t].probe /\ e.release = entries[t].release
      /\ entries[t] = None => e.probe = NoFunction /\ e.release = NoFunction
  <2>1. NoFunction \in Function
    BY DEF NoFunction, Function, Pools
  <2>2. CASE entries[t] = None
    BY <2>1, <2>2 DEF Registered, Entry
  <2>3. CASE entries[t] # None
    <3>1. entries[t] \in Entry
      BY <2>3 DEF Shapes
    <3> QED
      BY <2>3, <3>1 DEF Registered, Entry
  <2> QED
    BY <2>2, <2>3
<1>2. entries' = [entries EXCEPT ![t] = e]
  OBVIOUS
<1> HIDE DEF e
<1>3. /\ entries' \in [Tags -> {None} \cup Entry] /\ entries'[t] = e /\ entries'[t] # None
      /\ \A u \in Tags : u # t => entries'[u] = entries[u]
  BY <1>1, <1>2, WriteEntry
<1> QED
  BY <1>1, <1>3 DEF RegisteredBy

\* The same of the functions.
LEMMA FunctionSetDoes ==
    ASSUME Shapes, NEW t \in Tags, entries[t] # None, NEW f \in Function
    PROVE  /\ entries' = [entries EXCEPT ![t] = WithRelease(entries[t], f)] =>
                  /\ entries' \in [Tags -> {None} \cup Entry] /\ ReleaseBy(t, f)
                  /\ \A u \in Tags : u # t => entries'[u] = entries[u]
           /\ entries' = [entries EXCEPT ![t] = WithProbe(entries[t], f)] =>
                  /\ entries' \in [Tags -> {None} \cup Entry] /\ ProbeBy(t, f)
                  /\ \A u \in Tags : u # t => entries'[u] = entries[u]
<1>0. entries[t] \in Entry
  BY DEF Shapes
<1>1. ASSUME entries' = [entries EXCEPT ![t] = WithRelease(entries[t], f)]
      PROVE  /\ entries' \in [Tags -> {None} \cup Entry] /\ ReleaseBy(t, f)
             /\ \A u \in Tags : u # t => entries'[u] = entries[u]
  <2> DEFINE e == WithRelease(entries[t], f)
  <2>1. e \in Entry /\ e.gen = entries[t].gen /\ e.probe = entries[t].probe /\ e.release = f
    BY <1>0 DEF WithRelease, Entry
  <2>2. entries' = [entries EXCEPT ![t] = e]
    BY <1>1
  <2> HIDE DEF e
  <2>3. /\ entries' \in [Tags -> {None} \cup Entry] /\ entries'[t] = e /\ entries'[t] # None
        /\ \A u \in Tags : u # t => entries'[u] = entries[u]
    BY <2>1, <2>2, WriteEntry
  <2> QED
    BY <2>1, <2>3 DEF ReleaseBy
<1>2. ASSUME entries' = [entries EXCEPT ![t] = WithProbe(entries[t], f)]
      PROVE  /\ entries' \in [Tags -> {None} \cup Entry] /\ ProbeBy(t, f)
             /\ \A u \in Tags : u # t => entries'[u] = entries[u]
  <2> DEFINE e == WithProbe(entries[t], f)
  <2>1. e \in Entry /\ e.gen = entries[t].gen /\ e.release = entries[t].release /\ e.probe = f
    BY <1>0 DEF WithProbe, Entry
  <2>2. entries' = [entries EXCEPT ![t] = e]
    BY <1>2
  <2> HIDE DEF e
  <2>3. /\ entries' \in [Tags -> {None} \cup Entry] /\ entries'[t] = e /\ entries'[t] # None
        /\ \A u \in Tags : u # t => entries'[u] = entries[u]
    BY <2>1, <2>2, WriteEntry
  <2> QED
    BY <2>1, <2>3 DEF ProbeBy
<1> QED
  BY <1>1, <1>2

\* A result leaves the generation and the functions of the entry.
LEMMA ShowsDoes ==
    ASSUME Shapes, NEW t \in Tags, entries[t] # None, NEW ok, Shows(t, ok)
    PROVE  /\ entries' \in [Tags -> {None} \cup Entry]
           /\ \A u \in Tags : entries'[u] = entries[u] \/ Kept(u)
<1>1. CASE t \notin Watched
  BY <1>1 DEF Shows, Shapes
<1>2. CASE t \in Watched
  <2> DEFINE shown == IF ok THEN "yes" ELSE "no"
             e == [entries[t] EXCEPT !.shown = shown]
  <2>1. entries' = [entries EXCEPT ![t] = e]
    BY <1>2 DEF Shows
  <2>2. entries[t] \in Entry /\ shown \in {"unchecked", "yes", "no"}
    BY DEF Shapes
  <2> HIDE DEF shown
  <2>3. /\ e \in Entry /\ e.gen = entries[t].gen
        /\ e.probe = entries[t].probe /\ e.release = entries[t].release
    BY <2>2 DEF Entry
  <2> HIDE DEF e
  <2>4. /\ entries' \in [Tags -> {None} \cup Entry] /\ entries'[t] = e /\ entries'[t] # None
        /\ \A u \in Tags : u # t => entries'[u] = entries[u]
    BY <2>1, <2>3, WriteEntry
  <2> QED
    BY <2>3, <2>4 DEF Kept
<1> QED
  BY <1>1, <1>2

\* The goroutine that loads writes to the entry of the member it is at.
Others(t) ==
    /\ entries' \in [Tags -> {None} \cup Entry]
    /\ \A u \in Tags : u # t => entries'[u] = entries[u]

LEMMA LoaderWrites ==
    ASSUME Base
    PROVE  /\ RegisterNode => RegisteredBy(Member, generation) /\ Others(Member)
           /\ SetRelease => ReleaseBy(Member, ByTag) /\ Others(Member)
           /\ SetProbe => ProbeBy(Member, ByTag) /\ Others(Member)
<1>0. Shapes /\ LoadInv /\ generation \in Nat \ {0} /\ ld \in Loads
  BY DEF Base, Shapes
<1>3. ASSUME ld.pc = "register"
      PROVE  /\ Member \in Tags /\ ByTag \in Function
             /\ ld.at # "entry" => entries[Member] # None
  BY <1>0, <1>3, LoadFacts DEF LoadInv, Loads, ByTag, Function
<1>4. ASSUME RegisterNode PROVE RegisteredBy(Member, generation) /\ Others(Member)
  <2>1. ld.pc = "register" /\ entries' = [entries EXCEPT ![Member] = Registered(Member, generation)]
    BY <1>4 DEF RegisterNode
  <2> QED
    BY <1>0, <1>3, <2>1, RegisteredDoes DEF Others
<1>5. ASSUME SetRelease PROVE ReleaseBy(Member, ByTag) /\ Others(Member)
  <2>1. /\ ld.pc = "register" /\ ld.at # "entry"
        /\ entries' = [entries EXCEPT ![Member] = WithRelease(entries[Member], ByTag)]
    BY <1>5 DEF SetRelease
  <2> QED
    BY <1>0, <1>3, <2>1, FunctionSetDoes DEF Others
<1>6. ASSUME SetProbe PROVE ProbeBy(Member, ByTag) /\ Others(Member)
  <2>1. /\ ld.pc = "register" /\ ld.at # "entry"
        /\ entries' = [entries EXCEPT ![Member] = WithProbe(entries[Member], ByTag)]
    BY <1>6 DEF SetProbe
  <2> QED
    BY <1>0, <1>3, <2>1, FunctionSetDoes DEF Others
<1> QED
  BY <1>4, <1>5, <1>6

\* Every step does one of these to an entry.
LEMMA EntryDoes ==
    Base /\ [Next]_vars =>
        entries' \in [Tags -> {None} \cup Entry] /\ \A t \in Tags : EntryStep(t)
<1> SUFFICES ASSUME Base, [Next]_vars
             PROVE  entries' \in [Tags -> {None} \cup Entry] /\ \A t \in Tags : EntryStep(t)
  OBVIOUS
<1>0. /\ Shapes /\ LoadInv /\ entries \in [Tags -> {None} \cup Entry]
      /\ generation \in Nat \ {0} /\ ld \in Loads
  BY DEF Base, Shapes
<1>1. ASSUME entries' = entries
      PROVE  entries' \in [Tags -> {None} \cup Entry] /\ \A t \in Tags : EntryStep(t)
  BY <1>0, <1>1 DEF EntryStep
<1>2. CASE \/ BeginReload \/ ResetSharedStateStore \/ BumpGeneration \/ CreateInstance
           \/ StartPool \/ PoolStarted \/ PortConflict \/ ReloadFails \/ RollbackFails \/ Publish
           \/ UNCHANGED vars
  BY <1>1, <1>2, Zenon
  DEF BeginReload, ResetSharedStateStore, BumpGeneration, CreateInstance, StartPool, PoolStarted,
      PortConflict, ReloadFails, RollbackFails, Publish, vars
<1>4. CASE RegisterNode
  BY <1>4, LoaderWrites DEF Others, EntryStep
<1>5. CASE SetRelease
  BY <1>5, LoaderWrites DEF Others, EntryStep
<1>6. CASE SetProbe
  BY <1>6, LoaderWrites DEF Others, EntryStep
<1>7. ASSUME NEW m \in inits, MemberStep(m)
      PROVE  entries' \in [Tags -> {None} \cup Entry] /\ \A t \in Tags : EntryStep(t)
  <2>0. /\ InitInv(m) /\ m \in InitCalls /\ Current(m) \in Tags /\ FunctionOf(m) \in Function
    BY <1>0, CallFacts DEF Base
  <2> DEFINE t == Current(m)
  <2>1. CASE AcquireSharedState(m) \/ RegisterLoads(m)
    BY <1>1, <2>1 DEF AcquireSharedState, RegisterLoads
  <2>2. CASE RegisterWrites(m)
    <3>1. m.gen \in Nat \ {0} /\ entries' = [entries EXCEPT ![t] = Registered(t, m.gen)]
      BY <2>0, <2>2 DEF RegisterWrites, InitInv, InitCalls
    <3>2. t \in Tags
      BY <2>0
    <3> HIDE DEF t
    <3>3. /\ entries' \in [Tags -> {None} \cup Entry] /\ RegisteredBy(t, m.gen)
          /\ \A u \in Tags : u # t => entries'[u] = entries[u]
      BY <1>0, <3>1, <3>2, RegisteredDoes
    <3> QED
      BY <2>2, <3>3 DEF EntryStep, t
  <2>3. CASE SetMemberRelease(m)
    <3>1. /\ entries[t] # None /\ t \in Tags
          /\ entries' = [entries EXCEPT ![t] = WithRelease(entries[t], FunctionOf(m))]
      BY <2>0, <2>3 DEF SetMemberRelease, InitInv
    <3> HIDE DEF t
    <3>2. /\ entries' \in [Tags -> {None} \cup Entry] /\ ReleaseBy(t, FunctionOf(m))
          /\ \A u \in Tags : u # t => entries'[u] = entries[u]
      BY <1>0, <2>0, <3>1, FunctionSetDoes
    <3> QED
      BY <2>3, <3>2 DEF EntryStep, t
  <2>4. CASE SetMemberProbe(m)
    <3>1. /\ entries[t] # None /\ t \in Tags
          /\ entries' = [entries EXCEPT ![t] = WithProbe(entries[t], FunctionOf(m))]
      BY <2>0, <2>4 DEF SetMemberProbe, InitInv
    <3> HIDE DEF t
    <3>2. /\ entries' \in [Tags -> {None} \cup Entry] /\ ProbeBy(t, FunctionOf(m))
          /\ \A u \in Tags : u # t => entries'[u] = entries[u]
      BY <1>0, <2>0, <3>1, FunctionSetDoes
    <3> QED
      BY <2>4, <3>2 DEF EntryStep, t
  <2> QED
    BY <1>7, <2>1, <2>2, <2>3, <2>4 DEF MemberStep
<1>8. CASE CheckStep
  <2>1. entries' = entries
    BY <1>8, Zenon DEF CheckStep, ListEntries, LoadGeneration, StartWorker, EndRound, SkipNode, CheckNode
  <2> QED
    BY <1>1, <2>1
<1>9. ASSUME NEW t \in Watched, ManualProbe(t) PROVE entries' = entries
  BY <1>9 DEF ManualProbe
<1>10. ASSUME NEW pr \in probes, InitializeLate(pr) PROVE entries' = entries
  BY <1>10 DEF InitializeLate
<1>11. ASSUME NEW pr \in probes, ProbeEnds(pr)
       PROVE  entries' \in [Tags -> {None} \cup Entry] /\ \A t \in Tags : EntryStep(t)
  <2>1. PICK ok : Shows(pr.tag, ok)
    BY <1>11 DEF ProbeEnds
  <2>2. pr.tag \in Tags /\ entries[pr.tag] # None
    BY DEF Base, Shapes, Calls, CallInv
  <2>3. /\ entries' \in [Tags -> {None} \cup Entry]
        /\ \A u \in Tags : entries'[u] = entries[u] \/ Kept(u)
    BY <1>0, <2>1, <2>2, ShowsDoes
  <2> QED
    BY <2>3 DEF EntryStep
<1> QED
  BY <1>1, <1>2, <1>4, <1>5, <1>6, <1>7, <1>8, <1>9, <1>10, <1>11 DEF Next, Load

-----------------------------------------------------------------------------
(* What a step does to the instances and to the calls under way *)

\* One instance changes, the others stay.
LEMMA ReplaceInstance ==
    ASSUME inst \in Seq(Instance), NEW i \in 1 .. Len(inst), NEW r \in Instance,
           inst' = [inst EXCEPT ![i] = r]
    PROVE  /\ inst' \in Seq(Instance) /\ Len(inst') = Len(inst)
           /\ \A j \in 1 .. Len(inst) : inst'[j] = IF j = i THEN r ELSE inst[j]
  BY ExceptSeq

\* A pool is started, the instance is published, or the members of a pool are
\* those that the last call has initialised.
Started(i) ==
    /\ PoolStarted /\ i = ld.inst
    /\ inst'[i].held = inst[i].held /\ inst'[i].up = inst[i].up
    /\ inst'[i].started = inst[i].started \cup {Pool}

Published(i) ==
    /\ Publish /\ i = ld.inst
    /\ inst'[i].held = inst[i].held /\ inst'[i].up = TRUE
    /\ inst'[i].started = inst[i].started

HeldBy(i, m) ==
    /\ SetMemberProbe(m) /\ i = m.inst
    /\ inits' = inits \ {m} /\ Len(m.states) = Len(MembersOf(m))
    /\ inst'[i].up = inst[i].up /\ inst'[i].started = inst[i].started
    /\ inst'[i].held[m.pool] = m.states
    /\ \A p \in Pools : p # m.pool => inst'[i].held[p] = inst[i].held[p]

InstStep(i) ==
    /\ inst'[i].nodes = inst[i].nodes /\ inst'[i].gen = inst[i].gen
    /\ inst'[i] = inst[i] \/ Started(i) \/ Published(i) \/ \E m \in inits : HeldBy(i, m)

Created ==
    /\ CreateInstance /\ Len(inst') = Len(inst) + 1
    /\ \A i \in 1 .. Len(inst) : inst'[i] = inst[i]
    /\ inst'[Len(inst) + 1] = [nodes |-> ld.nodes, gen |-> generation,
                               held |-> [p \in Pools |-> <<>>], started |-> {}, up |-> FALSE]

\* The last member has its functions: the pool has its members.
LEMMA HeldDoes ==
    ASSUME Shapes, NEW m \in inits, InitInv(m), SetMemberProbe(m),
           ~(Len(m.states) < Len(MembersOf(m)))
    PROVE  /\ inst' \in Seq(Instance) /\ Len(inst') = Len(inst) /\ m.inst \in 1 .. Len(inst)
           /\ \A j \in 1 .. Len(inst) : j # m.inst => inst'[j] = inst[j]
           /\ inst'[m.inst].nodes = inst[m.inst].nodes /\ inst'[m.inst].gen = inst[m.inst].gen
           /\ HeldBy(m.inst, m)
<1>1. /\ m \in InitCalls /\ m.inst \in 1 .. Len(inst) /\ m.pool \in Pools
      /\ m.states \in Seq(Nat \ {0}) /\ inst[m.inst] \in Instance /\ inst \in Seq(Instance)
      /\ Len(MembersOf(m)) \in Nat
  <2>1. m \in InitCalls /\ m.inst \in 1 .. Len(inst) /\ Len(MembersOf(m)) \in Nat
    BY CallFacts
  <2> QED
    BY <2>1, InstFacts DEF InitCalls, Shapes
<1> DEFINE i == m.inst
           h == [inst[i].held EXCEPT ![m.pool] = m.states]
           r == [inst[i] EXCEPT !.held = h]
<1>2. /\ inits' = inits \ {m} /\ Len(m.states) = Len(MembersOf(m))
      /\ inst' = [inst EXCEPT ![i] = r]
  <2>1. inits' = inits \ {m} /\ inst' = [inst EXCEPT ![i] = r]
    BY DEF SetMemberProbe
  <2> QED
    BY <1>1, <2>1 DEF InitInv
<1>3. /\ h \in [Pools -> Seq(Nat \ {0})] /\ h[m.pool] = m.states
      /\ \A p \in Pools : p # m.pool => h[p] = inst[i].held[p]
  BY <1>1 DEF Instance
<1>4. i \in 1 .. Len(inst) /\ inst[i] \in Instance
  BY <1>1
<1> HIDE DEF h
<1>5. /\ r \in Instance /\ r.nodes = inst[i].nodes /\ r.gen = inst[i].gen
      /\ r.held = h /\ r.up = inst[i].up /\ r.started = inst[i].started
  BY <1>3, <1>4 DEF Instance
<1> HIDE DEF r, i
<1>6. /\ inst' \in Seq(Instance) /\ Len(inst') = Len(inst)
      /\ \A j \in 1 .. Len(inst) : inst'[j] = IF j = i THEN r ELSE inst[j]
  BY <1>1, <1>2, <1>4, <1>5, ReplaceInstance
<1>7. inst'[i] = r
  BY <1>4, <1>6
<1>8. HeldBy(i, m)
  BY <1>2, <1>3, <1>5, <1>7 DEF HeldBy, i
<1> QED
  BY <1>4, <1>5, <1>6, <1>7, <1>8 DEF i

\* A new instance joins the others.
LEMMA CreatesOne == ASSUME Base, CreateInstance PROVE inst' \in Seq(Instance) /\ Created
<1>0. /\ Shapes /\ LoadInv /\ inst \in Seq(Instance) /\ Len(inst) \in Nat /\ ld \in Loads
      /\ generation \in Nat \ {0}
  BY DEF Base, Shapes
<1> DEFINE r == [nodes |-> ld.nodes, gen |-> generation,
                 held |-> [p \in Pools |-> <<>>], started |-> {}, up |-> FALSE]
<1>1. r \in Instance
  <2>1. <<>> \in Seq(Nat \ {0})
    BY EmptySeq
  <2>2. ld.nodes \in Configs
    BY <1>0 DEF CreateInstance, LoadInv
  <2> QED
    BY <1>0, <2>1, <2>2 DEF Instance
<1>2. inst' = Append(inst, r)
  BY DEF CreateInstance
<1> HIDE DEF r
<1>3. /\ inst' \in Seq(Instance) /\ Len(inst') = Len(inst) + 1
      /\ \A i \in 1 .. Len(inst) : inst'[i] = inst[i]
      /\ inst'[Len(inst) + 1] = r
  BY <1>0, <1>1, <1>2, AppendProperties
<1> QED
  BY <1>3 DEF Created, r

\* Every other step leaves their number, and does one of these to each.
LEMMA SameInstances ==
    ASSUME Base, [Next]_vars, ~CreateInstance
    PROVE  /\ inst' \in Seq(Instance) /\ Len(inst') = Len(inst)
           /\ \A i \in 1 .. Len(inst) : InstStep(i)
<1>0. /\ Shapes /\ LoadInv /\ inst \in Seq(Instance) /\ Len(inst) \in Nat /\ ld \in Loads
      /\ generation \in Nat \ {0}
  BY DEF Base, Shapes
<1>1. ASSUME inst' = inst
      PROVE  /\ inst' \in Seq(Instance) /\ Len(inst') = Len(inst)
             /\ \A i \in 1 .. Len(inst) : InstStep(i)
  BY <1>0, <1>1 DEF InstStep
<1>2. CASE \/ BeginReload \/ ResetSharedStateStore \/ BumpGeneration
           \/ RegisterNode \/ SetRelease \/ SetProbe
           \/ StartPool \/ PortConflict \/ ReloadFails \/ RollbackFails \/ UNCHANGED vars
  BY <1>1, <1>2, Zenon
  DEF BeginReload, ResetSharedStateStore, BumpGeneration, RegisterNode, SetRelease, SetProbe,
      StartPool, PortConflict, ReloadFails, RollbackFails, vars
<1>4. CASE PoolStarted
  <2> DEFINE i == ld.inst
             r == [inst[i] EXCEPT !.started = inst[i].started \cup {Pool}]
  <2>1. /\ i \in 1 .. Len(inst) /\ Pool \in Pools /\ inst[i] \in Instance
        /\ inst' = [inst EXCEPT ![i] = r]
    <3>1. ld.inst # 0 /\ ld.pools # <<>> /\ inst' = [inst EXCEPT ![i] = r]
      BY <1>0, <1>4 DEF PoolStarted, LoadInv
    <3> QED
      BY <1>0, <3>1, LoadFacts
  <2>2. /\ r \in Instance /\ r.nodes = inst[i].nodes /\ r.gen = inst[i].gen
        /\ r.held = inst[i].held /\ r.up = inst[i].up
        /\ r.started = inst[i].started \cup {Pool}
    BY <2>1 DEF Instance
  <2> HIDE DEF r, i
  <2>3. /\ inst' \in Seq(Instance) /\ Len(inst') = Len(inst)
        /\ \A j \in 1 .. Len(inst) : inst'[j] = IF j = i THEN r ELSE inst[j]
    BY <1>0, <2>1, <2>2, ReplaceInstance
  <2> QED
    BY <1>4, <2>2, <2>3 DEF InstStep, Started, i
<1>5. CASE Publish
  <2> DEFINE i == ld.inst
             r == [inst[i] EXCEPT !.up = TRUE]
  <2>1. /\ i \in 1 .. Len(inst) /\ inst[i] \in Instance
        /\ inst' = [inst EXCEPT ![i] = r]
    <3>1. ld.inst # 0 /\ inst' = [inst EXCEPT ![i] = r]
      BY <1>0, <1>5 DEF Publish, LoadInv
    <3> QED
      BY <1>0, <3>1, LoadFacts
  <2>2. /\ r \in Instance /\ r.nodes = inst[i].nodes /\ r.gen = inst[i].gen
        /\ r.held = inst[i].held /\ r.up = TRUE /\ r.started = inst[i].started
    BY <2>1 DEF Instance
  <2> HIDE DEF r, i
  <2>3. /\ inst' \in Seq(Instance) /\ Len(inst') = Len(inst)
        /\ \A j \in 1 .. Len(inst) : inst'[j] = IF j = i THEN r ELSE inst[j]
    BY <1>0, <2>1, <2>2, ReplaceInstance
  <2> QED
    BY <1>5, <2>2, <2>3 DEF InstStep, Published, i
<1>6. ASSUME NEW m \in inits, MemberStep(m)
      PROVE  /\ inst' \in Seq(Instance) /\ Len(inst') = Len(inst)
             /\ \A i \in 1 .. Len(inst) : InstStep(i)
  <2>1. CASE AcquireSharedState(m) \/ RegisterLoads(m) \/ RegisterWrites(m) \/ SetMemberRelease(m)
    BY <1>1, <2>1 DEF AcquireSharedState, RegisterLoads, RegisterWrites, SetMemberRelease
  <2>2. CASE SetMemberProbe(m) /\ Len(m.states) < Len(MembersOf(m))
    BY <1>1, <2>2 DEF SetMemberProbe
  <2>3. CASE SetMemberProbe(m) /\ ~(Len(m.states) < Len(MembersOf(m)))
    <3>1. InitInv(m)
      BY DEF Base
    <3>2. /\ inst' \in Seq(Instance) /\ Len(inst') = Len(inst) /\ m.inst \in 1 .. Len(inst)
          /\ \A j \in 1 .. Len(inst) : j # m.inst => inst'[j] = inst[j]
          /\ inst'[m.inst].nodes = inst[m.inst].nodes /\ inst'[m.inst].gen = inst[m.inst].gen
          /\ HeldBy(m.inst, m)
      BY <1>0, <2>3, <3>1, HeldDoes
    <3>3. InstStep(m.inst)
      BY <3>2 DEF InstStep
    <3> QED
      BY <3>2, <3>3 DEF InstStep
  <2> QED
    BY <1>6, <2>1, <2>2, <2>3 DEF MemberStep
<1>7. CASE CheckStep
  <2>1. inst' = inst
    BY <1>7, Zenon DEF CheckStep, ListEntries, LoadGeneration, StartWorker, EndRound, SkipNode, CheckNode
  <2> QED
    BY <1>1, <2>1
<1>8. ASSUME NEW t \in Watched, ManualProbe(t) PROVE inst' = inst
  BY <1>8 DEF ManualProbe
<1>9. ASSUME NEW pr \in probes, InitializeLate(pr) \/ ProbeEnds(pr) PROVE inst' = inst
  BY <1>9 DEF InitializeLate, ProbeEnds
<1> QED
  BY <1>1, <1>2, <1>4, <1>5, <1>6, <1>7, <1>8, <1>9 DEF Next, Load

\* A new call, for a pool whose members nobody initialises.
BeginsFor(m, i, p) ==
    /\ inits' = inits \cup {m} /\ inst' = inst
    /\ i \in 1 .. Len(inst) /\ p \in PoolsIn(i) /\ inst[i].held[p] = <<>> /\ ~Initializing(i, p)
    /\ m = [inst |-> i, pool |-> p, states |-> <<epoch>>, step |-> "load", gen |-> 0]
    /\ i = ld.inst \/ stray'

\* A call goes on: what it is and holds from then on.
Continues(n, m) ==
    /\ n \in inits /\ inits' = (inits \ {n}) \cup {m} /\ inst' = inst
    /\ m \in InitCalls /\ m.inst = n.inst /\ m.pool = n.pool
    /\ \/ /\ n.step = "acquire" /\ m.step = "load" /\ m.gen = n.gen
          /\ m.states = Append(n.states, epoch)
       \/ n.step = "load" /\ m.step = "write" /\ m.gen = generation /\ m.states = n.states
       \/ RegisterWrites(n) /\ m.step = "release" /\ m.gen = 0 /\ m.states = n.states
       \/ n.step = "release" /\ m.step = "probe" /\ m.gen = n.gen /\ m.states = n.states
       \/ /\ n.step = "probe" /\ m.step = "acquire" /\ m.gen = n.gen /\ m.states = n.states
          /\ Len(m.states) < Len(MembersOf(m))

InitsStep ==
    \/ inits' = inits /\ inst' = inst
    \/ inits' = inits /\ (CreateInstance \/ PoolStarted \/ Publish)
    \/ \E m : \E i \in 1 .. Len(inst) : \E p \in PoolsIn(i) : BeginsFor(m, i, p)
    \/ \E m : \E n \in inits : Continues(n, m)
    \/ \E n \in inits : HeldBy(n.inst, n)

\* A call that goes on is one.
LEMMA ContinueDoes ==
    ASSUME Base, NEW m \in inits, MemberStep(m)
    PROVE  HeldBy(m.inst, m) \/ \E n : Continues(m, n)
<1>0. /\ Shapes /\ m \in InitCalls /\ InitInv(m) /\ epoch \in Nat \ {0} /\ generation \in Nat \ {0}
      /\ inst \in Seq(Instance) /\ Len(inst) \in Nat
      /\ m.states \in Seq(Nat \ {0}) /\ MembersOf(m) \in Seq(Tags) /\ m.inst \in 1 .. Len(inst)
      /\ Len(m.states) \in 1 .. Len(MembersOf(m)) /\ Len(MembersOf(m)) \in Nat
  <2>1. Shapes /\ InitInv(m)
    BY DEF Base
  <2>2. m \in InitCalls /\ MembersOf(m) \in Seq(Tags) /\ m.inst \in 1 .. Len(inst)
    BY <2>1, CallFacts
  <2> QED
    BY <2>1, <2>2 DEF Shapes, InitCalls, InitInv
<1>1. CASE AcquireSharedState(m)
  <2> DEFINE s == Append(m.states, epoch)
             n == [m EXCEPT !.states = s, !.step = "load"]
  <2>1. /\ s \in Seq(Nat \ {0}) /\ m.step = "acquire" /\ inits' = (inits \ {m}) \cup {n}
        /\ inst' = inst
    BY <1>0, <1>1, AppendProperties DEF AcquireSharedState, GoesOn
  <2> HIDE DEF s
  <2>2. /\ n \in InitCalls /\ n.inst = m.inst /\ n.pool = m.pool /\ n.step = "load"
        /\ n.gen = m.gen /\ n.states = s
    BY <1>0, <2>1 DEF InitCalls
  <2> HIDE DEF n
  <2> QED
    BY <2>1, <2>2 DEF Continues, s
<1>2. CASE RegisterLoads(m)
  <2> DEFINE n == [m EXCEPT !.gen = generation, !.step = "write"]
  <2>1. m.step = "load" /\ inits' = (inits \ {m}) \cup {n} /\ inst' = inst
    BY <1>2 DEF RegisterLoads, GoesOn
  <2>2. /\ n \in InitCalls /\ n.inst = m.inst /\ n.pool = m.pool /\ n.step = "write"
        /\ n.gen = generation /\ n.states = m.states
    BY <1>0 DEF InitCalls
  <2> HIDE DEF n
  <2> QED
    BY <2>1, <2>2 DEF Continues
<1>3. CASE RegisterWrites(m)
  <2> DEFINE n == [m EXCEPT !.gen = 0, !.step = "release"]
  <2>1. inits' = (inits \ {m}) \cup {n} /\ inst' = inst
    BY <1>3 DEF RegisterWrites, GoesOn
  <2>2. /\ n \in InitCalls /\ n.inst = m.inst /\ n.pool = m.pool /\ n.step = "release"
        /\ n.gen = 0 /\ n.states = m.states
    BY <1>0 DEF InitCalls
  <2> HIDE DEF n
  <2> QED
    BY <1>3, <2>1, <2>2 DEF Continues
<1>4. CASE SetMemberRelease(m)
  <2> DEFINE n == [m EXCEPT !.step = "probe"]
  <2>1. m.step = "release" /\ inits' = (inits \ {m}) \cup {n} /\ inst' = inst
    BY <1>4 DEF SetMemberRelease, GoesOn
  <2>2. /\ n \in InitCalls /\ n.inst = m.inst /\ n.pool = m.pool /\ n.step = "probe"
        /\ n.gen = m.gen /\ n.states = m.states
    BY <1>0 DEF InitCalls
  <2> HIDE DEF n
  <2> QED
    BY <2>1, <2>2 DEF Continues
<1>5. CASE SetMemberProbe(m) /\ Len(m.states) < Len(MembersOf(m))
  <2> DEFINE n == [m EXCEPT !.step = "acquire"]
  <2>1. m.step = "probe" /\ inits' = (inits \ {m}) \cup {n} /\ inst' = inst
    BY <1>5 DEF SetMemberProbe, GoesOn
  <2>2. /\ n \in InitCalls /\ n.inst = m.inst /\ n.pool = m.pool /\ n.step = "acquire"
        /\ n.gen = m.gen /\ n.states = m.states
    BY <1>0 DEF InitCalls
  <2> HIDE DEF n
  <2>3. MembersOf(n) = MembersOf(m)
    BY <2>2 DEF MembersOf
  <2> QED
    BY <1>5, <2>1, <2>2, <2>3 DEF Continues
<1>6. CASE SetMemberProbe(m) /\ ~(Len(m.states) < Len(MembersOf(m)))
  BY <1>0, <1>6, HeldDoes
<1> QED
  BY <1>1, <1>2, <1>3, <1>4, <1>5, <1>6 DEF MemberStep

\* Every step does one of these to the calls under way.
LEMMA InitsDoes == Base /\ [Next]_vars => InitsStep
<1> SUFFICES ASSUME Base, [Next]_vars PROVE InitsStep
  OBVIOUS
<1>0. Shapes /\ LoadInv
  BY DEF Base
<1>1. CASE inits' = inits /\ inst' = inst
  BY <1>1 DEF InitsStep
<1>2. CASE \/ BeginReload \/ ResetSharedStateStore \/ BumpGeneration
           \/ RegisterNode \/ SetRelease \/ SetProbe
           \/ PortConflict \/ ReloadFails \/ RollbackFails \/ UNCHANGED vars
  BY <1>1, <1>2, Zenon
  DEF BeginReload, ResetSharedStateStore, BumpGeneration, RegisterNode, SetRelease, SetProbe,
      PortConflict, ReloadFails, RollbackFails, vars
<1>3. CASE CreateInstance \/ PoolStarted \/ Publish
  BY <1>3 DEF CreateInstance, PoolStarted, Publish, InitsStep
<1>4. CASE StartPool
  <2>1. /\ ld.pc = "start" /\ ld.pools # <<>> /\ inst[ld.inst].held[Pool] = <<>>
        /\ ~Initializing(ld.inst, Pool) /\ inst' = inst
        /\ inits' = inits \cup {[inst |-> ld.inst, pool |-> Pool, states |-> <<epoch>>,
                                 step |-> "load", gen |-> 0]}
    BY <1>4 DEF StartPool, Initialize
  <2>2. ld.inst \in 1 .. Len(inst) /\ Pool \in PoolsIn(ld.inst)
    BY <1>0, <2>1, LoadFacts DEF LoadInv
  <2> QED
    BY <2>1, <2>2 DEF InitsStep, BeginsFor
<1>5. ASSUME NEW m \in inits, MemberStep(m) PROVE InitsStep
  BY <1>5, ContinueDoes DEF InitsStep, Continues
<1>6. CASE CheckStep
  <2>1. inits' = inits /\ inst' = inst
    BY <1>6, Zenon DEF CheckStep, ListEntries, LoadGeneration, StartWorker, EndRound, SkipNode, CheckNode
  <2> QED
    BY <1>1, <2>1
<1>7. ASSUME NEW t \in Watched, ManualProbe(t) PROVE InitsStep
  BY <1>1, <1>7 DEF ManualProbe
<1>8. ASSUME NEW pr \in probes, ProbeEnds(pr) PROVE InitsStep
  BY <1>1, <1>8 DEF ProbeEnds
<1>9. ASSUME NEW pr \in probes, InitializeLate(pr) PROVE InitsStep
  <2> DEFINE i == pr.func.inst
             p == pr.func.pool
  <2>1. /\ inst[i].held[p] = <<>> /\ ~Initializing(i, p) /\ inst' = inst
        /\ inits' = inits \cup {[inst |-> i, pool |-> p, states |-> <<epoch>>,
                                 step |-> "load", gen |-> 0]}
        /\ stray' = (stray \/ i # ld.inst)
    BY <1>9 DEF InitializeLate, Initialize, Uninitialized
  <2>2. i \in 1 .. Len(inst) /\ p \in PoolsIn(i)
    BY DEF Base, CallInv, FunctionOk
  <2> HIDE DEF i, p
  <2> QED
    BY <2>1, <2>2 DEF InitsStep, BeginsFor
<1> QED
  BY <1>1, <1>2, <1>3, <1>4, <1>5, <1>6, <1>7, <1>8, <1>9 DEF Next, Load

-----------------------------------------------------------------------------
(* What a step does to the rest *)

\* Only the goroutine that loads changes these.
Quiet == UNCHANGED <<generation, epoch, running, ld>>

LEMMA QuietDoes == [Next]_vars => BeginReload \/ Load \/ Quiet
<1> SUFFICES ASSUME [Next]_vars, ~BeginReload, ~Load PROVE Quiet
  OBVIOUS
<1>1. CASE UNCHANGED vars
  BY <1>1 DEF vars, Quiet
<1>2. ASSUME NEW m \in inits, MemberStep(m) PROVE Quiet
  BY <1>2 DEF MemberStep, AcquireSharedState, RegisterLoads, RegisterWrites, SetMemberRelease,
              SetMemberProbe, Quiet
<1>3. CASE CheckStep
  BY <1>3, Zenon DEF CheckStep, ListEntries, LoadGeneration, StartWorker, EndRound, SkipNode,
                     CheckNode, Quiet
<1>4. ASSUME NEW t \in Watched, ManualProbe(t) PROVE Quiet
  BY <1>4 DEF ManualProbe, Quiet
<1>5. ASSUME NEW pr \in probes, InitializeLate(pr) \/ ProbeEnds(pr) PROVE Quiet
  BY <1>5 DEF InitializeLate, ProbeEnds, Quiet
<1> QED
  BY <1>1, <1>2, <1>3, <1>4, <1>5 DEF Next

\* The generation and the epoch only grow, instances stay what they are, and a
\* node that is registered stays so.
Grows ==
    /\ generation' \in Nat \ {0} /\ epoch' \in Nat \ {0}
    /\ generation <= generation' /\ epoch <= epoch'
    /\ Len(inst') \in Nat /\ Len(inst) <= Len(inst')
    /\ \A i \in 1 .. Len(inst) :
          /\ inst'[i].nodes = inst[i].nodes /\ inst'[i].gen = inst[i].gen
          /\ PoolsIn(i)' = PoolsIn(i)
    /\ \A t \in Tags : entries[t] # None => entries'[t] # None

LEMMA GrowsDoes == Base /\ [Next]_vars => Grows
<1> SUFFICES ASSUME Base, [Next]_vars PROVE Grows
  OBVIOUS
<1>0. generation \in Nat \ {0} /\ epoch \in Nat \ {0} /\ Len(inst) \in Nat
  BY DEF Base, Shapes
<1>1. /\ generation' \in Nat \ {0} /\ epoch' \in Nat \ {0}
      /\ generation <= generation' /\ epoch <= epoch'
  <2>1. generation' \in {generation, generation + 1} /\ epoch' \in {epoch, epoch + 1}
    <3>1. CASE BeginReload
      BY <3>1 DEF BeginReload
    <3>2. CASE Load
      BY <3>2, Zenon
      DEF Load, ResetSharedStateStore, BumpGeneration, CreateInstance, RegisterNode, SetRelease,
          SetProbe, StartPool, PoolStarted, PortConflict, ReloadFails, RollbackFails, Publish
    <3> QED
      BY <3>1, <3>2, QuietDoes DEF Quiet
  <2> QED
    BY <1>0, <2>1
<1>2. /\ Len(inst') \in Nat /\ Len(inst) <= Len(inst')
      /\ \A i \in 1 .. Len(inst) : inst'[i].nodes = inst[i].nodes /\ inst'[i].gen = inst[i].gen
  <2>1. \/ Created
        \/ Len(inst') = Len(inst) /\ \A i \in 1 .. Len(inst) : InstStep(i)
    BY CreatesOne, SameInstances
  <2>2. CASE Created
    BY <1>0, <2>2 DEF Created
  <2>3. CASE Len(inst') = Len(inst) /\ \A i \in 1 .. Len(inst) : InstStep(i)
    BY <1>0, <2>3 DEF InstStep
  <2> QED
    BY <2>1, <2>2, <2>3
<1>3. \A i \in 1 .. Len(inst) : PoolsIn(i)' = PoolsIn(i)
  BY <1>2 DEF PoolsIn
<1>4. ASSUME NEW t \in Tags, entries[t] # None PROVE entries'[t] # None
  <2>1. EntryStep(t)
    BY EntryDoes
  <2> QED
    BY <1>4, <2>1 DEF EntryStep, Kept, RegisteredBy, ReleaseBy, ProbeBy
<1> QED
  BY <1>1, <1>2, <1>3, <1>4 DEF Grows

-----------------------------------------------------------------------------
(* Calls of probe functions, and the check *)

\* A call of the function found in an entry.
LEMMA CallType ==
    ASSUME Base, NEW by \in {"check", "handler"}, NEW t \in Tags,
           entries[t] # None, entries[t].probe.inst # 0
    PROVE  /\ Call(by, t) \in Calls /\ CallInv(Call(by, t))
           /\ Call(by, t).by = by /\ Call(by, t).tag = t
<1>1. entries[t] \in Entry /\ EntryInv(t)
  BY DEF Base, Shapes
<1> QED
  BY <1>1 DEF Entry, Call, Calls, CallInv, EntryInv

\* What is called stays there.
LEMMA CallKept ==
    ASSUME Grows, NEW c \in Calls, CallInv(c) PROVE CallInv(c)'
<1>1. c.tag \in Tags
  BY DEF Calls
<1>2. /\ entries'[c.tag] # None /\ c.func.inst # 0 /\ c.func.inst \in 1 .. Len(inst)
      /\ c.func.pool \in PoolsIn(c.func.inst)
      /\ c.tag \in Range(Members(c.func.pool, inst[c.func.inst].nodes))
  BY <1>1 DEF CallInv, FunctionOk, Grows
<1>3. /\ PoolsIn(c.func.inst)' = PoolsIn(c.func.inst)
      /\ inst'[c.func.inst].nodes = inst[c.func.inst].nodes
      /\ c.func.inst \in 1 .. Len(inst')
  BY <1>2 DEF Grows
<1> QED
  BY <1>2, <1>3 DEF CallInv, FunctionOk

\* A pool that starts probes its members, which are registered.
LEMMA StartupDoes ==
    ASSUME Base, PoolStarted, NEW pr \in StartupProbes
    PROVE  pr \in Calls /\ pr.by = "startup" /\ CallInv(pr)
<1>1. /\ Shapes /\ LoadInv /\ ld.pc = "start" /\ ld.inst # 0 /\ ld.pools # <<>>
      /\ inst[ld.inst].held[Pool] # <<>>
  BY DEF Base, LoadInv, PoolStarted
<1>2. /\ ld.inst \in 1 .. Len(inst) /\ Pool \in Pools /\ Pool \in PoolsIn(ld.inst)
      /\ inst[ld.inst].nodes = ld.nodes /\ Newest = ld.inst /\ inst[ld.inst] \in Instance
  BY <1>1, LoadFacts
<1> DEFINE members == Members(Pool, ld.nodes)
           held == inst[ld.inst].held[Pool]
<1>3. PICK k \in DOMAIN members :
          pr = [by |-> "startup", tag |-> members[k],
                func |-> [inst |-> ld.inst, pool |-> Pool, state |-> held[k]]]
  BY DEF StartupProbes
<1>4. /\ members \in Seq(Tags) /\ Len(members) \in Nat \ {0}
      /\ Range(members) \subseteq Range(ld.nodes) /\ Range(ld.nodes) \subseteq Tags
  BY <1>1, <1>2, InstFacts
<1>5. held \in Seq(Nat \ {0}) /\ Len(held) = Len(members)
  <2>1. InstanceInv(ld.inst)
    BY <1>2 DEF Base
  <2> QED
    BY <1>1, <1>2, <2>1 DEF InstanceInv, Instance
<1>6. k \in 1 .. Len(members) /\ k \in 1 .. Len(held)
  BY <1>3, <1>4, <1>5, LenProperties
<1>7. members[k] \in Range(members) /\ held[k] \in Nat \ {0}
  <2>1. members[k] \in Range(members)
    BY <1>4, <1>6, RangeEquality
  <2>2. held[k] \in Nat \ {0}
    BY <1>5, <1>6, ElementOfSeq
  <2> QED
    BY <2>1, <2>2
<1>8. entries[members[k]] # None
  <2>1. members[k] \in Tags /\ members[k] \in Range(inst[Newest].nodes)
    BY <1>2, <1>4, <1>7
  <2>2. ~Pending(members[k]) /\ Newest # 0
    BY <1>1, <1>2 DEF Pending
  <2> QED
    BY <2>1, <2>2 DEF Base, Linked
<1> HIDE DEF held
<1>9. pr \in Calls /\ pr.by = "startup" /\ pr.tag = members[k]
      /\ pr.func.inst = ld.inst /\ pr.func.pool = Pool
  BY <1>2, <1>3, <1>4, <1>7 DEF Calls, Function
<1>10. FunctionOk(pr.func, pr.tag)
  BY <1>2, <1>7, <1>9 DEF FunctionOk
<1> QED
  BY <1>1, <1>8, <1>9, <1>10 DEF CallInv

\* What a step does to the check and its probes.
CheckSame == check' = check /\ CheckProbes' = CheckProbes

CheckPlain ==
    /\ check' \in Checks
    /\ CheckProbes' = CheckProbes /\ check'.slots = check.slots
    /\ \A t \in check'.todo : entries[t] # None
    /\ check'.gen \in {0, check.gen, generation}
    /\ check'.todo \subseteq check.todo \/ (CheckProbes = {} /\ check.call = None)
    /\ check'.call = check.call
    /\ check'.pc = "round" \/ (CheckProbes = {} /\ check.call = None)

CheckCallsFor(t) ==
    /\ t \in check.todo /\ check.pc = "round" /\ CheckProbes' = CheckProbes
    /\ entries[t] # None /\ entries[t].probe.inst # 0
    /\ check' \in Checks /\ check'.pc = check.pc /\ check'.gen = check.gen
    /\ check'.todo = check.todo \ {t} /\ check'.slots = check.slots
    /\ check'.call = Call("check", t)

CheckCalls == \E t \in Tags : CheckCallsFor(t)

CheckBegins ==
    /\ check.call # None /\ check.slots < Limit
    /\ check' = [check EXCEPT !.call = None, !.slots = check.slots + 1]
    /\ CheckProbes' = CheckProbes \cup {check.call}

CheckEnds ==
    \E pr \in CheckProbes : /\ check' = [check EXCEPT !.slots = check.slots - 1]
                            /\ CheckProbes' = CheckProbes \ {pr}

\* Each of these keeps the slots in step with the probes.
LEMMA CheckKept ==
    ASSUME Base, Grows, CheckSame \/ CheckPlain \/ CheckCalls \/ CheckBegins \/ CheckEnds
    PROVE  check' \in Checks /\ CheckInv'
<1>0. /\ check \in Checks /\ CheckInv /\ Limit \in Nat /\ generation \in Nat /\ generation' \in Nat
      /\ generation <= generation'
      /\ Cardinality(CheckProbes) \in Nat
      /\ \A t \in Tags : entries[t] # None => entries'[t] # None
  <2>1. CheckInv /\ Limit \in Nat
    BY MonitorAssumption DEF Base
  <2>2. Cardinality(CheckProbes) \in Nat
    BY <2>1, FS_CardinalityType DEF CheckInv
  <2> QED
    BY <2>1, <2>2 DEF Base, Shapes, Grows
<1>1. ASSUME NEW c \in Calls, CallInv(c), check'.call = c PROVE CallInv(check.call)'
  <2>1. CallInv(c)'
    BY <1>1, CallKept
  <2> QED
    BY <1>1, <2>1 DEF CallInv, FunctionOk, PoolsIn
<1>7. ASSUME check'.call = check.call, check'.call # None PROVE CallInv(check.call)'
  <2>1. PICK c \in Calls : c = check.call
    BY <1>0, <1>7 DEF Checks
  <2>2. CallInv(c)
    BY <1>0, <1>7, <2>1 DEF CheckInv
  <2> QED
    BY <1>1, <1>7, <2>1, <2>2
<1>2. CASE CheckSame
  BY <1>0, <1>2, <1>7 DEF CheckSame, CheckInv, Checks
<1>3. CASE CheckPlain
  BY <1>0, <1>3, <1>7 DEF CheckPlain, CheckInv, Checks
<1>4. CASE CheckCalls
  <2>1. PICK t \in Tags : CheckCallsFor(t)
    BY <1>4 DEF CheckCalls
  <2>2. PICK c : c = Call("check", t)
    OBVIOUS
  <2>3. c \in Calls /\ CallInv(c) /\ c.by = "check" /\ c.tag = t
    BY <2>1, <2>2, CallType DEF CheckCallsFor
  <2>4. /\ check.pc = "round" /\ CheckProbes' = CheckProbes /\ check' \in Checks
        /\ check'.pc = "round" /\ check'.gen = check.gen /\ check'.slots = check.slots
        /\ t \in check.todo /\ check'.todo = check.todo \ {t} /\ check'.call = c
    BY <2>1, <2>2 DEF CheckCallsFor
  <2>5. c # None /\ CallInv(check.call)'
    BY <1>1, <2>3, <2>4, NoneAssumption
  <2> QED
    BY <1>0, <2>3, <2>4, <2>5 DEF CheckInv, Checks
<1>5. CASE CheckBegins
  <2> DEFINE n == check.slots + 1
             c == check.call
  <2>1. /\ check' \in Checks /\ check'.pc = check.pc /\ check'.gen = check.gen
        /\ check'.todo = check.todo /\ check'.call = None /\ check'.slots = n
    <3>1. n \in Int /\ check' = [check EXCEPT !.call = None, !.slots = n]
      BY <1>0, <1>5 DEF CheckBegins, Checks
    <3> HIDE DEF n
    <3> QED
      BY <1>0, <3>1 DEF Checks
  <2>2. /\ c # None /\ c.by = "check" /\ c.tag \notin check.todo
        /\ CheckProbes' = CheckProbes \cup {c} /\ check.slots < Limit
        /\ c \notin CheckProbes
    BY <1>0, <1>5 DEF CheckBegins, CheckInv
  <2>3. /\ IsFiniteSet(CheckProbes \cup {c})
        /\ Cardinality(CheckProbes \cup {c}) = Cardinality(CheckProbes) + 1
    BY <1>0, <2>2, FS_AddElement DEF CheckInv
  <2>4. check.pc = "round" /\ check.slots = Cardinality(CheckProbes) /\ n <= Limit
    BY <1>0, <2>2 DEF CheckInv
  <2> HIDE DEF c
  <2> QED
    BY <1>0, <2>1, <2>2, <2>3, <2>4 DEF CheckInv, Checks
<1>6. CASE CheckEnds
  <2>1. PICK pr \in CheckProbes : /\ check' = [check EXCEPT !.slots = check.slots - 1]
                                  /\ CheckProbes' = CheckProbes \ {pr}
    BY <1>6 DEF CheckEnds
  <2>2. /\ check' \in Checks /\ check'.pc = check.pc /\ check'.gen = check.gen
        /\ check'.todo = check.todo /\ check'.call = check.call
        /\ check'.slots = check.slots - 1
    BY <1>0, <2>1 DEF Checks
  <2>3. /\ IsFiniteSet(CheckProbes \ {pr})
        /\ Cardinality(CheckProbes \ {pr}) = Cardinality(CheckProbes) - 1
    BY <1>0, <2>1, FS_RemoveElement DEF CheckInv
  <2> QED
    BY <1>0, <1>7, <2>1, <2>2, <2>3 DEF CheckInv, Checks
<1> QED
  BY <1>2, <1>3, <1>4, <1>5, <1>6

\* Every step does one of these.
LEMMA CheckDoes ==
    Base /\ [Next]_vars =>
        CheckSame \/ CheckPlain \/ CheckCalls \/ CheckBegins \/ CheckEnds
<1> SUFFICES ASSUME Base, [Next]_vars
             PROVE  CheckSame \/ CheckPlain \/ CheckCalls \/ CheckBegins \/ CheckEnds
  OBVIOUS
<1>0. check \in Checks /\ CheckInv /\ \A t \in check.todo : entries[t] # None
  BY DEF Base, Shapes, CheckInv
<1>1. ASSUME check' = check, probes' = probes PROVE CheckSame
  BY <1>1 DEF CheckProbes, CheckSame
<1>2. CASE \/ BeginReload \/ ResetSharedStateStore \/ BumpGeneration \/ PortConflict
           \/ ReloadFails \/ RollbackFails \/ CreateInstance \/ RegisterNode \/ SetRelease
           \/ SetProbe \/ StartPool \/ UNCHANGED vars
  <2>1. check' = check /\ probes' = probes
    BY <1>2, Zenon
    DEF BeginReload, ResetSharedStateStore, BumpGeneration, PortConflict, ReloadFails,
        RollbackFails, CreateInstance, RegisterNode, SetRelease, SetProbe, StartPool, vars
  <2> QED
    BY <1>1, <2>1
<1>3. ASSUME NEW m \in inits, MemberStep(m) PROVE CheckSame
  BY <1>1, <1>3 DEF MemberStep, AcquireSharedState, RegisterLoads, RegisterWrites,
                    SetMemberRelease, SetMemberProbe
<1>4. CASE Publish
  <2>1. CASE check.pc = "off"
    <3>1. check' = [check EXCEPT !.pc = "first"] /\ probes' = probes
      BY <1>4, <2>1 DEF Publish
    <3>2. CheckProbes' = CheckProbes /\ CheckProbes = {} /\ check.call = None
      BY <1>0, <2>1, <3>1 DEF CheckProbes, CheckInv
    <3> QED
      BY <1>0, <3>1, <3>2 DEF CheckPlain, Checks
  <2>2. CASE check.pc # "off"
    BY <1>1, <1>4, <2>2 DEF Publish
  <2> QED
    BY <2>1, <2>2
<1>5. CASE PoolStarted
  <2>1. probes' = probes \cup StartupProbes /\ check' = check
    BY <1>5 DEF PoolStarted
  <2>2. \A pr \in StartupProbes : pr.by # "check"
    BY <1>5, StartupDoes
  <2> QED
    BY <2>1, <2>2 DEF CheckSame, CheckProbes
<1>6. ASSUME NEW t \in Watched, ManualProbe(t) PROVE CheckSame
  <2>1. probes' = probes \cup {Call("handler", t)} /\ check' = check
    BY <1>6 DEF ManualProbe
  <2>2. Call("handler", t).by # "check"
    BY DEF Call
  <2> QED
    BY <2>1, <2>2 DEF CheckSame, CheckProbes
<1>7. CASE ListEntries
  <2> DEFINE s == {t \in Tags : entries[t] # None}
  <2>1. /\ check.pc \in {"first", "wait"} /\ probes' = probes
        /\ check' = [check EXCEPT !.pc = "listed", !.todo = s]
    BY <1>7 DEF ListEntries
  <2>2. s \in SUBSET Tags /\ \A t \in s : entries[t] # None
    OBVIOUS
  <2> HIDE DEF s
  <2>3. CheckProbes' = CheckProbes /\ CheckProbes = {} /\ check.call = None
    BY <1>0, <2>1 DEF CheckProbes, CheckInv
  <2> QED
    BY <1>0, <2>1, <2>2, <2>3 DEF CheckPlain, Checks
<1>8. CASE LoadGeneration
  <2>1. /\ check.pc = "listed" /\ probes' = probes /\ generation \in Nat
        /\ check' = [check EXCEPT !.pc = "round", !.gen = generation]
    BY <1>8 DEF LoadGeneration, Base, Shapes
  <2>2. CheckProbes' = CheckProbes
    BY <2>1 DEF CheckProbes
  <2> QED
    BY <1>0, <2>1, <2>2 DEF CheckPlain, Checks
<1>9. ASSUME NEW t \in Tags, SkipNode(t) PROVE CheckPlain
  <2> DEFINE s == check.todo \ {t}
  <2>1. check.pc = "round" /\ probes' = probes /\ check' = [check EXCEPT !.todo = s]
    BY <1>9 DEF SkipNode
  <2>2. s \in SUBSET Tags /\ s \subseteq check.todo
    BY <1>0 DEF Checks
  <2> HIDE DEF s
  <2>3. CheckProbes' = CheckProbes
    BY <2>1 DEF CheckProbes
  <2> QED
    BY <1>0, <2>1, <2>2, <2>3 DEF CheckPlain, Checks
<1>10. ASSUME NEW t \in Tags, CheckNode(t) PROVE CheckCalls
  <2> DEFINE s == check.todo \ {t}
             c == Call("check", t)
  <2>1. /\ t \in check.todo /\ check.pc = "round" /\ probes' = probes
        /\ entries[t].probe.inst # 0 /\ check' = [check EXCEPT !.todo = s, !.call = c]
    BY <1>10 DEF CheckNode
  <2>2. CheckProbes' = CheckProbes /\ entries[t] # None /\ s \in SUBSET Tags
    BY <1>0, <2>1 DEF CheckProbes, Checks
  <2>3. c \in Calls
    BY <2>1, <2>2, CallType
  <2> HIDE DEF s, c
  <2>4. /\ check' \in Checks /\ check'.pc = check.pc /\ check'.gen = check.gen
        /\ check'.todo = s /\ check'.call = c /\ check'.slots = check.slots
    BY <1>0, <2>1, <2>2, <2>3 DEF Checks
  <2> QED
    BY <2>1, <2>2, <2>4 DEF CheckCalls, CheckCallsFor, s, c
<1>11. CASE StartWorker
  <2>1. /\ check.call # None /\ check.slots < Limit /\ probes' = probes \cup {check.call}
        /\ check' = [check EXCEPT !.call = None, !.slots = check.slots + 1]
    BY <1>11 DEF StartWorker
  <2>2. check.call.by = "check"
    BY <1>0, <2>1 DEF CheckInv
  <2>3. CheckProbes' = CheckProbes \cup {check.call}
    BY <2>1, <2>2 DEF CheckProbes
  <2> QED
    BY <2>1, <2>3 DEF CheckBegins
<1>12. CASE EndRound
  <2>1. /\ check.pc = "round" /\ probes' = probes /\ \A pr \in probes : pr.by # "check"
        /\ check.call = None
        /\ check' = [check EXCEPT !.pc = "wait", !.gen = 0]
    BY <1>12 DEF EndRound
  <2>2. CheckProbes' = CheckProbes /\ CheckProbes = {}
    BY <2>1 DEF CheckProbes
  <2> QED
    BY <1>0, <2>1, <2>2 DEF CheckPlain, Checks
<1>13. ASSUME NEW pr \in probes, InitializeLate(pr) PROVE CheckSame
  BY <1>1, <1>13 DEF InitializeLate
<1>14. ASSUME NEW pr \in probes, ProbeEnds(pr) PROVE CheckSame \/ CheckEnds
  <2>1. PICK ok : check' = [check EXCEPT !.slots = Slots(pr, ok)]
    BY <1>14 DEF ProbeEnds
  <2>2. probes' = probes \ {pr}
    BY <1>14 DEF ProbeEnds
  <2>3. CASE pr.by = "check"
    <3>1. pr \in CheckProbes /\ CheckProbes' = CheckProbes \ {pr}
      BY <2>2, <2>3 DEF CheckProbes
    <3>2. check' = [check EXCEPT !.slots = check.slots - 1]
      BY <2>1, <2>3 DEF Slots
    <3> QED
      BY <3>1, <3>2 DEF CheckEnds
  <2>4. CASE pr.by # "check"
    <3>1. CheckProbes' = CheckProbes
      BY <2>2, <2>4 DEF CheckProbes
    <3>2. check' = [check EXCEPT !.slots = check.slots]
      BY <2>1, <2>4 DEF Slots
    <3> QED
      BY <1>0, <3>1, <3>2 DEF CheckSame, Checks
  <2> QED
    BY <2>3, <2>4
<1> QED
  BY <1>2, <1>3, <1>4, <1>5, <1>6, <1>7, <1>8, <1>9, <1>10, <1>11, <1>12, <1>13, <1>14
  DEF Next, Load, CheckStep

\* Every step leaves well-formed calls.
LEMMA ProbesDo == Base /\ [Next]_vars => probes' \subseteq Calls /\ \A pr \in probes' : CallInv(pr)
<1> SUFFICES ASSUME Base, [Next]_vars, NEW pr \in probes' PROVE pr \in Calls /\ CallInv(pr)
  OBVIOUS
<1>1. ASSUME pr \in probes PROVE pr \in Calls /\ CallInv(pr)
  BY <1>1 DEF Base, Shapes
<1>2. CASE \/ BeginReload \/ ResetSharedStateStore \/ BumpGeneration \/ PortConflict
           \/ ReloadFails \/ RollbackFails \/ CreateInstance \/ RegisterNode \/ SetRelease
           \/ SetProbe \/ StartPool \/ Publish \/ UNCHANGED vars
  <2>1. probes' = probes
    BY <1>2, Zenon
    DEF BeginReload, ResetSharedStateStore, BumpGeneration, PortConflict, ReloadFails, Publish,
        RollbackFails, CreateInstance, RegisterNode, SetRelease, SetProbe, StartPool, vars
  <2> QED
    BY <1>1, <2>1
<1>3. ASSUME NEW m \in inits, MemberStep(m) PROVE pr \in probes
  BY <1>3 DEF MemberStep, AcquireSharedState, RegisterLoads, RegisterWrites,
              SetMemberRelease, SetMemberProbe
<1>4. CASE PoolStarted
  BY <1>1, <1>4, StartupDoes DEF PoolStarted
<1>5. ASSUME NEW t \in Watched, ManualProbe(t) PROVE pr \in Calls /\ CallInv(pr)
  <2>1. /\ entries[t] # None /\ entries[t].probe.inst # 0 /\ t \in Tags
        /\ probes' = probes \cup {Call("handler", t)}
    BY <1>5, MonitorAssumption DEF ManualProbe
  <2> QED
    BY <1>1, <2>1, CallType
<1>6. CASE StartWorker
  <2>1. probes' = probes \cup {check.call} /\ check.call # None
    BY <1>6 DEF StartWorker
  <2>2. check.call \in Calls /\ CallInv(check.call)
    BY <2>1 DEF Base, Shapes, Checks, CheckInv
  <2> QED
    BY <1>1, <2>1, <2>2
<1>7. CASE ListEntries \/ LoadGeneration \/ EndRound \/ \E t \in Tags : SkipNode(t) \/ CheckNode(t)
  <2>1. probes' = probes
    BY <1>7, Zenon DEF ListEntries, LoadGeneration, EndRound, SkipNode, CheckNode
  <2> QED
    BY <1>1, <2>1
<1>8. ASSUME NEW p \in probes, InitializeLate(p) \/ ProbeEnds(p) PROVE pr \in probes
  BY <1>8 DEF InitializeLate, ProbeEnds
<1> QED
  BY <1>1, <1>2, <1>3, <1>4, <1>5, <1>6, <1>7, <1>8 DEF Next, Load, CheckStep

-----------------------------------------------------------------------------
(* The goroutine that loads *)

\* A reload has a list of nodes.
LEMMA ReloadsTo ==
    BeginReload =>
        /\ \E nodes \in Configs :
              ld' = [NoLoad EXCEPT !.pc = "reset", !.what = "reload", !.nodes = nodes,
                                     !.old = inst[running].nodes]
        /\ running' = 0 /\ running # 0 /\ Len(inst) < MaxInstances
        /\ inst' = inst /\ generation' = generation /\ epoch' = epoch
  BY Zenon DEF BeginReload

\* Where the steps before the registration lead.
LEMMA LoadBegins ==
    ASSUME Base,
           \/ BeginReload \/ ResetSharedStateStore \/ BumpGeneration \/ PortConflict
           \/ ReloadFails \/ RollbackFails \/ Publish
    PROVE  ld' \in Loads /\ LoadInv' /\ Counters'
<1>0. /\ Shapes /\ LoadInv /\ Counters /\ ld \in Loads /\ Len(inst) \in Nat
      /\ generation \in Nat /\ epoch \in Nat
  BY DEF Base, Shapes
<1>1. /\ NoLoad \in Loads /\ NoLoad.pc = "idle" /\ NoLoad.what = "none" /\ NoLoad.inst = 0
      /\ NoLoad.member = 1 /\ NoLoad.at = "entry"
  BY NoLoadType
<1>2. CASE BeginReload
  <2>1. PICK nodes \in Configs :
            ld' = [NoLoad EXCEPT !.pc = "reset", !.what = "reload", !.nodes = nodes,
                                 !.old = inst[running].nodes]
    BY <1>2, ReloadsTo, Zenon
  <2>2. /\ running' = 0 /\ running # 0 /\ Len(inst) < MaxInstances /\ ld.pc = "idle"
        /\ inst' = inst /\ generation' = generation /\ epoch' = epoch
    BY <1>0, <1>2, ReloadsTo, Zenon DEF LoadInv
  <2> DEFINE old == inst[running].nodes
  <2>6. running \in 1 .. Len(inst)
    BY <1>0, <2>2 DEF Shapes
  <2>3. old \in Configs /\ old \in Seq(Tags) /\ nodes \in Seq(Tags)
    BY <1>0, <2>6, InstFacts, MonitorAssumption
  <2>4. ld' = [NoLoad EXCEPT !.pc = "reset", !.what = "reload", !.nodes = nodes, !.old = old]
    BY <2>1
  <2> HIDE DEF old
  <2>5. /\ ld' \in Loads /\ ld'.pc = "reset" /\ ld'.what = "reload" /\ ld'.nodes = nodes
        /\ ld'.old = old /\ ld'.inst = 0 /\ ld'.member = 1 /\ ld'.at = "entry"
    BY <1>1, <2>3, <2>4 DEF Loads
  <2> QED
    BY <1>0, <2>2, <2>3, <2>5 DEF LoadInv, Counters
<1>3. CASE ResetSharedStateStore
  <2>1. /\ ld.pc = "reset" /\ epoch' = epoch + 1 /\ ld' = [ld EXCEPT !.pc = "bump"]
        /\ inst' = inst /\ generation' = generation /\ running' = running
    BY <1>3 DEF ResetSharedStateStore
  <2>2. /\ ld' \in Loads /\ ld'.pc = "bump" /\ ld'.what = ld.what /\ ld'.nodes = ld.nodes
        /\ ld'.old = ld.old /\ ld'.inst = ld.inst /\ ld'.member = ld.member /\ ld'.at = ld.at
    BY <1>0, <2>1 DEF Loads
  <2> QED
    BY <1>0, <2>1, <2>2 DEF LoadInv, Counters
<1>4. CASE BumpGeneration
  <2>1. /\ ld.pc = "bump" /\ generation' = generation + 1 /\ ld' = [ld EXCEPT !.pc = "create"]
        /\ inst' = inst /\ epoch' = epoch /\ running' = running
    BY <1>4 DEF BumpGeneration
  <2>2. /\ ld' \in Loads /\ ld'.pc = "create" /\ ld'.what = ld.what /\ ld'.nodes = ld.nodes
        /\ ld'.old = ld.old /\ ld'.inst = ld.inst /\ ld'.member = ld.member /\ ld'.at = ld.at
    BY <1>0, <2>1 DEF Loads
  <2> QED
    BY <1>0, <2>1, <2>2 DEF LoadInv, Counters
<1>5. CASE PortConflict
  <2>1. /\ ld.pc = "start" /\ ld.pools = <<>> /\ epoch' = epoch + 1
        /\ ld' = [ld EXCEPT !.pc = "create", !.inst = 0] /\ Len(inst) < MaxInstances
        /\ inst' = inst /\ generation' = generation /\ running' = running
    BY <1>5 DEF PortConflict
  <2>2. /\ ld' \in Loads /\ ld'.pc = "create" /\ ld'.what = ld.what /\ ld'.nodes = ld.nodes
        /\ ld'.old = ld.old /\ ld'.inst = 0 /\ ld'.member = ld.member /\ ld'.at = ld.at
    BY <1>0, <2>1 DEF Loads
  <2> QED
    BY <1>0, <2>1, <2>2 DEF LoadInv, Counters
<1>6. CASE ReloadFails
  <2> DEFINE nodes == ld.old
  <2>1. /\ ld.pc \in {"register", "start"} /\ ld.what = "reload" /\ Len(inst) < MaxInstances
        /\ ld' = [NoLoad EXCEPT !.pc = "create", !.what = "rollback", !.nodes = nodes]
        /\ inst' = inst /\ generation' = generation /\ epoch' = epoch /\ running' = running
    BY <1>6 DEF ReloadFails
  <2>2. nodes \in Configs /\ nodes \in Seq(Tags)
    BY <1>0, <2>1, MonitorAssumption DEF LoadInv
  <2> HIDE DEF nodes
  <2>3. /\ ld' \in Loads /\ ld'.pc = "create" /\ ld'.what = "rollback" /\ ld'.nodes = nodes
        /\ ld'.inst = 0 /\ ld'.member = 1 /\ ld'.at = "entry"
    BY <1>1, <2>1, <2>2 DEF Loads
  <2> QED
    BY <1>0, <2>1, <2>2, <2>3 DEF LoadInv, Counters
<1>7. CASE RollbackFails
  <2>1. /\ ld.pc \in {"register", "start"} /\ ld' = NoLoad
        /\ inst' = inst /\ generation' = generation /\ epoch' = epoch /\ running' = running
    BY <1>7 DEF RollbackFails
  <2> QED
    BY <1>0, <1>1, <2>1 DEF LoadInv, Counters
<1>8. CASE Publish
  <2>1. /\ ld.pc = "start" /\ ld' = NoLoad /\ Len(inst') = Len(inst)
        /\ generation' = generation /\ epoch' = epoch
    <3>1. [Next]_vars /\ ~CreateInstance
      BY <1>8 DEF Next, Load, Publish, CreateInstance
    <3> QED
      BY <1>8, <3>1, SameInstances DEF Publish
  <2> QED
    BY <1>0, <1>1, <2>1 DEF LoadInv, Counters
<1> QED
  BY <1>2, <1>3, <1>4, <1>5, <1>6, <1>7, <1>8

\* A new instance, whose pools are to be registered.
LEMMA LoadCreates ==
    ASSUME Base, CreateInstance
    PROVE  ld' \in Loads /\ LoadInv' /\ Counters' /\ ld'.inst = Len(inst') /\ running' = 0
<1>0. /\ Shapes /\ LoadInv /\ Counters /\ ld \in Loads /\ Len(inst) \in Nat
      /\ generation \in Nat /\ epoch \in Nat
  BY DEF Base, Shapes
<1>1. /\ ld.pc = "create" /\ Len(inst) < MaxInstances /\ generation' = generation
      /\ epoch' = epoch /\ running' = running /\ ld.inst = 0 /\ running = 0
  BY <1>0 DEF CreateInstance, LoadInv
<1>2. Len(inst') = Len(inst) + 1 /\ inst'[Len(inst) + 1].nodes = ld.nodes
  BY <1>0, CreatesOne DEF Created
<1>3. /\ ld.nodes \in Configs /\ PoolsOf(ld.nodes) \in Seq(Pools) /\ PoolsOf(ld.nodes) # <<>>
      /\ \A p \in Range(PoolsOf(ld.nodes)) : Len(Members(p, ld.nodes)) \in Nat \ {0}
  BY <1>0, <1>1, PoolsOfTypes DEF LoadInv
<1> DEFINE pools == PoolsOf(ld.nodes)
           n == Len(inst) + 1
<1>4. ld' = [ld EXCEPT !.pc = "register", !.inst = n, !.pools = pools]
  BY DEF CreateInstance
<1>6. n \in Nat /\ n # 0 /\ pools \in Seq(Pools) /\ pools # <<>>
  BY <1>0, <1>3
<1> HIDE DEF pools, n
<1>5. Head(pools) \in Range(pools)
  BY <1>6, RangeOfTail
<1>7. /\ ld' \in Loads /\ ld'.pc = "register" /\ ld'.what = ld.what /\ ld'.nodes = ld.nodes
      /\ ld'.old = ld.old /\ ld'.inst = n /\ ld'.member = ld.member /\ ld'.at = ld.at
      /\ ld'.pools = pools
  BY <1>0, <1>4, <1>6 DEF Loads
<1>8. Pool' = Head(pools)
  BY <1>7 DEF Pool
<1>9. 1 <= Len(Members(Pool', ld.nodes)) /\ pools # <<>>
  BY <1>3, <1>5, <1>8 DEF pools
<1>10. ld.member = 1 /\ ld.at = "entry" /\ (ld.what = "reload" => ld.old \in Configs)
  BY <1>0, <1>1 DEF LoadInv
<1>11. LoadInv'
  BY <1>1, <1>2, <1>3, <1>7, <1>9, <1>10 DEF LoadInv, n, pools
<1>12. Counters'
  <2>1. MaxInstances \in Nat
    BY MonitorAssumption
  <2> QED
    BY <1>0, <1>1, <1>2, <1>7, <2>1 DEF Counters
<1> QED
  BY <1>1, <1>2, <1>7, <1>11, <1>12 DEF n

\* Two steps of a registration, and the start of a pool, stay with their pool.
LEMMA LoadStays ==
    ASSUME Base, RegisterNode \/ SetRelease \/ StartPool \/ PoolStarted
    PROVE  ld' \in Loads /\ LoadInv' /\ Counters'
<1>0. /\ Shapes /\ LoadInv /\ Counters /\ ld \in Loads /\ Len(inst) \in Nat
      /\ [Next]_vars /\ ~CreateInstance
  <2>1. [Next]_vars
    BY DEF Next, Load
  <2>2. ~CreateInstance
    BY DEF RegisterNode, SetRelease, StartPool, PoolStarted, CreateInstance
  <2> QED
    BY <2>1, <2>2 DEF Base, Shapes
<1>1. /\ Len(inst') = Len(inst) /\ generation' = generation /\ epoch' = epoch
      /\ running' = running /\ ld.inst # 0
      /\ inst'[ld.inst].nodes = inst[ld.inst].nodes
  <2>1. ld.inst # 0
    BY <1>0 DEF LoadInv, RegisterNode, SetRelease, StartPool, PoolStarted
  <2>2. ld.inst \in 1 .. Len(inst)
    BY <1>0, <2>1, LoadFacts
  <2> QED
    BY <1>0, <2>1, <2>2, SameInstances
    DEF InstStep, RegisterNode, SetRelease, StartPool, PoolStarted
<1>2. CASE RegisterNode \/ SetRelease
  <2>1. PICK a \in {"release", "probe"} : ld' = [ld EXCEPT !.at = a]
    BY <1>2 DEF RegisterNode, SetRelease
  <2>2. /\ ld' \in Loads /\ ld'.pc = ld.pc /\ ld'.what = ld.what /\ ld'.nodes = ld.nodes
        /\ ld'.old = ld.old /\ ld'.inst = ld.inst /\ ld'.member = ld.member /\ ld'.at = a
        /\ ld'.pools = ld.pools
    BY <1>0, <2>1 DEF Loads
  <2>3. Pool' = Pool /\ Member' = Member
    BY <2>2 DEF Pool, Member
  <2>4. ld.pc = "register" /\ entries'[Member] # None
    BY <1>2, LoaderWrites DEF RegisteredBy, ReleaseBy, RegisterNode, SetRelease
  <2> QED
    BY <1>0, <1>1, <2>2, <2>3, <2>4 DEF LoadInv, Counters
<1>3. CASE StartPool
  <2>1. ld.pc = "start" /\ ld.pools # <<>> /\ ld' = [ld EXCEPT !.at = "members"]
    BY <1>3 DEF StartPool
  <2>2. /\ ld' \in Loads /\ ld'.pc = ld.pc /\ ld'.what = ld.what /\ ld'.nodes = ld.nodes
        /\ ld'.old = ld.old /\ ld'.inst = ld.inst /\ ld'.member = ld.member
        /\ ld'.at = "members" /\ ld'.pools = ld.pools
    BY <1>0, <2>1 DEF Loads
  <2> QED
    BY <1>0, <1>1, <2>1, <2>2 DEF LoadInv, Counters
<1>4. CASE PoolStarted
  <2> DEFINE q == Tail(ld.pools)
  <2>1. /\ ld.pc = "start" /\ ld.pools # <<>> /\ ld.pools \in Seq(Pools)
        /\ ld' = [ld EXCEPT !.at = "entry", !.pools = q]
    BY <1>0, <1>4 DEF PoolStarted, Loads
  <2>2. q \in Seq(Pools) /\ Range(q) \subseteq Range(ld.pools)
    BY <2>1, RangeOfTail
  <2> HIDE DEF q
  <2>3. /\ ld' \in Loads /\ ld'.pc = ld.pc /\ ld'.what = ld.what /\ ld'.nodes = ld.nodes
        /\ ld'.old = ld.old /\ ld'.inst = ld.inst /\ ld'.member = ld.member
        /\ ld'.at = "entry" /\ ld'.pools = q
    BY <1>0, <2>1, <2>2 DEF Loads
  <2> QED
    BY <1>0, <1>1, <2>1, <2>2, <2>3 DEF LoadInv, Counters
<1> QED
  BY <1>2, <1>3, <1>4

\* The goroutine stays with what it loads.
SameLoad == ld' \in Loads /\ ld'.what = ld.what /\ ld'.nodes = ld.nodes /\ ld'.old = ld.old

\* The goroutine moves to member k of the first of the pools q.
MovesTo(l, k, q) == [l EXCEPT !.at = "entry", !.member = k, !.pools = q]

\* Nothing else of it changes.
LEMMA MovesToDoes ==
    ASSUME NEW l \in Loads, NEW k \in Nat \ {0}, NEW q \in Seq(Pools)
    PROVE  /\ MovesTo(l, k, q) \in Loads
           /\ MovesTo(l, k, q).what = l.what /\ MovesTo(l, k, q).nodes = l.nodes
           /\ MovesTo(l, k, q).old = l.old /\ MovesTo(l, k, q).pc = l.pc
           /\ MovesTo(l, k, q).inst = l.inst /\ MovesTo(l, k, q).member = k
           /\ MovesTo(l, k, q).pools = q
  BY DEF Loads, MovesTo

\* The three ways the goroutine goes on leave no node but the member behind.
LEMMA SetGoesOn ==
    Base /\ SetProbe =>
        /\ SameLoad /\ ld'.pc \in {"register", "start"} /\ ld'.inst = ld.inst /\ ld'.at = "entry"
        /\ Waiting' = Waiting /\ LoadInv'
        /\ \A t : Pending(t) => Pending(t)' \/ t = Member
<1> SUFFICES ASSUME Base, SetProbe
             PROVE  /\ SameLoad /\ ld'.pc \in {"register", "start"}
                    /\ ld'.inst = ld.inst /\ ld'.at = "entry"
                    /\ Waiting' = Waiting /\ LoadInv'
                    /\ \A t : Pending(t) => Pending(t)' \/ t = Member
  OBVIOUS
<1>1. /\ Shapes /\ LoadInv /\ ld \in Loads /\ ld.pc = "register" /\ ld.inst # 0
      /\ inst' = inst /\ generation' = generation /\ running' = running
  BY DEF Base, Shapes, LoadInv, SetProbe
<1>2. /\ ld.nodes \in Configs /\ ld.pools \in Seq(Pools) /\ ld.pools # <<>>
      /\ ld.member \in 1 .. Len(Members(Pool, ld.nodes)) /\ Pool = ld.pools[1]
      /\ Members(Pool, ld.nodes) \in Seq(Tags) /\ Len(Members(Pool, ld.nodes)) \in Nat
      /\ ld.inst = Len(inst) /\ running = 0
      /\ inst[ld.inst].nodes = ld.nodes
      /\ Range(ld.pools) \subseteq Range(PoolsOf(ld.nodes))
      /\ ld.what = "reload" => ld.old \in Configs
  BY <1>1, LoadFacts DEF LoadInv
<1>3. /\ PoolsOf(ld.nodes) \in Seq(Pools) /\ PoolsOf(ld.nodes) # <<>>
      /\ \A p \in Range(PoolsOf(ld.nodes)) : Len(Members(p, ld.nodes)) \in Nat \ {0}
  BY <1>2, PoolsOfTypes
<1>4. ASSUME ld.member < Len(Members(Pool, ld.nodes))
      PROVE  /\ SameLoad /\ ld'.pc = "register" /\ ld'.inst = ld.inst /\ ld'.at = "entry"
             /\ ld'.member = ld.member + 1 /\ ld'.pools = ld.pools
  <2>1. ld' = [ld EXCEPT !.at = "entry", !.member = ld.member + 1]
    BY <1>4 DEF SetProbe
  <2>2. ld.member + 1 \in Nat \ {0}
    BY <1>2
  <2> QED
    BY <1>1, <2>1, <2>2 DEF SameLoad, Loads
<1>5. ASSUME ~(ld.member < Len(Members(Pool, ld.nodes))), Len(ld.pools) > 1
      PROVE  /\ SameLoad /\ ld'.pc = "register" /\ ld'.inst = ld.inst /\ ld'.at = "entry"
             /\ ld'.member = 1 /\ ld'.pools = Tail(ld.pools)
  <2>1. ld' = MovesTo(ld, 1, Tail(ld.pools))
    BY <1>5 DEF SetProbe, MovesTo
  <2>2. Tail(ld.pools) \in Seq(Pools)
    BY <1>2, RangeOfTail
  <2>3. 1 \in Nat \ {0}
    OBVIOUS
  <2> DEFINE q == Tail(ld.pools)
             r == MovesTo(ld, 1, q)
  <2>0. q \in Seq(Pools)
    BY <2>2
  <2> HIDE DEF q
  <2>4. /\ r \in Loads /\ r.what = ld.what /\ r.nodes = ld.nodes /\ r.old = ld.old
        /\ r.pc = ld.pc /\ r.inst = ld.inst /\ r.member = 1 /\ r.pools = q
    BY <1>1, <2>0, <2>3, MovesToDoes
  <2>5. r.at = "entry"
    BY <1>1 DEF MovesTo, Loads
  <2> HIDE DEF r
  <2> QED
    BY <1>1, <2>1, <2>4, <2>5 DEF SameLoad, r, q
<1>6. ASSUME ~(ld.member < Len(Members(Pool, ld.nodes))), ~(Len(ld.pools) > 1)
      PROVE  /\ SameLoad /\ ld'.pc = "start" /\ ld'.inst = ld.inst /\ ld'.at = "entry"
             /\ ld'.member = 1 /\ ld'.pools = PoolsOf(ld.nodes)
  <2> DEFINE r == MovesTo(ld, 1, PoolsOf(ld.nodes))
  <2>1. ld' = [r EXCEPT !.pc = "start"]
    BY <1>1, <1>6 DEF SetProbe, Loads, MovesTo
  <2>2. 1 \in Nat \ {0}
    OBVIOUS
  <2>3. /\ r \in Loads /\ r.what = ld.what /\ r.nodes = ld.nodes /\ r.old = ld.old
        /\ r.pc = ld.pc /\ r.inst = ld.inst /\ r.member = 1
        /\ r.pools = PoolsOf(ld.nodes)
    BY <1>1, <1>3, <2>2, MovesToDoes
  <2>6. r.at = "entry"
    BY <1>1 DEF MovesTo, Loads
  <2> HIDE DEF r
  <2>4. /\ ld' \in Loads /\ ld'.what = r.what /\ ld'.nodes = r.nodes /\ ld'.old = r.old
        /\ ld'.pc = "start" /\ ld'.inst = r.inst /\ ld'.member = r.member
        /\ ld'.pools = r.pools
    BY <2>1, <2>3 DEF Loads
  <2>5. ld'.at = r.at
    BY <2>1, <2>3 DEF Loads
  <2> QED
    BY <2>3, <2>4, <2>5, <2>6 DEF SameLoad
<1>7. CASE ld.member < Len(Members(Pool, ld.nodes))
  <2>1. Pool' = Pool
    BY <1>4, <1>7 DEF Pool
  <2>2. LoadInv' /\ Waiting' = Waiting
    BY <1>1, <1>2, <1>4, <1>7, <2>1 DEF LoadInv, SameLoad, Waiting
  <2>3. ASSUME NEW t, Pending(t), t # Member PROVE Pending(t)'
    <3>1. PICK j \in 1 .. Len(ld.pools) :
              \E k \in (IF j = 1 THEN ld.member ELSE 1) .. Len(Members(ld.pools[j], ld.nodes)) :
                  t = Members(ld.pools[j], ld.nodes)[k]
      BY <2>3 DEF Pending
    <3>2. PICK k \in (IF j = 1 THEN ld.member ELSE 1) .. Len(Members(ld.pools[j], ld.nodes)) :
              t = Members(ld.pools[j], ld.nodes)[k]
      BY <3>1
    <3>3. j = 1 => k # ld.member
      BY <1>2, <2>3, <3>2 DEF Member
    <3>4. k \in (IF j = 1 THEN ld.member + 1 ELSE 1) .. Len(Members(ld.pools[j], ld.nodes))
      BY <1>2, <3>2, <3>3
    <3> QED
      BY <1>4, <1>7, <3>2, <3>4 DEF Pending, SameLoad
  <2> QED
    BY <1>4, <1>7, <2>2, <2>3
<1>8. CASE ~(ld.member < Len(Members(Pool, ld.nodes))) /\ Len(ld.pools) > 1
  <2>0. /\ Tail(ld.pools) \in Seq(Pools) /\ Len(Tail(ld.pools)) = Len(ld.pools) - 1
        /\ Len(ld.pools) \in Nat
    BY <1>2, HeadTailProperties
  <2>1. \A j \in 1 .. Len(Tail(ld.pools)) : Tail(ld.pools)[j] = ld.pools[j + 1]
    BY <1>2, HeadTailProperties
  <2>2. Range(Tail(ld.pools)) \subseteq Range(ld.pools)
    BY <1>2, RangeOfTail
  <2>3. Tail(ld.pools) # <<>>
    <3> DEFINE n == Len(ld.pools)
               m == Len(Tail(ld.pools))
    <3>1. m = n - 1 /\ n \in Nat /\ n > 1
      BY <1>8, <2>0
    <3> HIDE DEF n, m
    <3>2. m # 0
      BY <3>1
    <3> QED
      BY <2>0, <3>2, EmptySeq DEF m
  <2>4. Pool' \in Range(PoolsOf(ld.nodes))
    <3>1. Head(Tail(ld.pools)) \in Range(Tail(ld.pools))
      BY <2>0, <2>3, RangeOfTail
    <3> QED
      BY <1>2, <1>5, <1>8, <2>2, <3>1 DEF Pool
  <2>5. 1 <= Len(Members(Pool', ld.nodes))
    BY <1>3, <2>4
  <2>6. LoadInv' /\ Waiting' = Waiting
    BY <1>1, <1>2, <1>5, <1>8, <2>2, <2>3, <2>5 DEF LoadInv, SameLoad, Waiting
  <2>7. ASSUME NEW t, Pending(t), t # Member PROVE Pending(t)'
    <3>1. PICK j \in 1 .. Len(ld.pools) :
              \E k \in (IF j = 1 THEN ld.member ELSE 1) .. Len(Members(ld.pools[j], ld.nodes)) :
                  t = Members(ld.pools[j], ld.nodes)[k]
      BY <2>7 DEF Pending
    <3>2. PICK k \in (IF j = 1 THEN ld.member ELSE 1) .. Len(Members(ld.pools[j], ld.nodes)) :
              t = Members(ld.pools[j], ld.nodes)[k]
      BY <3>1
    <3>3. j # 1
      BY <1>2, <1>8, <2>7, <3>2 DEF Member
    <3>4. /\ j - 1 \in 1 .. Len(Tail(ld.pools)) /\ Tail(ld.pools)[j - 1] = ld.pools[j]
          /\ k \in 1 .. Len(Members(ld.pools[j], ld.nodes))
      BY <2>0, <2>1, <3>2, <3>3
    <3> DEFINE n == j - 1
    <3>5. /\ n \in 1 .. Len(ld'.pools) /\ ld'.pools[n] = ld.pools[j] /\ ld'.nodes = ld.nodes
          /\ k \in (IF n = 1 THEN ld'.member ELSE 1) .. Len(Members(ld.pools[j], ld.nodes))
          /\ ld'.pc = "register"
      BY <1>5, <1>8, <3>4 DEF SameLoad
    <3> HIDE DEF n
    <3> QED
      BY <3>2, <3>5 DEF Pending
  <2> QED
    BY <1>5, <1>8, <2>6, <2>7
<1>9. CASE ~(ld.member < Len(Members(Pool, ld.nodes))) /\ ~(Len(ld.pools) > 1)
  <2>1. LoadInv' /\ Waiting' = Waiting
    BY <1>1, <1>2, <1>6, <1>9 DEF LoadInv, SameLoad, Waiting
  <2>2. ASSUME NEW t, Pending(t) PROVE t = Member
    <3>1. PICK j \in 1 .. Len(ld.pools) :
              \E k \in (IF j = 1 THEN ld.member ELSE 1) .. Len(Members(ld.pools[j], ld.nodes)) :
                  t = Members(ld.pools[j], ld.nodes)[k]
      BY <2>2 DEF Pending
    <3>2. PICK k \in (IF j = 1 THEN ld.member ELSE 1) .. Len(Members(ld.pools[j], ld.nodes)) :
              t = Members(ld.pools[j], ld.nodes)[k]
      BY <3>1
    <3>3. j = 1 /\ Len(ld.pools) \in Nat
      BY <1>2, <1>9, <3>2
    <3> QED
      BY <1>2, <1>9, <3>2, <3>3 DEF Member
  <2> QED
    BY <1>6, <1>9, <2>1, <2>2
<1> QED
  BY <1>7, <1>8, <1>9

\* Every step leaves the goroutine as it should be.
LEMMA LoadKept == Base /\ [Next]_vars => ld' \in Loads /\ LoadInv' /\ Counters'
<1> SUFFICES ASSUME Base, [Next]_vars PROVE ld' \in Loads /\ LoadInv' /\ Counters'
  OBVIOUS
<1>0. /\ Shapes /\ LoadInv /\ Counters /\ ld \in Loads /\ Len(inst) \in Nat
  BY DEF Base, Shapes
<1>1. CASE \/ BeginReload \/ ResetSharedStateStore \/ BumpGeneration \/ PortConflict
           \/ ReloadFails \/ RollbackFails \/ Publish
  BY <1>1, LoadBegins
<1>2. CASE CreateInstance
  BY <1>2, LoadCreates
<1>3. CASE RegisterNode \/ SetRelease \/ StartPool \/ PoolStarted
  BY <1>3, LoadStays
<1>4. CASE SetProbe
  <2>1. /\ ld' \in Loads /\ ld'.pc \in {"register", "start"} /\ LoadInv'
    BY <1>4, SetGoesOn DEF SameLoad
  <2>2. /\ inst' = inst /\ generation' = generation /\ epoch' = epoch /\ ld.pc = "register"
    BY <1>4 DEF SetProbe
  <2> QED
    BY <1>0, <2>1, <2>2 DEF Counters
<1>5. CASE Quiet
  <2>1. /\ ld' = ld /\ running' = running /\ generation' = generation /\ epoch' = epoch
    BY <1>5 DEF Quiet
  <2>2. ~CreateInstance
    <3>1. ASSUME CreateInstance PROVE ld' # ld
      BY <1>0, <3>1 DEF CreateInstance, Loads
    <3> QED
      BY <2>1, <3>1
  <2>3. Len(inst') = Len(inst) /\ \A i \in 1 .. Len(inst) : inst'[i].nodes = inst[i].nodes
    BY <2>2, SameInstances DEF InstStep
  <2>4. Pool' = Pool /\ Member' = Member
    BY <2>1 DEF Pool, Member
  <2>5. ld.inst # 0 => ld.inst \in 1 .. Len(inst)
    BY <1>0, LoadFacts
  <2>6. ld.pc = "register" => Member \in Tags
    BY <1>0, LoadFacts DEF LoadInv
  <2>7. \A t \in Tags : entries[t] # None => entries'[t] # None
    BY GrowsDoes DEF Grows
  <2> QED
    BY <1>0, <2>1, <2>3, <2>4, <2>5, <2>6, <2>7 DEF LoadInv, Counters
<1> QED
  BY <1>1, <1>2, <1>3, <1>4, <1>5, QuietDoes DEF Load

\* Where it goes, and what becomes of the instance that runs.
Begins == running # 0 /\ ld'.pc = "reset" /\ ld'.inst = 0 /\ running' = 0
                      /\ generation' = generation /\ epoch' = epoch
Resets == ld.pc = "reset" /\ ld'.pc = "bump" /\ ld'.inst = 0 /\ running' = 0
                          /\ generation' = generation /\ epoch' = epoch + 1
Bumps  == BumpGeneration /\ ld'.pc = "create" /\ ld'.inst = 0 /\ running' = 0
                         /\ generation' = generation + 1 /\ epoch' = epoch
GoesBack == ld.inst # 0 /\ ld'.pc \in {"create", "idle"} /\ ld'.inst = 0 /\ running' = 0
                        /\ generation' = generation /\ epoch' \in {epoch, epoch + 1}
Creates == /\ CreateInstance /\ ld.pc = "create" /\ ld.inst = 0 /\ running = 0 /\ running' = 0
           /\ ld'.inst = Len(inst) + 1 /\ generation' = generation /\ epoch' = epoch
           /\ ld'.pc = "register" /\ ld'.nodes = ld.nodes
Works == /\ ld.inst # 0 /\ ld'.inst = ld.inst /\ ld'.pc \in {"register", "start"}
         /\ running = 0 /\ running' = 0 /\ generation' = generation /\ epoch' = epoch
         /\ Waiting \subseteq Waiting' \cup (IF PoolStarted THEN {Pool} ELSE {})
Publishes == Publish /\ ld.inst # 0 /\ Waiting = {} /\ ld'.inst = 0 /\ ld'.pc = "idle"
                     /\ running = 0 /\ running' = ld.inst
                     /\ generation' = generation /\ epoch' = epoch

LoadStep ==
    Begins \/ Resets \/ Bumps \/ GoesBack \/ Creates \/ Works \/ Publishes
    \/ (Quiet /\ ~CreateInstance /\ ~Publish)

LEMMA LoadMoves == Base /\ [Next]_vars => LoadStep
<1> SUFFICES ASSUME Base, [Next]_vars PROVE LoadStep
  OBVIOUS
<1>0. /\ Shapes /\ LoadInv /\ ld \in Loads /\ LoadInv' /\ ld' \in Loads
      /\ NoLoad.pc = "idle" /\ NoLoad.inst = 0
  BY LoadKept, NoLoadType DEF Base, Shapes
<1>1. CASE BeginReload
  BY <1>0, <1>1, ReloadsTo, Zenon DEF LoadStep, Begins, Loads, NoLoad
<1>2. CASE ResetSharedStateStore
  <2>1. ld.pc = "reset" /\ ld'.pc = "bump" /\ running' = running
    BY <1>0, <1>2 DEF ResetSharedStateStore, Loads
  <2>2. running = 0 /\ ld'.inst = 0
    BY <1>0, <2>1 DEF LoadInv
  <2> QED
    BY <1>2, <2>1, <2>2 DEF LoadStep, Resets, ResetSharedStateStore
<1>3. CASE BumpGeneration
  <2>1. ld.pc = "bump" /\ ld'.pc = "create" /\ running' = running
    BY <1>0, <1>3 DEF BumpGeneration, Loads
  <2>2. running = 0 /\ ld'.inst = 0
    BY <1>0, <2>1 DEF LoadInv
  <2> QED
    BY <1>3, <2>1, <2>2 DEF LoadStep, Bumps, BumpGeneration
<1>4. CASE PortConflict \/ ReloadFails \/ RollbackFails
  <2>1. /\ ld.pc \in {"register", "start"} /\ ld'.pc \in {"create", "idle"} /\ running' = running
    <3>1. CASE PortConflict
      BY <1>0, <3>1 DEF PortConflict, Loads
    <3>2. CASE ReloadFails
      <4>1. NoLoad \in Loads /\ ld' = [NoLoad EXCEPT !.pc = "create", !.what = "rollback",
                                                     !.nodes = ld.old]
        BY <3>2, NoLoadType DEF ReloadFails
      <4>2. ld'.pc = "create"
        BY <4>1 DEF Loads
      <4> QED
        BY <3>2, <4>2 DEF ReloadFails
    <3>3. CASE RollbackFails
      BY <1>0, <3>3 DEF RollbackFails
    <3> QED
      BY <1>4, <3>1, <3>2, <3>3
  <2>2. running = 0 /\ ld.inst # 0 /\ ld'.inst = 0
    BY <1>0, <2>1 DEF LoadInv
  <2>3. generation' = generation /\ epoch' \in {epoch, epoch + 1}
    BY <1>4, Zenon DEF PortConflict, ReloadFails, RollbackFails
  <2> QED
    BY <2>1, <2>2, <2>3 DEF LoadStep, GoesBack
<1>5. CASE CreateInstance
  <2>1. ld.pc = "create" /\ generation' = generation /\ epoch' = epoch /\ running' = running
    BY <1>5 DEF CreateInstance
  <2>2. ld'.pc = "register" /\ ld'.inst = Len(inst) + 1 /\ ld'.nodes = ld.nodes
    <3> DEFINE n == Len(inst) + 1
               pools == PoolsOf(ld.nodes)
    <3>1. ld' = [ld EXCEPT !.pc = "register", !.inst = n, !.pools = pools]
      BY <1>5 DEF CreateInstance
    <3> HIDE DEF n, pools
    <3>2. ld'.pc = "register" /\ ld'.inst = n /\ ld'.nodes = ld.nodes
      BY <1>0, <3>1 DEF Loads
    <3> QED
      BY <3>2 DEF n
  <2>3. running = 0 /\ ld.inst = 0
    BY <1>0, <2>1 DEF LoadInv
  <2> QED
    BY <1>5, <2>1, <2>2, <2>3 DEF LoadStep, Creates
<1>6. ASSUME RegisterNode \/ SetRelease \/ SetProbe \/ StartPool \/ PoolStarted,
             ld'.pc \in {"register", "start"}, ld'.inst = ld.inst,
             Waiting \subseteq Waiting' \cup (IF PoolStarted THEN {Pool} ELSE {})
      PROVE  LoadStep
  <2>1. ld.inst # 0 /\ running = 0
    BY <1>0, <1>6 DEF LoadInv, RegisterNode, SetRelease, SetProbe, StartPool, PoolStarted
  <2>2. generation' = generation /\ epoch' = epoch /\ running' = running
    BY <1>6, Zenon DEF RegisterNode, SetRelease, SetProbe, StartPool, PoolStarted
  <2> QED
    BY <1>6, <2>1, <2>2 DEF LoadStep, Works
<1>7. CASE RegisterNode \/ SetRelease \/ StartPool
  <2>1. PICK a \in {"release", "probe", "members"} : ld' = [ld EXCEPT !.at = a]
    BY <1>7 DEF RegisterNode, SetRelease, StartPool
  <2>2. ld'.pc = ld.pc /\ ld'.inst = ld.inst /\ ld'.nodes = ld.nodes /\ ld'.pools = ld.pools
    BY <1>0, <2>1 DEF Loads
  <2>3. Waiting' = Waiting /\ ld.pc \in {"register", "start"}
    BY <1>7, <2>2 DEF Waiting, RegisterNode, SetRelease, StartPool
  <2> QED
    BY <1>6, <1>7, <2>2, <2>3
<1>8. CASE SetProbe
  BY <1>6, <1>8, SetGoesOn
<1>9. CASE PoolStarted
  <2> DEFINE q == Tail(ld.pools)
  <2>1. /\ ld.pc = "start" /\ ld.pools # <<>> /\ ld.pools \in Seq(Pools)
        /\ ld' = [ld EXCEPT !.at = "entry", !.pools = q]
    BY <1>0, <1>9 DEF PoolStarted, Loads
  <2>2. Range(ld.pools) = {Pool} \cup Range(q)
    BY <2>1, RangeOfTail DEF Pool
  <2> HIDE DEF q
  <2>3. ld'.pc = ld.pc /\ ld'.inst = ld.inst /\ ld'.pools = q
    BY <1>0, <2>1 DEF Loads
  <2>4. Waiting = {Pool} \cup Waiting'
    BY <2>1, <2>2, <2>3 DEF Waiting
  <2> QED
    BY <1>6, <1>9, <2>1, <2>3, <2>4
<1>10. CASE Publish
  <2>1. /\ ld.pc = "start" /\ ld.pools = <<>> /\ running' = ld.inst /\ ld' = NoLoad
        /\ generation' = generation /\ epoch' = epoch
    BY <1>10 DEF Publish
  <2>2. running = 0 /\ ld.inst # 0
    BY <1>0, <2>1 DEF LoadInv
  <2>3. Waiting = {}
    BY <2>1 DEF Waiting, Range
  <2> QED
    BY <1>0, <1>10, <2>1, <2>2, <2>3 DEF LoadStep, Publishes
<1>11. CASE Quiet /\ ~CreateInstance /\ ~Publish
  BY <1>11 DEF LoadStep
<1> QED
  BY <1>1, <1>2, <1>3, <1>4, <1>5, <1>7, <1>8, <1>9, <1>10, <1>11, QuietDoes DEF Load

-----------------------------------------------------------------------------
(* The instances *)

\* An instance is of this generation as long as it is the newest.
LEMMA NewestDoes ==
    Base /\ [Next]_vars =>
        \/ Newest' = 0
        \/ Newest' = Newest /\ generation' = generation /\ epoch' = epoch
        \/ Creates /\ Newest = 0 /\ Newest' = Len(inst) + 1
  BY LoadMoves DEF LoadStep, Begins, Resets, Bumps, GoesBack, Creates, Works, Publishes, Quiet,
                   Newest

\* What the pools of an instance hold, from one step to the next.
LEMMA HeldKept ==
    ASSUME Base, [Next]_vars, ~CreateInstance, NEW i \in 1 .. Len(inst), NEW p \in Pools
    PROVE  /\ inst'[i].held[p] \in Seq(1 .. epoch')
           /\ \/ inst'[i].held[p] = <<>>
              \/ Len(inst'[i].held[p]) = Len(Members(p, inst'[i].nodes))
           /\ inst[i].held[p] # <<>> => inst'[i].held[p] # <<>>
           /\ \/ inst'[i].held[p] = inst[i].held[p]
              \/ \E m \in inits : m.inst = i /\ m.pool = p /\ inst'[i].held[p] = m.states
<1>0. /\ Shapes /\ InstanceInv(i) /\ InstStep(i) /\ inst'[i].nodes = inst[i].nodes
      /\ epoch \in Nat /\ epoch' \in Nat /\ epoch <= epoch'
  BY SameInstances, GrowsDoes DEF Base, Shapes, InstStep, Grows
<1>1. 1 .. epoch \subseteq 1 .. epoch'
  BY <1>0
<1>2. CASE inst'[i].held[p] = inst[i].held[p]
  <2>1. /\ inst[i].held[p] \in Seq(1 .. epoch)
        /\ inst[i].held[p] = <<>> \/ Len(inst[i].held[p]) = Len(Members(p, inst[i].nodes))
    BY <1>0 DEF InstanceInv
  <2>2. inst[i].held[p] \in Seq(1 .. epoch')
    BY <1>1, <2>1, SeqGrows
  <2> QED
    BY <1>0, <1>2, <2>1, <2>2
<1>3. ASSUME NEW m \in inits, HeldBy(i, m), m.pool = p
      PROVE  /\ inst'[i].held[p] \in Seq(1 .. epoch') /\ inst'[i].held[p] # <<>>
             /\ Len(inst'[i].held[p]) = Len(Members(p, inst'[i].nodes))
             /\ m.inst = i /\ m.pool = p /\ inst'[i].held[p] = m.states
  <2>1. /\ m.inst = i /\ inst'[i].held[p] = m.states /\ Len(m.states) = Len(MembersOf(m))
    BY <1>3 DEF HeldBy
  <2>2. InitInv(m)
    BY DEF Base
  <2>3. m.states \in Seq(1 .. epoch) /\ m.states # <<>>
    BY <1>0, <2>2, CallFacts DEF InitInv
  <2>4. m.states \in Seq(1 .. epoch')
    BY <1>1, <2>3, SeqGrows
  <2> QED
    BY <1>0, <1>3, <2>1, <2>3, <2>4 DEF MembersOf
<1>4. CASE \E m \in inits : HeldBy(i, m) /\ m.pool # p
  BY <1>2, <1>4 DEF HeldBy
<1>5. CASE inst'[i] = inst[i] \/ Started(i) \/ Published(i)
  BY <1>2, <1>5 DEF Started, Published
<1>6. CASE \E m \in inits : HeldBy(i, m)
  <2>1. PICK m \in inits : HeldBy(i, m)
    BY <1>6
  <2>2. CASE m.pool = p
    BY <1>3, <2>1, <2>2
  <2>3. CASE m.pool # p
    BY <1>4, <2>1, <2>3
  <2> QED
    BY <2>2, <2>3
<1> QED
  BY <1>0, <1>5, <1>6 DEF InstStep

\* What the other fields become.
LEMMA StartedKept ==
    ASSUME Base, [Next]_vars, ~CreateInstance, NEW i \in 1 .. Len(inst)
    PROVE  /\ inst[i].up \in BOOLEAN /\ inst'[i].up \in BOOLEAN
           /\ (Publishes /\ i = ld.inst) \/ inst'[i].up = inst[i].up
           /\ Publishes /\ i = ld.inst => inst'[i].up
           /\ inst[i].started \subseteq inst'[i].started
           /\ \A p \in inst'[i].started \ inst[i].started :
                 p = Pool /\ PoolStarted /\ i = ld.inst /\ inst[i].held[p] # <<>>
           /\ PoolStarted /\ i = ld.inst => Pool \in inst'[i].started
<1>0. /\ Shapes /\ LoadInv /\ InstStep(i) /\ inst' \in Seq(Instance) /\ Len(inst') = Len(inst)
      /\ LoadStep /\ inst \in Seq(Instance)
  BY SameInstances, LoadMoves DEF Base, Shapes
<1>1. inst[i] \in Instance /\ inst'[i] \in Instance
  BY <1>0, ElementOfSeq
<1>2. ASSUME Publish PROVE Publishes
  <2>1. running' = ld.inst /\ ld.inst # 0 /\ ld'.inst = 0
    <3>1. ld.pc = "start" /\ running' = ld.inst /\ ld' = NoLoad
      BY <1>2 DEF Publish
    <3> QED
      BY <1>0, <3>1, NoLoadType DEF LoadInv
  <2> QED
    BY <1>0, <1>2, <2>1 DEF LoadStep, Begins, Resets, Bumps, GoesBack, Creates, Works
<1>3. ASSUME PoolStarted, i = ld.inst
      PROVE  inst'[i].started = inst[i].started \cup {Pool} /\ inst[i].held[Pool] # <<>>
  <2> DEFINE r == [inst[i] EXCEPT !.started = inst[i].started \cup {Pool}]
  <2>1. inst' = [inst EXCEPT ![i] = r] /\ inst[i].held[Pool] # <<>>
    BY <1>3 DEF PoolStarted
  <2>2. r.started = inst[i].started \cup {Pool}
    BY <1>1 DEF Instance
  <2> HIDE DEF r
  <2>3. inst'[i] = r
    BY <1>0, <2>1
  <2> QED
    BY <2>1, <2>2, <2>3
<1>4. ASSUME Publishes, i = ld.inst PROVE inst'[i].up
  <2> DEFINE r == [inst[i] EXCEPT !.up = TRUE]
  <2>1. inst' = [inst EXCEPT ![i] = r]
    BY <1>4 DEF Publishes, Publish
  <2>2. r.up = TRUE
    BY <1>1 DEF Instance
  <2> HIDE DEF r
  <2>3. inst'[i] = r
    BY <1>0, <2>1
  <2> QED
    BY <2>2, <2>3
<1>5. CASE inst'[i] = inst[i] \/ Started(i) \/ \E m \in inits : HeldBy(i, m)
  <2>1. inst'[i].up = inst[i].up
    BY <1>5 DEF Started, HeldBy
  <2>2. inst'[i].started = inst[i].started \/ Started(i)
    BY <1>5 DEF HeldBy
  <2> QED
    BY <1>1, <1>3, <1>4, <2>1, <2>2 DEF Instance, Started
<1>6. CASE Published(i)
  <2>1. Publishes /\ i = ld.inst /\ inst'[i].started = inst[i].started
    BY <1>2, <1>6 DEF Published
  <2> QED
    BY <1>1, <1>3, <1>4, <2>1 DEF Instance
<1> QED
  BY <1>0, <1>5, <1>6 DEF InstStep

\* Every step keeps what is known of the instances.
LEMMA InstancesKept ==
    Base /\ [Next]_vars => \A i \in 1 .. Len(inst') : InstanceInv(i)'
<1> SUFFICES ASSUME Base, [Next]_vars PROVE \A i \in 1 .. Len(inst') : InstanceInv(i)'
  OBVIOUS
<1>0. /\ Shapes /\ LoadInv /\ Len(inst) \in Nat /\ generation \in Nat \ {0} /\ LoadStep /\ Grows
      /\ epoch \in Nat \ {0} /\ running \in 0 .. Len(inst)
  BY GrowsDoes, LoadMoves DEF Base, Shapes
<1>1. ASSUME NEW i \in 1 .. Len(inst), ~CreateInstance PROVE InstanceInv(i)'
  <2>0. InstanceInv(i) /\ i # 0 /\ ~Creates
    BY <1>0, <1>1 DEF Base, Creates
  <2>1. /\ inst'[i].nodes = inst[i].nodes /\ inst'[i].gen = inst[i].gen
        /\ PoolsIn(i)' = PoolsIn(i) /\ inst'[i].gen <= generation'
        /\ generation <= generation' /\ inst[i].gen \in Nat
    <3>1. inst[i].gen \in Nat /\ inst[i].gen <= generation
      BY <1>0, <2>0, InstFacts DEF Instance, InstanceInv
    <3> QED
      BY <1>0, <3>1 DEF Grows
  <2>2. \A p \in Pools :
           /\ inst'[i].held[p] \in Seq(1 .. epoch')
           /\ \/ inst'[i].held[p] = <<>>
              \/ Len(inst'[i].held[p]) = Len(Members(p, inst'[i].nodes))
           /\ inst[i].held[p] # <<>> => inst'[i].held[p] # <<>>
    BY <1>1, HeldKept
  <2>3. /\ inst[i].up \in BOOLEAN /\ inst'[i].up \in BOOLEAN
        /\ (Publishes /\ i = ld.inst) \/ inst'[i].up = inst[i].up
        /\ Publishes /\ i = ld.inst => inst'[i].up
        /\ inst[i].started \subseteq inst'[i].started
        /\ \A p \in inst'[i].started \ inst[i].started :
              p = Pool /\ PoolStarted /\ i = ld.inst /\ inst[i].held[p] # <<>>
        /\ PoolStarted /\ i = ld.inst => Pool \in inst'[i].started
    BY <1>1, StartedKept
  <2>4. \A p \in inst'[i].started : p \in Pools /\ inst'[i].held[p] # <<>>
    <3>1. ASSUME NEW p \in inst[i].started PROVE p \in Pools /\ inst[i].held[p] # <<>>
      BY <1>0, <2>0, <3>1, InstFacts DEF Instance, InstanceInv
    <3>2. ASSUME NEW p \in inst'[i].started \ inst[i].started
          PROVE  p \in Pools /\ inst[i].held[p] # <<>>
      <4>1. p = Pool /\ PoolStarted /\ inst[i].held[p] # <<>>
        BY <2>3, <3>2
      <4>2. ld.pools # <<>> /\ ld.inst # 0
        BY <1>0, <4>1 DEF PoolStarted, LoadInv
      <4> QED
        BY <1>0, <4>1, <4>2, LoadFacts
    <3> QED
      BY <2>2, <3>1, <3>2
  <2>5. i = Newest' => inst'[i].gen = generation'
    BY <2>0, <2>1, NewestDoes DEF InstanceInv
  <2>6. i = running' => inst'[i].up
    BY <1>0, <2>0, <2>3
    DEF LoadStep, Begins, Resets, Bumps, GoesBack, Works, Publishes, Quiet, InstanceInv
  <2>7. i = ld'.inst => ~inst'[i].up /\ PoolsIn(i)' \subseteq inst'[i].started \cup Waiting'
    <3>1. CASE Works
      BY <2>0, <2>1, <2>3, <3>1 DEF Works, InstanceInv, Publishes
    <3>2. CASE Quiet
      <4>1. ld' = ld /\ Waiting' = Waiting
        BY <3>2 DEF Quiet, Waiting
      <4>2. ~Publishes \/ i # ld.inst
        BY <2>0, <4>1 DEF Publishes
      <4> QED
        BY <2>0, <2>1, <2>3, <4>1, <4>2 DEF InstanceInv
    <3> QED
      BY <1>0, <2>0, <3>1, <3>2 DEF LoadStep, Begins, Resets, Bumps, GoesBack, Publishes
  <2>8. inst'[i].up => PoolsIn(i)' \subseteq inst'[i].started
    BY <2>0, <2>1, <2>3 DEF Publishes, InstanceInv
  <2>9. inst'[i].up /\ inst'[i].gen = generation' =>
            i = running' \/ ld'.pc \in {"reset", "bump"}
    <3>1. CASE Bumps
      BY <1>0, <2>0, <2>1, <3>1 DEF Bumps, InstanceInv
    <3>2. CASE Publishes
      <4>1. ld.pc = "start" /\ running = 0
        BY <3>2 DEF Publishes, Publish
      <4> QED
        BY <2>0, <2>1, <2>3, <3>2, <4>1 DEF Publishes, InstanceInv
    <3>3. CASE Begins \/ Resets
      BY <3>3 DEF Begins, Resets
    <3>4. CASE GoesBack \/ Works
      <4>1. ld.pc \in {"register", "start"} /\ running = 0
        BY <1>0, <3>4 DEF GoesBack, Works, LoadInv
      <4> QED
        BY <1>0, <2>0, <2>1, <2>3, <3>4, <4>1
        DEF GoesBack, Works, Publishes, InstanceInv
    <3>5. CASE Quiet /\ ~Publish
      BY <2>0, <2>1, <2>3, <3>5 DEF Quiet, Publishes, InstanceInv
    <3> QED
      BY <1>0, <2>0, <3>1, <3>2, <3>3, <3>4, <3>5 DEF LoadStep
  <2> QED
    BY <2>1, <2>2, <2>4, <2>5, <2>6, <2>7, <2>8, <2>9 DEF InstanceInv
<1>2. ASSUME CreateInstance, NEW i \in 1 .. Len(inst) PROVE InstanceInv(i)'
  <2>0. InstanceInv(i) /\ inst'[i] = inst[i] /\ Creates /\ i # Len(inst) + 1
    <3>1. Creates
      BY <1>0, <1>2 DEF LoadStep, Begins, Resets, Bumps, GoesBack, Works, Publishes, CreateInstance,
        LoadInv
    <3> QED
      BY <1>0, <1>2, <3>1, CreatesOne DEF Base, Created
  <2>1. i # Newest' /\ i # ld'.inst /\ i # running'
    BY <2>0 DEF Creates, Newest
  <2>2. \A p \in Pools : inst[i].held[p] \in Seq(1 .. epoch')
    BY <2>0 DEF Creates, InstanceInv
  <2>3. PoolsIn(i)' = PoolsIn(i) /\ running = 0 /\ ld.pc = "create"
    BY <1>0, <2>0 DEF Grows, Creates
  <2> QED
    BY <2>0, <2>1, <2>2, <2>3 DEF Creates, InstanceInv
<1>3. ASSUME CreateInstance, NEW n, n = Len(inst) + 1 PROVE InstanceInv(n)'
  <2>1. Creates /\ n # 0
    BY <1>0, <1>3 DEF LoadStep, Begins, Resets, Bumps, GoesBack, Works, Publishes, CreateInstance,
                      LoadInv
  <2>2. inst'[n] = [nodes |-> ld.nodes, gen |-> generation,
                    held |-> [p \in Pools |-> <<>>], started |-> {}, up |-> FALSE]
    BY <1>3, CreatesOne DEF Created
  <2>3. /\ inst'[n].nodes = ld.nodes /\ inst'[n].gen = generation /\ inst'[n].started = {}
        /\ inst'[n].up = FALSE /\ \A p \in Pools : inst'[n].held[p] = <<>>
    BY <2>2
  <2>4. <<>> \in Seq(1 .. epoch')
    BY EmptySeq
  <2>5. PoolsIn(n)' = Range(PoolsOf(ld.nodes)) /\ Waiting' = Range(PoolsOf(ld.nodes))
    BY <2>1, <2>3 DEF PoolsIn, Waiting, Creates
  <2>6. \A p \in Pools :
           /\ inst'[n].held[p] \in Seq(1 .. epoch')
           /\ \/ inst'[n].held[p] = <<>>
              \/ Len(inst'[n].held[p]) = Len(Members(p, inst'[n].nodes))
    BY <2>3, <2>4
  <2>7. inst'[n].gen = generation' /\ generation' <= generation' /\ n # running'
    BY <1>0, <2>1, <2>3 DEF Creates
  <2>8. PoolsIn(n)' \subseteq inst'[n].started \cup Waiting' /\ ~inst'[n].up
        /\ \A p \in inst'[n].started : inst'[n].held[p] # <<>>
    BY <2>3, <2>5
  <2> QED
    BY <2>6, <2>7, <2>8, Zenon DEF InstanceInv
<1>4. CASE CreateInstance
  <2>1. Len(inst') = Len(inst) + 1
    BY <1>4, CreatesOne DEF Created
  <2> SUFFICES ASSUME NEW i \in 1 .. Len(inst') PROVE InstanceInv(i)'
    OBVIOUS
  <2>2. i \in 1 .. Len(inst) \/ i = Len(inst) + 1
    BY <1>0, <2>1
  <2> QED
    BY <1>2, <1>3, <1>4, <2>2
<1>5. CASE ~CreateInstance
  BY <1>1, <1>5, SameInstances
<1> QED
  BY <1>4, <1>5

-----------------------------------------------------------------------------
(* The entries *)

\* What a function is of stays there.
LEMMA FunctionKept ==
    ASSUME Grows, NEW f, NEW t, FunctionOk(f, t) PROVE FunctionOk(f, t)'
<1>1. CASE f.inst = 0
  BY <1>1 DEF FunctionOk
<1>2. CASE f.inst # 0
  <2>1. /\ f.inst \in 1 .. Len(inst) /\ f.pool \in PoolsIn(f.inst)
        /\ t \in Range(Members(f.pool, inst[f.inst].nodes))
    BY <1>2 DEF FunctionOk
  <2>2. /\ f.inst \in 1 .. Len(inst') /\ inst'[f.inst].nodes = inst[f.inst].nodes
        /\ PoolsIn(f.inst)' = PoolsIn(f.inst)
    BY <2>1 DEF Grows
  <2> QED
    BY <2>1, <2>2 DEF FunctionOk
<1> QED
  BY <1>1, <1>2

\* A function by tag is of the pool that is registered.
LEMMA ByTagOk ==
    ASSUME Base, ld.pc = "register"
    PROVE  /\ ByTag \in Function /\ FunctionOk(ByTag, Member)
           /\ ByTag.inst = Newest /\ ByTag.inst # 0 /\ ByTag.state = 0
<1>1. Shapes /\ LoadInv /\ ld.inst # 0 /\ ld \in Loads
  BY DEF Base, Shapes, LoadInv
<1>2. /\ ld.inst \in 1 .. Len(inst) /\ Newest = ld.inst /\ inst[ld.inst].nodes = ld.nodes
      /\ Pool \in Pools /\ Pool \in PoolsIn(ld.inst)
      /\ Member \in Range(Members(Pool, ld.nodes))
  BY <1>1, LoadFacts
<1>3. ByTag.inst = ld.inst /\ ByTag.pool = Pool /\ ByTag.state = 0 /\ ByTag \in Function
  BY <1>1, <1>2 DEF ByTag, Function
<1> QED
  BY <1>1, <1>2, <1>3 DEF FunctionOk

\* Every step leaves the functions in the entries well formed.
LEMMA EntriesKept == Base /\ [Next]_vars => \A t \in Tags : EntryInv(t)'
<1> SUFFICES ASSUME Base, [Next]_vars, NEW t \in Tags, entries'[t] # None PROVE EntryInv(t)'
  BY DEF EntryInv
<1>0. /\ Shapes /\ EntryInv(t) /\ Grows /\ EntryStep(t) /\ NoFunction.inst = 0
      /\ generation \in Nat /\ generation' \in Nat /\ generation <= generation'
  BY EntryDoes, GrowsDoes DEF Base, Shapes, NoFunction, Grows
<1>1. ASSUME NEW f, NEW g, entries'[t].probe = f, entries'[t].release = g,
             FunctionOk(f, t), FunctionOk(g, t), entries'[t].gen <= generation'
      PROVE  EntryInv(t)'
  <2>1. FunctionOk(f, t)' /\ FunctionOk(g, t)'
    BY <1>0, <1>1, FunctionKept
  <2> QED
    BY <1>1, <2>1 DEF EntryInv, FunctionOk, PoolsIn
<1>2. FunctionOk(NoFunction, t)
  BY <1>0 DEF FunctionOk
<1>3. ASSUME entries[t] # None
      PROVE  /\ entries[t].gen <= generation'
             /\ FunctionOk(entries[t].probe, t) /\ FunctionOk(entries[t].release, t)
  <2>1. entries[t].gen \in Nat /\ entries[t].gen <= generation
    BY <1>0, <1>3 DEF EntryInv, Shapes, Entry
  <2> QED
    BY <1>0, <1>3, <2>1 DEF EntryInv
<1>4. CASE entries'[t] = entries[t] \/ Kept(t)
  BY <1>1, <1>3, <1>4 DEF Kept
<1>5. ASSUME NEW gen, gen <= generation', RegisteredBy(t, gen) PROVE EntryInv(t)'
  BY <1>1, <1>2, <1>3, <1>5 DEF RegisteredBy
<1>6. ASSUME NEW f, FunctionOk(f, t), ReleaseBy(t, f) \/ ProbeBy(t, f) PROVE EntryInv(t)'
  BY <1>1, <1>3, <1>6 DEF ReleaseBy, ProbeBy
<1>7. CASE RegisterNode /\ RegisteredBy(t, generation)
  BY <1>0, <1>5, <1>7
<1>8. CASE /\ t = Member
           /\ (SetRelease /\ ReleaseBy(t, ByTag)) \/ (SetProbe /\ ProbeBy(t, ByTag))
  <2>1. ld.pc = "register"
    BY <1>8 DEF SetRelease, SetProbe
  <2> QED
    BY <1>6, <1>8, <2>1, ByTagOk
<1>9. ASSUME NEW m \in inits, t = Current(m),
             \/ RegisteredBy(t, m.gen)
             \/ ReleaseBy(t, FunctionOf(m)) \/ ProbeBy(t, FunctionOf(m))
      PROVE  EntryInv(t)'
  <2>1. InitInv(m) /\ m.gen \in Nat /\ m.gen <= generation
    BY <1>0 DEF Base, InitInv, Shapes, InitCalls
  <2>2. FunctionOk(FunctionOf(m), t)
    BY <1>0, <1>9, <2>1, CallFacts
  <2>3. m.gen <= generation'
    BY <1>0, <2>1
  <2> QED
    BY <1>5, <1>6, <1>9, <2>2, <2>3
<1> QED
  BY <1>0, <1>4, <1>7, <1>8, <1>9 DEF EntryStep

-----------------------------------------------------------------------------
(* The calls that initialise members *)

\* A call keeps what is known of it, when nobody holds its pool's members yet.
LEMMA InitKept ==
    ASSUME Base, Grows, epoch \in Nat, epoch' \in Nat, NEW m \in inits,
           inst'[m.inst].held[m.pool] = <<>>
    PROVE  InitInv(m)'
<1>1. /\ Shapes /\ InitInv(m) /\ generation \in Nat /\ generation' \in Nat
      /\ generation <= generation' /\ epoch <= epoch' /\ m.gen \in Nat
      /\ m.inst \in 1 .. Len(inst) /\ Current(m) \in Tags
  BY CallFacts DEF Base, Shapes, InitCalls, Grows
<1>2. /\ m.inst \in 1 .. Len(inst') /\ inst'[m.inst].nodes = inst[m.inst].nodes
      /\ PoolsIn(m.inst)' = PoolsIn(m.inst)
  BY <1>1 DEF Grows
<1>3. MembersOf(m)' = MembersOf(m) /\ Current(m)' = Current(m)
  BY <1>2 DEF MembersOf, Current
<1>4. m.states \in Seq(1 .. epoch')
  <2>1. 1 .. epoch \subseteq 1 .. epoch' /\ m.states \in Seq(1 .. epoch)
    BY <1>1 DEF InitInv
  <2> QED
    BY <2>1, SeqGrows
<1>5. entries[Current(m)] # None => entries'[Current(m)] # None
  BY <1>1 DEF Grows
<1> QED
  BY <1>1, <1>2, <1>3, <1>4, <1>5 DEF InitInv

\* Nobody else gives a pool its members while a call initialises them.
LEMMA HeldStays ==
    ASSUME Base, [Next]_vars, NEW m \in inits, m \in inits'
    PROVE  inst'[m.inst].held[m.pool] = <<>>
<1>1. /\ m.inst \in 1 .. Len(inst) /\ inst[m.inst].held[m.pool] = <<>> /\ OneEach
      /\ m.pool \in Pools
  BY InstFacts DEF Base, InitInv
<1>2. CASE CreateInstance
  BY <1>1, <1>2, CreatesOne DEF Created
<1>3. CASE ~CreateInstance
  <2>1. InstStep(m.inst)
    BY <1>1, <1>3, SameInstances
  <2>2. ASSUME NEW n \in inits, HeldBy(m.inst, n)
        PROVE  inst'[m.inst].held[m.pool] = inst[m.inst].held[m.pool]
    <3>1. n # m /\ n.inst = m.inst
      BY <2>2 DEF HeldBy
    <3>2. m.pool # n.pool
      BY <1>1, <3>1 DEF OneEach
    <3> QED
      BY <1>1, <2>2, <3>2 DEF HeldBy
  <2> QED
    BY <1>1, <2>1, <2>2 DEF InstStep, Started, Published
<1> QED
  BY <1>2, <1>3

\* Every step keeps what is known of the calls under way.
LEMMA InitsKept ==
    Base /\ [Next]_vars => inits' \subseteq InitCalls /\ (\A m \in inits' : InitInv(m)') /\ OneEach'
<1> SUFFICES ASSUME Base, [Next]_vars
             PROVE  inits' \subseteq InitCalls /\ (\A m \in inits' : InitInv(m)') /\ OneEach'
  OBVIOUS
<1>0. /\ Shapes /\ Grows /\ OneEach /\ inits \subseteq InitCalls
      /\ epoch \in Nat \ {0} /\ epoch' \in Nat \ {0} /\ epoch <= epoch'
      /\ generation \in Nat \ {0} /\ generation' \in Nat \ {0} /\ generation <= generation'
  BY GrowsDoes DEF Base, Shapes, Grows
<1>1. ASSUME NEW m \in inits, m \in inits' PROVE InitInv(m)'
  BY <1>0, <1>1, HeldStays, InitKept
<1>2. CASE inits' = inits
  BY <1>0, <1>1, <1>2 DEF OneEach
<1>3. ASSUME NEW n \in inits, HeldBy(n.inst, n)
      PROVE  inits' \subseteq InitCalls /\ (\A m \in inits' : InitInv(m)') /\ OneEach'
  <2>1. inits' = inits \ {n}
    BY <1>3 DEF HeldBy
  <2> QED
    BY <1>0, <1>1, <2>1 DEF OneEach
<1>4. ASSUME NEW n, NEW i \in 1 .. Len(inst), NEW p \in PoolsIn(i), BeginsFor(n, i, p)
      PROVE  inits' \subseteq InitCalls /\ (\A m \in inits' : InitInv(m)') /\ OneEach'
  <2>1. /\ inits' = inits \cup {n} /\ inst' = inst /\ inst[i].held[p] = <<>>
        /\ n = [inst |-> i, pool |-> p, states |-> <<epoch>>, step |-> "load", gen |-> 0]
        /\ \A m \in inits : ~(m.inst = i /\ m.pool = p)
    BY <1>4 DEF BeginsFor, Initializing
  <2>2. /\ n.inst = i /\ n.pool = p /\ n.states = <<epoch>> /\ n.step = "load" /\ n.gen = 0
    BY <2>1
  <2>3. /\ p \in Pools /\ Len(Members(p, inst[i].nodes)) \in Nat \ {0}
    BY <1>0, InstFacts
  <2>4. /\ <<epoch>> \in Seq(Nat \ {0}) /\ <<epoch>> \in Seq(1 .. epoch') /\ Len(<<epoch>>) = 1
    BY <1>0
  <2>5. n \in InitCalls
    BY <1>0, <2>1, <2>3, <2>4 DEF InitCalls
  <2>6. InitInv(n)'
    <3>1. PoolsIn(n.inst)' = PoolsIn(i) /\ n.inst \in 1 .. Len(inst')
      BY <2>1, <2>2 DEF PoolsIn
    <3>2. MembersOf(n)' = Members(p, inst[i].nodes)
      BY <2>1, <2>2 DEF MembersOf
    <3> QED
      BY <1>0, <2>1, <2>2, <2>3, <2>4, <3>1, <3>2 DEF InitInv
  <2>7. OneEach'
    BY <1>0, <2>1, <2>2 DEF OneEach
  <2> QED
    BY <1>0, <1>1, <2>1, <2>5, <2>6, <2>7
<1>5. ASSUME NEW m, NEW n \in inits, Continues(n, m)
      PROVE  inits' \subseteq InitCalls /\ (\A k \in inits' : InitInv(k)') /\ OneEach'
  <2>1. /\ inits' = (inits \ {n}) \cup {m} /\ inst' = inst /\ m \in InitCalls
        /\ m.inst = n.inst /\ m.pool = n.pool
    BY <1>5 DEF Continues
  <2>2. InitInv(n)
    BY DEF Base
  <2>5. /\ m.inst \in 1 .. Len(inst) /\ MembersOf(n) \in Seq(Tags) /\ Current(n) \in Tags
        /\ Len(MembersOf(n)) \in Nat /\ n.states \in Seq(1 .. epoch) /\ n.gen <= generation
        /\ n.gen \in Nat /\ Len(n.states) \in 1 .. Len(MembersOf(n))
    BY <1>0, <2>1, <2>2, CallFacts DEF InitInv, InitCalls
  <2>6. /\ PoolsIn(m.inst)' = PoolsIn(n.inst) /\ m.inst \in 1 .. Len(inst')
        /\ MembersOf(m)' = MembersOf(n) /\ MembersOf(m) = MembersOf(n)
    BY <2>1, <2>5 DEF PoolsIn, MembersOf
  <2>7. /\ 1 .. epoch \subseteq 1 .. epoch' /\ epoch \in 1 .. epoch'
        /\ n.states \in Seq(1 .. epoch')
    <3>1. 1 .. epoch \subseteq 1 .. epoch' /\ epoch \in 1 .. epoch'
      BY <1>0
    <3> QED
      BY <2>5, <3>1, SeqGrows
  <2>8. /\ m.states \in Seq(1 .. epoch') /\ Len(m.states) \in 1 .. Len(MembersOf(n))
        /\ m.step = "acquire" => Len(m.states) < Len(MembersOf(n))
    <3>1. CASE n.step = "acquire" /\ m.step = "load" /\ m.states = Append(n.states, epoch)
      <4>1. /\ Append(n.states, epoch) \in Seq(1 .. epoch')
            /\ Len(Append(n.states, epoch)) = Len(n.states) + 1
        BY <2>7, AppendProperties
      <4>2. Len(n.states) < Len(MembersOf(n))
        BY <2>2, <3>1 DEF InitInv
      <4> QED
        BY <2>5, <3>1, <4>1, <4>2
    <3>2. CASE m.states = n.states /\ (m.step = "acquire" => Len(m.states) < Len(MembersOf(m)))
      BY <2>5, <2>6, <2>7, <3>2
    <3> QED
      BY <1>5, <3>1, <3>2 DEF Continues
  <2>9. m.gen <= generation' /\ (m.step = "write" => m.gen # 0)
    BY <1>0, <1>5, <2>5 DEF Continues
  <2>10. m.step \in {"release", "probe"} => entries'[Current(m)'] # None
    <3>1. m.states = n.states => Current(m)' = Current(n)
      BY <2>1, <2>6 DEF Current
    <3>2. CASE RegisterWrites(n) /\ m.states = n.states
      <4>1. entries' = [entries EXCEPT ![Current(n)] = Registered(Current(n), n.gen)]
            /\ n.gen \in Nat \ {0}
        BY <2>2, <2>5, <3>2 DEF RegisterWrites, InitInv
      <4>2. entries'[Current(n)] # None
        BY <1>0, <2>5, <4>1, RegisteredDoes DEF RegisteredBy
      <4> QED
        BY <3>1, <3>2, <4>2
    <3>3. CASE n.step = "release" /\ m.states = n.states
      <4>1. entries[Current(n)] # None
        BY <2>2, <3>3 DEF InitInv
      <4> QED
        BY <1>0, <2>5, <3>1, <3>3, <4>1 DEF Grows
    <3> QED
      BY <1>5, <3>2, <3>3 DEF Continues
  <2>3. InitInv(m)'
    BY <2>1, <2>2, <2>5, <2>6, <2>8, <2>9, <2>10 DEF InitInv
  <2>4. OneEach'
    BY <1>0, <2>1 DEF OneEach
  <2> QED
    BY <1>0, <1>1, <2>1, <2>3, <2>4
<1> QED
  BY <1>2, <1>3, <1>4, <1>5, InitsDoes DEF InitsStep

-----------------------------------------------------------------------------
(* The nodes that have their functions *)

\* A new instance has yet to give its functions to every node.
LEMMA AllPending ==
    ASSUME Base, CreateInstance, NEW t \in Range(ld.nodes) PROVE Pending(t)'
<1>1. /\ Shapes /\ ld \in Loads /\ ld.nodes \in Configs /\ ld.member = 1
  BY DEF Base, Shapes, LoadInv, CreateInstance
<1> DEFINE pools == PoolsOf(ld.nodes)
           n == Len(inst) + 1
<1>2. /\ ld'.pc = "register" /\ ld'.nodes = ld.nodes /\ ld'.member = 1 /\ ld'.pools = pools
  <2>1. ld' = [ld EXCEPT !.pc = "register", !.inst = n, !.pools = pools]
    BY DEF CreateInstance
  <2> HIDE DEF n, pools
  <2> QED
    BY <1>1, <2>1 DEF Loads
<1>3. pools \in Seq(Pools) /\ \E p \in Range(pools) : t \in Range(Members(p, ld.nodes))
  BY <1>1, PoolsOfTypes
<1>4. \A p \in Range(pools) : Members(p, ld.nodes) \in Seq(Tags)
  BY <1>1, PoolsOfTypes
<1> HIDE DEF pools
<1>5. PICK p \in Range(pools) : t \in Range(Members(p, ld.nodes))
  BY <1>3
<1>6. PICK j \in 1 .. Len(pools) : pools[j] = p
  BY <1>3, RangeEquality
<1>7. PICK k \in 1 .. Len(Members(p, ld.nodes)) : Members(p, ld.nodes)[k] = t
  BY <1>4, <1>5, RangeEquality
<1>8. k \in (IF j = 1 THEN ld'.member ELSE 1) .. Len(Members(ld'.pools[j], ld'.nodes))
  BY <1>2, <1>6, <1>7
<1> QED
  BY <1>2, <1>6, <1>7, <1>8 DEF Pending

\* Only the last of the three steps of a registration settles a node.
LEMMA PendingDoes ==
    ASSUME Base, [Next]_vars, NEW t, Pending(t)
    PROVE  Pending(t)' \/ (SetProbe /\ t = Member) \/ Newest' = 0
<1>0. Shapes /\ LoadInv /\ ld \in Loads /\ ld.pc = "register" /\ running = 0 /\ ld.inst # 0
  BY DEF Base, Shapes, Pending, LoadInv
<1>1. ASSUME ld'.pc = "register", ld'.pools = ld.pools, ld'.nodes = ld.nodes,
             ld'.member = ld.member
      PROVE  Pending(t)'
  BY <1>0, <1>1 DEF Pending
<1>2. CASE RegisterNode \/ SetRelease
  <2>1. PICK a \in {"release", "probe"} : ld' = [ld EXCEPT !.at = a]
    BY <1>2 DEF RegisterNode, SetRelease
  <2> QED
    BY <1>0, <1>1, <2>1 DEF Loads
<1>3. CASE SetProbe
  BY <1>3, SetGoesOn
<1>4. CASE Quiet
  BY <1>0, <1>1, <1>4 DEF Quiet
<1>5. CASE ReloadFails \/ RollbackFails
  <2>1. LoadStep
    BY LoadMoves
  <2>2. ld'.pc \notin {"register", "start"} /\ running' = running
    <3>1. CASE ReloadFails
      <4>1. NoLoad \in Loads /\ ld' = [NoLoad EXCEPT !.pc = "create", !.what = "rollback",
                                                     !.nodes = ld.old]
        BY <3>1, NoLoadType DEF ReloadFails
      <4>2. ld'.pc = "create"
        BY <4>1 DEF Loads
      <4> QED
        BY <3>1, <4>2 DEF ReloadFails
    <3>2. CASE RollbackFails
      BY <3>2, NoLoadType DEF RollbackFails
    <3> QED
      BY <1>5, <3>1, <3>2
  <2>3. LoadInv'
    BY LoadKept
  <2> QED
    BY <1>0, <2>2, <2>3 DEF LoadInv, Newest
<1> QED
  BY <1>0, <1>2, <1>3, <1>4, <1>5, QuietDoes, Zenon
  DEF Load, BeginReload, ResetSharedStateStore, BumpGeneration, CreateInstance, StartPool,
      PoolStarted, PortConflict, Publish

\* A node is settled since the step before, or by this step.
LEMMA LinkedBefore ==
    ASSUME Base, [Next]_vars, NEW t \in Tags, Linked(t)'
    PROVE  /\ Newest # 0 /\ Newest' = Newest /\ Newest \in 1 .. Len(inst)
           /\ generation' = generation /\ epoch' = epoch
           /\ Linked(t) \/ (SetProbe /\ t = Member)
<1>0. Shapes /\ LoadInv /\ Grows /\ Len(inst) \in Nat
  BY GrowsDoes DEF Base, Shapes
<1>1. Newest' # 0 /\ t \in Range(inst'[Newest'].nodes) /\ ~Pending(t)'
  BY DEF Linked
<1>2. ~Creates
  <2>1. ASSUME Creates PROVE FALSE
    <3>1. Newest' = Len(inst) + 1
      BY <1>0, <2>1 DEF Creates, Newest
    <3>2. inst'[Len(inst) + 1].nodes = ld.nodes /\ CreateInstance
      BY <2>1, CreatesOne DEF Creates, Created
    <3> QED
      BY <1>1, <3>1, <3>2, AllPending
  <2> QED
    BY <2>1
<1>3. Newest' = Newest /\ generation' = generation /\ epoch' = epoch
  BY <1>1, <1>2, NewestDoes
<1>4. Newest # 0 /\ Newest \in 1 .. Len(inst)
  <2>1. Newest # 0
    BY <1>1, <1>3
  <2>2. running # 0 => running \in 1 .. Len(inst)
    BY <1>0 DEF Shapes
  <2>3. ld.inst # 0 => ld.inst \in 1 .. Len(inst)
    BY <1>0, LoadFacts
  <2> QED
    BY <2>1, <2>2, <2>3 DEF Newest
<1>5. inst'[Newest'].nodes = inst[Newest].nodes
  BY <1>0, <1>3, <1>4 DEF Grows
<1>6. Linked(t) \/ (SetProbe /\ t = Member)
  <2>1. CASE Pending(t)
    BY <1>1, <2>1, PendingDoes
  <2>2. CASE ~Pending(t)
    BY <1>1, <1>4, <1>5, <2>2 DEF Linked
  <2> QED
    BY <2>1, <2>2
<1> QED
  BY <1>3, <1>4, <1>6

\* What is settled is registered.
LEMMA LinkedKept == Base /\ [Next]_vars => \A t \in Tags : Linked(t)' => entries'[t] # None
<1> SUFFICES ASSUME Base, [Next]_vars, NEW t \in Tags, Linked(t)' PROVE entries'[t] # None
  OBVIOUS
<1>0. Grows /\ LoadInv
  BY GrowsDoes DEF Base
<1>1. CASE Linked(t)
  BY <1>0, <1>1 DEF Base, Grows
<1>2. CASE SetProbe /\ t = Member
  BY <1>0, <1>2, LoaderWrites DEF ProbeBy
<1> QED
  BY <1>1, <1>2, LinkedBefore

-----------------------------------------------------------------------------
(* Type correctness *)

\* What is stray stays so in its generation.
LEMMA StrayDoes ==
    ASSUME Base, [Next]_vars
    PROVE  /\ running' \in 0 .. Len(inst') /\ stray' \in BOOLEAN
           /\ BumpGeneration => stray' = (inits # {})
           /\ ~BumpGeneration /\ ~stray' => ~stray /\ (CreateInstance => inits = {})
<1>0. /\ Shapes /\ LoadInv /\ running \in 0 .. Len(inst) /\ stray \in BOOLEAN /\ Len(inst) \in Nat
      /\ Len(inst') \in Nat /\ Len(inst) <= Len(inst') /\ LoadStep
  BY GrowsDoes, LoadMoves DEF Base, Shapes, Grows
<1>1. running' \in 0 .. Len(inst')
  <2>1. running' \in {0, running} \/ (running' = ld.inst /\ ld.inst # 0)
    BY <1>0 DEF LoadStep, Begins, Resets, Bumps, GoesBack, Creates, Works, Publishes, Quiet
  <2>2. ld.inst # 0 => ld.inst \in 1 .. Len(inst)
    BY <1>0, LoadFacts
  <2> QED
    BY <1>0, <2>1, <2>2
<1>2. CASE BumpGeneration
  BY <1>1, <1>2 DEF BumpGeneration
<1>3. ASSUME stray' = stray, ~CreateInstance
      PROVE  stray' \in BOOLEAN /\ (~stray' => ~stray /\ (CreateInstance => inits = {}))
  BY <1>0, <1>3
<1>4. CASE CreateInstance
  <2>1. stray' = (stray \/ inits # {})
    BY <1>4 DEF CreateInstance
  <2>2. ~BumpGeneration
    BY <1>4 DEF BumpGeneration, CreateInstance
  <2> QED
    BY <1>0, <1>1, <2>1, <2>2
<1>5. ASSUME NEW pr \in probes, InitializeLate(pr), ~CreateInstance
      PROVE  stray' \in BOOLEAN /\ (~stray' => ~stray /\ (CreateInstance => inits = {}))
  BY <1>0, <1>5 DEF InitializeLate
<1>6. ASSUME \/ BeginReload \/ ResetSharedStateStore \/ PortConflict
             \/ ReloadFails \/ RollbackFails \/ Publish \/ RegisterNode \/ SetRelease
             \/ SetProbe \/ StartPool \/ PoolStarted \/ UNCHANGED vars
      PROVE  stray' = stray
  BY <1>6, Zenon
  DEF BeginReload, ResetSharedStateStore, PortConflict, ReloadFails, Publish, PoolStarted,
      RollbackFails, RegisterNode, SetRelease, SetProbe, StartPool, vars
<1>7. ASSUME NEW m \in inits, MemberStep(m) PROVE stray' = stray
  BY <1>7 DEF MemberStep, AcquireSharedState, RegisterLoads, RegisterWrites, SetMemberRelease,
              SetMemberProbe
<1>8. ASSUME CheckStep PROVE stray' = stray
  BY <1>8, Zenon DEF CheckStep, ListEntries, LoadGeneration, StartWorker, EndRound, SkipNode,
                     CheckNode
<1>9. ASSUME NEW t \in Watched, ManualProbe(t) PROVE stray' = stray
  BY <1>9 DEF ManualProbe
<1>10. ASSUME NEW pr \in probes, ProbeEnds(pr) PROVE stray' = stray
  BY <1>10 DEF ProbeEnds
<1>11. CASE ~CreateInstance /\ ~BumpGeneration
  <2>1. stray' \in BOOLEAN /\ (~stray' => ~stray /\ (CreateInstance => inits = {}))
    BY <1>3, <1>5, <1>6, <1>7, <1>8, <1>9, <1>10, <1>11 DEF Next, Load
  <2> QED
    BY <1>1, <1>11, <2>1
<1> QED
  BY <1>2, <1>4, <1>11

LEMMA BaseStep == Base /\ [Next]_vars => Base'
<1> SUFFICES ASSUME Base, [Next]_vars PROVE Base'
  OBVIOUS
<1>1. ld' \in Loads /\ LoadInv' /\ Counters'
  BY LoadKept
<1>2. \A i \in 1 .. Len(inst') : InstanceInv(i)'
  BY InstancesKept
<1>3. entries' \in [Tags -> {None} \cup Entry] /\ \A t \in Tags : EntryInv(t)'
  BY EntryDoes, EntriesKept
<1>4. inits' \subseteq InitCalls /\ (\A m \in inits' : InitInv(m)') /\ OneEach'
  BY InitsKept
<1>5. generation' \in Nat \ {0} /\ epoch' \in Nat \ {0} /\ Grows
  BY GrowsDoes DEF Grows
<1>6. check' \in Checks /\ CheckInv'
  BY <1>5, CheckDoes, CheckKept
<1>7. probes' \subseteq Calls /\ \A pr \in probes' : CallInv(pr)'
  <2>1. probes' \subseteq Calls /\ \A pr \in probes' : CallInv(pr)
    BY ProbesDo
  <2> QED
    BY <1>5, <2>1, CallKept
<1>8. \A t \in Tags : Linked(t)' => entries'[t] # None
  BY LinkedKept
<1>9. inst' \in Seq(Instance)
  BY CreatesOne, SameInstances
<1>10. running' \in 0 .. Len(inst') /\ stray' \in BOOLEAN
  BY StrayDoes
<1>11. Shapes'
  BY <1>1, <1>3, <1>4, <1>5, <1>6, <1>7, <1>9, <1>10 DEF Shapes
<1> QED
  BY <1>1, <1>2, <1>3, <1>4, <1>6, <1>7, <1>8, <1>11 DEF Base

\* The invariant holds at the start.
LEMMA BaseInit == Init => Base
<1> SUFFICES ASSUME Init PROVE Base
  OBVIOUS
<1> USE DEF Init
<1>1. inst = <<>> /\ <<>> \in Seq(Instance) /\ Len(<<>>) = 0
  BY EmptySeq
<1>2. /\ ld \in Loads /\ ld.pc = "create" /\ ld.what = "start" /\ ld.nodes = Initial
      /\ ld.inst = 0 /\ ld.member = 1 /\ ld.at = "entry"
  <2>1. Initial \in Seq(Tags)
    BY MonitorAssumption
  <2> QED
    BY <2>1, NoLoadType DEF Loads
<1>3. check \in Checks /\ CheckInv
  <2>1. CheckProbes = {} /\ IsFiniteSet(CheckProbes) /\ Cardinality(CheckProbes) = 0
    BY FS_EmptySet DEF CheckProbes
  <2>2. Limit \in Nat
    BY MonitorAssumption
  <2> QED
    BY <2>1, <2>2 DEF NoCheck, Checks, CheckInv
<1>4. Shapes
  <2>1. generation = 1 /\ epoch = 1 /\ 1 \in Nat \ {0} /\ running = 0 /\ stray = FALSE
    OBVIOUS
  <2>2. entries = [t \in Tags |-> None] /\ inits = {} /\ probes = {}
    OBVIOUS
  <2> HIDE DEF Init
  <2>3. entries \in [Tags -> {None} \cup Entry]
    BY <2>2
  <2>4. running \in 0 .. Len(inst)
    BY <1>1, <2>1
  <2> QED
    BY <1>1, <1>2, <1>3, <2>1, <2>2, <2>3, <2>4 DEF Shapes
<1>5. LoadInv /\ Counters
  BY <1>1, <1>2, MonitorAssumption DEF LoadInv, Counters
<1>6. \A t : ~Linked(t)
  BY <1>2 DEF Linked, Newest
<1> QED
  BY <1>1, <1>3, <1>4, <1>5, <1>6 DEF Base, EntryInv, OneEach

LEMMA BaseInvariant == Spec => []Base
  BY BaseInit, BaseStep, PTL DEF Spec

\* Type correctness: the generations and epochs stay within the bound of
\* instances, what a call found in an entry is a function of an instance, and no
\* more workers of the check run than it has slots.
THEOREM TypeCorrect == Spec => []TypeOK
<1>1. Base => TypeOK
  <2> SUFFICES ASSUME Base PROVE TypeOK
    OBVIOUS
  <2>0. /\ Shapes /\ LoadInv /\ Counters /\ CheckInv /\ Len(inst) \in Nat
        /\ \A pr \in probes : CallInv(pr)
        /\ inst \in Seq(Instance) /\ MaxInstances \in Nat /\ Limit \in Nat
    BY MonitorAssumption DEF Base, Shapes
  <2>1. /\ generation \in 1 .. MaxInstances /\ epoch \in 1 .. MaxInstances
        /\ Len(inst) <= MaxInstances /\ running \in 0 .. Len(inst)
    BY <2>0 DEF Shapes, Counters
  <2>2. DOMAIN inst = 1 .. Len(inst)
    BY <2>0, LenProperties
  <2>3. /\ entries \in [Tags -> {None} \cup
                           [gen : 1 .. generation, shown : {"unchecked", "yes", "no"},
                            probe : Function, release : Function]]
        /\ \A t \in Tags : entries[t] # None =>
               /\ entries[t].probe.inst \in 0 .. Len(inst)
               /\ entries[t].release.inst \in 0 .. Len(inst)
    <3>1. ASSUME NEW t \in Tags, entries[t] # None
          PROVE  /\ entries[t] \in [gen : 1 .. generation, shown : {"unchecked", "yes", "no"},
                                     probe : Function, release : Function]
                 /\ entries[t].probe.inst \in 0 .. Len(inst)
                 /\ entries[t].release.inst \in 0 .. Len(inst)
      <4>1. entries[t] \in Entry /\ EntryInv(t)
        BY <2>0, <3>1 DEF Shapes, Base
      <4>2. entries[t].gen \in 1 .. generation
        BY <2>1, <3>1, <4>1 DEF EntryInv, Entry
      <4>3. /\ entries[t].probe.inst \in 0 .. Len(inst)
            /\ entries[t].release.inst \in 0 .. Len(inst)
        BY <2>0, <3>1, <4>1 DEF EntryInv, FunctionOk
      <4> QED
        BY <4>1, <4>2, <4>3 DEF Entry
    <3> QED
      BY <2>0, <3>1 DEF Shapes
  <2>4. ASSUME NEW i \in DOMAIN inst
        PROVE  /\ inst[i].nodes \in Configs
               /\ inst[i].gen \in 1 .. generation
               /\ inst[i].held \in [Pools -> Seq(1 .. epoch)]
               /\ inst[i].started \subseteq Pools /\ inst[i].up \in BOOLEAN
    <3>1. inst[i] \in Instance /\ InstanceInv(i)
      BY <2>0, <2>2, ElementOfSeq DEF Base
    <3>2. inst[i].held \in [Pools -> Seq(1 .. epoch)]
      <4>1. /\ inst[i].held \in [Pools -> Seq(Nat \ {0})]
            /\ \A p \in Pools : inst[i].held[p] \in Seq(1 .. epoch)
        BY <3>1 DEF Instance, InstanceInv
      <4> QED
        BY <4>1
    <3>3. inst[i].gen \in 1 .. generation
      BY <2>1, <3>1 DEF Instance, InstanceInv
    <3> QED
      BY <3>1, <3>2, <3>3 DEF Instance
  <2>5. /\ ld.pc \in {"idle", "reset", "bump", "create", "register", "start"}
        /\ ld.what \in {"none", "start", "reload", "rollback"}
        /\ ld.nodes \in Seq(Tags) /\ ld.old \in Seq(Tags)
        /\ ld.inst \in 0 .. Len(inst)
        /\ ld.pools \in Seq(Pools) /\ ld.member \in Nat \ {0}
        /\ ld.at \in {"entry", "release", "probe", "members"}
    <3>1. ld \in Loads
      BY <2>0 DEF Shapes
    <3>2. ld.inst \in 0 .. Len(inst)
      BY <2>0, <3>1 DEF LoadInv, Loads
    <3> QED
      BY <3>1, <3>2 DEF Loads
  <2>6. /\ check.pc \in {"off", "first", "listed", "round", "wait"}
        /\ check.todo \subseteq Tags /\ check.gen \in 0 .. generation
        /\ check.call \in {None} \cup Calls /\ check.slots \in 0 .. Limit
    <3>1. Cardinality(CheckProbes) \in Nat /\ check \in Checks
      BY <2>0, FS_CardinalityType DEF CheckInv, Shapes
    <3> QED
      BY <2>0, <3>1 DEF CheckInv, Checks
  <2>7. probes \subseteq Calls /\ \A pr \in probes : pr.func.inst \in DOMAIN inst
    BY <2>0, <2>2 DEF Shapes, CallInv, FunctionOk
  <2>8. inits \subseteq [inst : DOMAIN inst, pool : Pools, states : Seq(1 .. epoch),
                        step : {"acquire", "load", "write", "release", "probe"},
                        gen : 0 .. generation]
    <3> SUFFICES ASSUME NEW m \in inits
                 PROVE  m \in [inst : DOMAIN inst, pool : Pools, states : Seq(1 .. epoch),
                               step : {"acquire", "load", "write", "release", "probe"},
                               gen : 0 .. generation]
      OBVIOUS
    <3>1. m \in InitCalls /\ InitInv(m)
      BY <2>0 DEF Base, Shapes
    <3>2. /\ m.inst \in DOMAIN inst /\ m.states \in Seq(1 .. epoch)
          /\ m.gen \in 0 .. generation
      BY <2>1, <2>2, <3>1 DEF InitInv, InitCalls
    <3> QED
      BY <3>1, <3>2 DEF InitCalls
  <2>9. stray \in BOOLEAN
    BY <2>0 DEF Shapes
  <2> QED
    BY <2>1, <2>3, <2>4, <2>5, <2>6, <2>7, <2>8, <2>9 DEF TypeOK
<1> QED
  BY <1>1, BaseInvariant, PTL

-----------------------------------------------------------------------------
(* One shared state *)

\* The generation changes with BumpGeneration only, and no instance is newest
\* when the next is created.
LEMMA GenerationDoes ==
    ASSUME Base, [Next]_vars
    PROVE  /\ BumpGeneration \/ generation' = generation
           /\ BumpGeneration => inits' = inits /\ entries' = entries
                                               /\ generation' = generation + 1
           /\ CreateInstance => inits' = inits /\ Newest = 0
<1>1. LoadStep /\ LoadInv
  BY LoadMoves DEF Base
<1>2. BumpGeneration \/ generation' = generation
  BY <1>1 DEF LoadStep, Begins, Resets, Bumps, GoesBack, Creates, Works, Publishes, Quiet
<1> QED
  BY <1>1, <1>2 DEF BumpGeneration, CreateInstance, LoadInv, Newest

\* The newest instance gets its states from the store while it is not emptied.
LEMMA SharesStep == Base /\ SharesEpoch /\ [Next]_vars => SharesEpoch'
<1> SUFFICES ASSUME Base, SharesEpoch, [Next]_vars, Newest' # 0
             PROVE  /\ \A p \in Pools : inst'[Newest'].held[p] \in Seq({epoch'})
                    /\ \A m \in inits' : m.inst = Newest' => m.states \in Seq({epoch'})
  BY DEF SharesEpoch
<1>0. Shapes /\ \A m \in inits : InitInv(m)
  BY DEF Base
<1>1. CASE Creates
  <2>1. CreateInstance /\ Newest' = Len(inst) + 1 /\ Created /\ Len(inst) \in Nat /\ inits' = inits
    BY <1>0, <1>1, CreatesOne, GenerationDoes DEF Creates, Newest, Shapes
  <2>2. \A p \in Pools : inst'[Newest'].held[p] = <<>>
    BY <2>1 DEF Created
  <2>3. \A m \in inits' : m.inst # Newest'
    BY <1>0, <2>1 DEF InitInv
  <2>4. <<>> \in Seq({epoch'})
    BY EmptySeq
  <2> QED
    BY <2>2, <2>3, <2>4, Zenon
<1>2. CASE ~Creates
  <2>1. Newest # 0 /\ Newest' = Newest /\ epoch' = epoch
    BY <1>2, NewestDoes
  <2>2. ~CreateInstance
    BY <2>1, GenerationDoes
  <2>3. Newest \in 1 .. Len(inst)
    BY <2>1, LoadFacts DEF Base, Newest, Shapes
  <2>4. /\ \A p \in Pools : inst[Newest].held[p] \in Seq({epoch})
        /\ \A m \in inits : m.inst = Newest => m.states \in Seq({epoch})
    BY <2>1 DEF SharesEpoch
  <2>5. ASSUME NEW p \in Pools PROVE inst'[Newest].held[p] \in Seq({epoch})
    BY <2>2, <2>3, <2>4, HeldKept
  <2>6. ASSUME NEW m \in inits', m.inst = Newest PROVE m.states \in Seq({epoch})
    <3>1. InitsStep
      BY InitsDoes
    <3>2. CASE m \in inits
      BY <2>4, <2>6, <3>2
    <3>3. ASSUME NEW i, NEW p, BeginsFor(m, i, p) PROVE m.states \in Seq({epoch})
      <4>1. m.states = <<epoch>>
        BY <3>3 DEF BeginsFor
      <4> QED
        BY <4>1
    <3>4. ASSUME NEW n \in inits, Continues(n, m) PROVE m.states \in Seq({epoch})
      <4>1. n.states \in Seq({epoch})
        BY <2>4, <2>6, <3>4 DEF Continues
      <4>2. m.states \in {n.states, Append(n.states, epoch)}
        BY <3>4 DEF Continues
      <4> QED
        BY <4>1, <4>2, AppendProperties
    <3>5. CASE m \notin inits
      <4>1. ASSUME NEW k, NEW i \in 1 .. Len(inst), NEW p \in PoolsIn(i), BeginsFor(k, i, p)
            PROVE  k = m
        BY <3>5, <4>1 DEF BeginsFor
      <4>2. ASSUME NEW k, NEW n \in inits, Continues(n, k) PROVE k = m
        BY <3>5, <4>2 DEF Continues
      <4>3. ASSUME NEW n \in inits, HeldBy(n.inst, n) PROVE FALSE
        BY <3>5, <4>3 DEF HeldBy
      <4> QED
        BY <3>1, <3>3, <3>4, <3>5, <4>1, <4>2, <4>3 DEF InitsStep
    <3> QED
      BY <3>2, <3>5
  <2> QED
    BY <2>1, <2>5, <2>6
<1> QED
  BY <1>1, <1>2

\* A call that is not stray began in the newest instance and stays in it.
LEMMA NoStrayStep == Base /\ NoStray /\ [Next]_vars => NoStray'
<1> SUFFICES ASSUME Base, NoStray, [Next]_vars, ~stray', NEW m \in inits'
             PROVE  /\ Newest' # 0 => m.inst = Newest'
                    /\ inst'[m.inst].gen = generation' /\ m.gen \in {0, generation'}
  BY DEF NoStray
<1>1. ~BumpGeneration /\ ~CreateInstance /\ ~stray
  BY StrayDoes, GenerationDoes
<1>2. generation' = generation
  BY <1>1, GenerationDoes
<1>3. Newest' # 0 => Newest' = Newest
  BY <1>1, NewestDoes DEF Creates
<1>4. Grows /\ Shapes /\ \A n \in inits : InitInv(n)
  BY GrowsDoes DEF Base
<1>5. \A n \in inits : /\ Newest # 0 => n.inst = Newest
                       /\ inst[n.inst].gen = generation /\ n.gen \in {0, generation}
  BY <1>1 DEF NoStray
<1>6. CASE m \in inits
  <2>1. m.inst \in 1 .. Len(inst)
    BY <1>4, <1>6 DEF InitInv
  <2>2. inst'[m.inst].gen = inst[m.inst].gen
    BY <1>4, <2>1 DEF Grows
  <2> QED
    BY <1>2, <1>3, <1>5, <1>6, <2>2
<1>7. ASSUME NEW i \in 1 .. Len(inst), NEW p, BeginsFor(m, i, p)
      PROVE  /\ Newest # 0 => m.inst = Newest
             /\ inst'[m.inst].gen = generation /\ m.gen \in {0, generation}
  <2>1. i = ld.inst /\ m.inst = i /\ m.gen = 0 /\ inst' = inst
    BY <1>7 DEF BeginsFor
  <2>2. Newest = i /\ inst[i].gen = generation
    BY <1>4, <2>1, LoadFacts DEF Base, InstanceInv
  <2> QED
    BY <2>1, <2>2
<1>8. ASSUME NEW n \in inits, Continues(n, m)
      PROVE  /\ Newest # 0 => m.inst = Newest
             /\ inst'[m.inst].gen = generation /\ m.gen \in {0, generation}
  BY <1>5, <1>8 DEF Continues
<1>9. CASE m \notin inits
  <2>1. InitsStep
    BY InitsDoes
  <2>2. ASSUME NEW k, NEW i \in 1 .. Len(inst), NEW p \in PoolsIn(i), BeginsFor(k, i, p)
        PROVE  k = m
    BY <1>9, <2>2 DEF BeginsFor
  <2>3. ASSUME NEW k, NEW n \in inits, Continues(n, k) PROVE k = m
    BY <1>9, <2>3 DEF Continues
  <2>4. ASSUME NEW n \in inits, HeldBy(n.inst, n) PROVE FALSE
    BY <1>9, <2>4 DEF HeldBy
  <2> QED
    BY <1>2, <1>3, <1>7, <1>8, <1>9, <2>1, <2>2, <2>3, <2>4 DEF InitsStep
<1> QED
  BY <1>6, <1>9

-----------------------------------------------------------------------------
(* The entries of the nodes that are served *)

\* What an entry has for the newest instance it keeps, unless a call is stray.
LEMMA GoodStays ==
    ASSUME Base, SharesEpoch, NoStray, [Next]_vars, ~stray,
           Newest # 0, Newest' = Newest, generation' = generation, epoch' = epoch,
           NEW t \in Tags, GoodGen(t)
    PROVE  /\ GoodGen(t)'
           /\ Good(entries[t].probe) => Good(entries'[t].probe)
           /\ Good(entries[t].release) => Good(entries'[t].release)
<1>1. EntryStep(t) /\ entries[t] # None /\ entries[t].gen = generation
  BY EntryDoes DEF GoodGen
<1> DEFINE Goal == /\ entries'[t] # None /\ entries'[t].gen = generation
                   /\ Good(entries[t].probe) => Good(entries'[t].probe)
                   /\ Good(entries[t].release) => Good(entries'[t].release)
<1>2. ASSUME entries'[t] = entries[t] \/ Kept(t) PROVE Goal
  <2>1. /\ entries'[t] # None /\ entries'[t].gen = generation
        /\ entries'[t].probe = entries[t].probe /\ entries'[t].release = entries[t].release
    BY <1>1, <1>2 DEF Kept
  <2> QED
    BY <2>1
<1>3. ASSUME RegisterNode /\ t = Member /\ RegisteredBy(t, generation) PROVE Goal
  BY <1>1, <1>3 DEF RegisteredBy
<1>4. ASSUME SetRelease /\ t = Member /\ ReleaseBy(t, ByTag) PROVE Goal
  <2>1. Good(ByTag)
    BY <1>4, ByTagOk DEF Good, SetRelease
  <2> QED
    BY <1>1, <1>4, <2>1 DEF ReleaseBy
<1>5. ASSUME SetProbe /\ t = Member /\ ProbeBy(t, ByTag) PROVE Goal
  <2>1. Good(ByTag)
    BY <1>5, ByTagOk DEF Good, SetProbe
  <2> QED
    BY <1>1, <1>5, <2>1 DEF ProbeBy
<1>6. ASSUME NEW m \in inits
      PROVE  Good(FunctionOf(m)) /\ (m.step = "write" => m.gen = generation)
  <2>1. Shapes /\ InitInv(m)
    BY DEF Base
  <2>2. m.inst = Newest /\ m.gen \in {0, generation}
    BY DEF NoStray
  <2>3. m.states \in Seq({epoch})
    BY <2>2 DEF SharesEpoch
  <2>4. FunctionOf(m).inst = Newest /\ FunctionOf(m).state \in {epoch}
    BY <2>1, <2>2, <2>3, CallFacts
  <2>5. m.step = "write" => m.gen # 0
    BY <2>1 DEF InitInv
  <2> QED
    BY <2>2, <2>4, <2>5 DEF Good
<1>7. ASSUME NEW m \in inits, RegisterWrites(m), RegisteredBy(t, m.gen) PROVE Goal
  <2>1. m.gen = generation
    BY <1>6, <1>7 DEF RegisterWrites
  <2> QED
    BY <1>1, <1>7, <2>1 DEF RegisteredBy
<1>8. ASSUME NEW m \in inits, ReleaseBy(t, FunctionOf(m)) PROVE Goal
  BY <1>1, <1>6, <1>8 DEF ReleaseBy
<1>9. ASSUME NEW m \in inits, ProbeBy(t, FunctionOf(m)) PROVE Goal
  BY <1>1, <1>6, <1>9 DEF ProbeBy
<1>10. Goal
  BY <1>1, <1>2, <1>3, <1>4, <1>5, <1>7, <1>8, <1>9, Zenon DEF EntryStep
<1> QED
  BY <1>10 DEF GoodGen

\* How the goroutine comes between two steps of a registration.
LEMMA AtDoes ==
    ASSUME Base, [Next]_vars, ld'.pc = "register", ld'.at # "entry"
    PROVE  /\ Newest # 0 /\ Newest' = Newest /\ generation' = generation /\ epoch' = epoch
           /\ Member' = Member
           /\ \/ RegisterNode /\ ld'.at = "release"
              \/ SetRelease /\ ld.at = "release" /\ ld'.at = "probe"
              \/ ld' = ld
<1>0. Shapes /\ LoadInv /\ ld \in Loads
  BY DEF Base, Shapes
<1>1. LoadStep
  BY LoadMoves
<1>2. ~Creates
  <2>1. ASSUME CreateInstance PROVE ld'.at = ld.at /\ ld.at = "entry"
    <3>1. PICK n, q : ld' = [ld EXCEPT !.pc = "register", !.inst = n, !.pools = q]
      BY <2>1, Zenon DEF CreateInstance
    <3>2. ld'.at = ld.at
      BY <1>0, <3>1 DEF Loads
    <3>3. ld.at = "entry"
      BY <1>0, <2>1 DEF LoadInv, CreateInstance
    <3> QED
      BY <3>2, <3>3
  <2> QED
    BY <2>1 DEF Creates
<1>3. CASE Quiet
  <2>1. ld' = ld /\ running' = running /\ generation' = generation /\ epoch' = epoch
    BY <1>3 DEF Quiet
  <2>2. ld.inst # 0
    BY <1>0, <2>1 DEF LoadInv
  <2>3. Newest # 0 /\ Newest' = Newest
    BY <2>1, <2>2 DEF Newest
  <2>4. Member' = Member
    BY <2>1 DEF Member, Pool
  <2> QED
    BY <2>1, <2>3, <2>4
<1>4. CASE Works /\ ~Quiet
  <2>1. Newest # 0 /\ Newest' = Newest /\ generation' = generation /\ epoch' = epoch
    BY <1>4 DEF Works, Newest
  <2>2. ~SetProbe
    BY SetGoesOn
  <2>3. ~StartPool /\ ~PoolStarted
    <3>1. ASSUME StartPool \/ PoolStarted PROVE ld'.pc = ld.pc /\ ld.pc = "start"
      <4>1. CASE StartPool
        BY <1>0, <4>1 DEF Loads, StartPool
      <4>2. CASE PoolStarted
        BY <1>0, <4>2 DEF Loads, PoolStarted
      <4> QED
        BY <3>1, <4>1, <4>2
    <3> QED
      BY <3>1
  <2>4. RegisterNode \/ SetRelease
    <3>1. BeginReload \/ Load
      BY <1>4, QuietDoes
    <3>2. ld.inst # 0 /\ ld'.inst # 0 /\ running = 0
      BY <1>4 DEF Works
    <3>3. ld.pc \in {"register", "start"}
      BY <1>0, <3>2 DEF LoadInv
    <3>4. ~BeginReload
      BY <3>2 DEF BeginReload
    <3>5. ~ResetSharedStateStore /\ ~BumpGeneration /\ ~CreateInstance
      BY <3>3 DEF ResetSharedStateStore, BumpGeneration, CreateInstance
    <3>6. ~ReloadFails /\ ~RollbackFails /\ ~Publish /\ ~PortConflict
      <4>1. ASSUME ReloadFails \/ RollbackFails \/ Publish \/ PortConflict
            PROVE  ld'.inst = 0
        BY <1>0, <4>1, NoLoadType
        DEF ReloadFails, RollbackFails, Publish, PortConflict, Loads
      <4> QED
        BY <3>2, <4>1
    <3> QED
      BY <2>2, <2>3, <3>1, <3>4, <3>5, <3>6 DEF Load
  <2>5. PICK a \in {"release", "probe"} :
            /\ ld' = [ld EXCEPT !.at = a]
            /\ \/ RegisterNode /\ a = "release"
               \/ SetRelease /\ ld.at = "release" /\ a = "probe"
    BY <2>4 DEF RegisterNode, SetRelease
  <2>6. /\ ld'.at = a /\ ld'.pools = ld.pools /\ ld'.nodes = ld.nodes
        /\ ld'.member = ld.member
    BY <1>0, <2>5 DEF Loads
  <2>7. Member' = Member
    BY <2>6 DEF Member, Pool
  <2> QED
    BY <2>1, <2>5, <2>6, <2>7
<1> QED
  BY <1>1, <1>2, <1>3, <1>4 DEF LoadStep, Begins, Resets, Bumps, GoesBack, Publishes

\* Registered by the newest instance, a node stays with it.
LEMMA LinkedStep ==
    Base /\ SharesEpoch /\ NoStray /\ LinkedInv /\ [Next]_vars => LinkedInv'
<1> SUFFICES ASSUME Base, SharesEpoch, NoStray, LinkedInv, [Next]_vars, ~stray', Newest' # 0
             PROVE  /\ \A t \in Tags : Linked(t)' =>
                          /\ GoodGen(t)'
                          /\ entries'[t].probe.inst = Newest'
                          /\ entries'[t].probe.state \in {0, epoch'}
                          /\ entries'[t].release.inst = Newest'
                          /\ entries'[t].release.state \in {0, epoch'}
                    /\ ld'.pc = "register" =>
                          /\ ld'.at # "entry" => GoodGen(Member)'
                          /\ ld'.at = "probe" => Good(entries[Member].release)'
  BY DEF LinkedInv, Good
<1>0. generation' = generation => ~stray
  <2>1. generation \in Nat
    BY DEF Base, Shapes
  <2> QED
    BY <2>1, StrayDoes, GenerationDoes
<1>1. ASSUME NEW t \in Tags, Linked(t)'
      PROVE  /\ GoodGen(t)'
             /\ entries'[t].probe.inst = Newest' /\ entries'[t].probe.state \in {0, epoch'}
             /\ entries'[t].release.inst = Newest' /\ entries'[t].release.state \in {0, epoch'}
  <2>1. /\ Newest # 0 /\ Newest' = Newest /\ generation' = generation /\ epoch' = epoch
        /\ Linked(t) \/ (SetProbe /\ t = Member)
    BY <1>0, <1>1, LinkedBefore
  <2>2. ~stray
    BY <1>0, <2>1
  <2>3. CASE Linked(t)
    <3>1. GoodGen(t) /\ Good(entries[t].probe) /\ Good(entries[t].release)
      BY <2>1, <2>2, <2>3 DEF LinkedInv
    <3>2. GoodGen(t)' /\ Good(entries'[t].probe) /\ Good(entries'[t].release)
      BY <2>1, <2>2, <3>1, GoodStays
    <3> QED
      BY <2>1, <3>2 DEF Good
  <2>4. CASE SetProbe /\ t = Member
    <3>1. GoodGen(t) /\ Good(entries[t].release)
      BY <2>1, <2>2, <2>4 DEF LinkedInv, SetProbe
    <3>2. ProbeBy(t, ByTag) /\ Good(ByTag)
      BY <2>4, LoaderWrites, ByTagOk DEF Good, SetProbe
    <3>3. GoodGen(t)'
      BY <2>1, <3>1, <3>2 DEF ProbeBy, GoodGen
    <3> QED
      BY <2>1, <3>1, <3>2, <3>3 DEF ProbeBy, Good
  <2> QED
    BY <2>1, <2>3, <2>4
<1>2. ASSUME ld'.pc = "register", ld'.at # "entry"
      PROVE  GoodGen(Member)' /\ (ld'.at = "probe" => Good(entries[Member].release)')
  <2>1. /\ Newest # 0 /\ Newest' = Newest /\ generation' = generation /\ epoch' = epoch
        /\ Member' = Member /\ ~stray
        /\ \/ RegisterNode /\ ld'.at = "release"
           \/ SetRelease /\ ld.at = "release" /\ ld'.at = "probe"
           \/ ld' = ld
    BY <1>0, <1>2, AtDoes
  <2>2. CASE RegisterNode /\ ld'.at = "release"
    <3>1. RegisteredBy(Member, generation)
      BY <2>2, LoaderWrites
    <3> QED
      BY <2>1, <2>2, <3>1 DEF RegisteredBy, GoodGen
  <2>3. CASE SetRelease /\ ld.at = "release" /\ ld'.at = "probe"
    <3>1. ReleaseBy(Member, ByTag) /\ Good(ByTag)
      BY <2>3, LoaderWrites, ByTagOk DEF Good, SetRelease
    <3>2. GoodGen(Member)
      BY <2>1, <2>3 DEF LinkedInv, SetRelease
    <3> QED
      BY <2>1, <3>1, <3>2 DEF ReleaseBy, GoodGen, Good
  <2>4. CASE ld' = ld
    <3>1. GoodGen(Member) /\ (ld.at = "probe" => Good(entries[Member].release))
      BY <1>2, <2>1, <2>4 DEF LinkedInv
    <3>2. Member \in Tags
      BY <1>2, <2>4, LoadFacts DEF Base, LoadInv
    <3>3. /\ entries'[Member] # None /\ entries'[Member].gen = generation'
          /\ Good(entries[Member].release) => Good(entries'[Member].release)
      <4>1. PICK t \in Tags : t = Member
        BY <3>2
      <4>2. GoodGen(t)' /\ (Good(entries[t].release) => Good(entries'[t].release))
        BY <2>1, <3>1, <4>1, GoodStays
      <4> QED
        BY <4>1, <4>2 DEF GoodGen
    <3> QED
      BY <2>1, <2>4, <3>1, <3>3 DEF GoodGen, Good
  <2> QED
    BY <2>1, <2>2, <2>3, <2>4
<1> QED
  BY <1>1, <1>2

\* Only an instance of this generation lists a node in it, unless a call is stray.
LEMMA ListsStep == Base /\ NoStray /\ ListsInv /\ [Next]_vars => ListsInv'
<1> SUFFICES ASSUME Base, NoStray, ListsInv, [Next]_vars, ~stray', NEW t \in Listed'
             PROVE  \E i \in 1 .. Len(inst') : inst'[i].gen = generation'
                                               /\ t \in Range(inst'[i].nodes)
  BY DEF ListsInv
<1>0. /\ Shapes /\ LoadInv /\ Grows /\ EntryStep(t) /\ t \in Tags
      /\ entries'[t] # None /\ entries'[t].gen = generation'
  BY GrowsDoes, EntryDoes DEF Base, Listed
<1>1. ~BumpGeneration
  <2>1. ASSUME BumpGeneration PROVE FALSE
    <3>1. entries' = entries /\ generation' = generation + 1
      BY <2>1, GenerationDoes
    <3>2. generation \in Nat /\ EntryInv(t)
      BY <1>0 DEF Base, Shapes
    <3>3. entries[t] # None /\ entries[t].gen = generation + 1
      BY <1>0, <3>1
    <3>4. entries[t].gen <= generation
      BY <3>2, <3>3 DEF EntryInv
    <3> QED
      BY <3>2, <3>3, <3>4
  <2> QED
    BY <2>1
<1>2. generation' = generation /\ ~stray
  BY <1>1, GenerationDoes, StrayDoes
<1>3. ASSUME NEW i \in 1 .. Len(inst), inst[i].gen = generation, t \in Range(inst[i].nodes)
      PROVE  /\ i \in 1 .. Len(inst') /\ inst'[i].gen = generation'
             /\ t \in Range(inst'[i].nodes)
  <2>1. Len(inst) \in Nat
    BY <1>0 DEF Shapes
  <2> QED
    BY <1>0, <1>2, <1>3, <2>1 DEF Grows
<1>4. CASE t \in Listed
  <2>1. PICK i \in 1 .. Len(inst) : inst[i].gen = generation /\ t \in Range(inst[i].nodes)
    BY <1>2, <1>4 DEF ListsInv
  <2> QED
    BY <1>3, <2>1
<1>5. CASE t \notin Listed
  <2>1. ~(entries[t] # None /\ entries[t].gen = generation)
    BY <1>0, <1>5 DEF Listed
  <2>2. \/ RegisterNode /\ t = Member
        \/ \E m \in inits : t = Current(m) /\ RegisterWrites(m) /\ RegisteredBy(t, m.gen)
    BY <1>0, <1>2, <2>1, Zenon DEF EntryStep, Kept, ReleaseBy, ProbeBy
  <2>3. CASE RegisterNode /\ t = Member
    <3>1. ld.pc = "register" /\ ld.inst # 0
      BY <1>0, <2>3 DEF RegisterNode, LoadInv
    <3>2. ld.inst \in 1 .. Len(inst) /\ Newest = ld.inst /\ t \in Range(inst[ld.inst].nodes)
      BY <1>0, <2>3, <3>1, LoadFacts
    <3>3. inst[ld.inst].gen = generation
      BY <3>2 DEF Base, InstanceInv
    <3> QED
      BY <1>3, <3>2, <3>3
  <2>4. ASSUME NEW m \in inits, t = Current(m)
        PROVE  m.inst \in 1 .. Len(inst) /\ inst[m.inst].gen = generation
               /\ t \in Range(inst[m.inst].nodes)
    <3>1. InitInv(m)
      BY DEF Base
    <3> QED
      BY <1>0, <1>2, <2>4, <3>1, CallFacts DEF NoStray
  <2> QED
    BY <1>3, <2>2, <2>3, <2>4
<1> QED
  BY <1>4, <1>5

-----------------------------------------------------------------------------
(* The theorems *)

\* The inductive invariant holds always.
LEMMA Invariant == Spec => []Safe
<1>1. Init => Safe
  <2> SUFFICES ASSUME Init PROVE Safe
    OBVIOUS
  <2>1. Base
    BY BaseInit
  <2>2. inits = {} /\ Newest = 0
    BY NoLoadType DEF Init, Newest, Loads
  <2>3. Listed = {}
    BY DEF Init, Listed
  <2> QED
    BY <2>1, <2>2, <2>3 DEF Safe, SharesEpoch, NoStray, LinkedInv, ListsInv
<1>2. Safe /\ [Next]_vars => Safe'
  BY BaseStep, SharesStep, NoStrayStep, LinkedStep, ListsStep DEF Safe
<1> QED
  BY <1>1, <1>2, PTL DEF Spec

\* While an instance runs it is the newest, and all of its nodes have their
\* functions from it.
LEMMA Running ==
    ASSUME Base, running # 0
    PROVE  /\ Newest = running /\ running \in 1 .. Len(inst) /\ DOMAIN inst = 1 .. Len(inst)
           /\ InstanceInv(running) /\ inst[running].up /\ ld.pc = "idle"
           /\ Range(inst[running].nodes) \subseteq Tags
           /\ \A t \in Range(inst[running].nodes) : Linked(t)
<1>1. /\ Shapes /\ LoadInv /\ inst \in Seq(Instance) /\ running \in 0 .. Len(inst)
      /\ Len(inst) \in Nat
  BY DEF Base, Shapes
<1>2. ld.pc = "idle" /\ Newest = running
  BY <1>1 DEF LoadInv, Newest
<1>3. running \in 1 .. Len(inst) /\ DOMAIN inst = 1 .. Len(inst)
  BY <1>1, LenProperties
<1>4. InstanceInv(running)
  BY <1>3 DEF Base
<1>5. inst[running].up
  BY <1>4 DEF InstanceInv
<1>6. Range(inst[running].nodes) \subseteq Tags
  BY <1>1, <1>3, InstFacts
<1>7. \A t : ~Pending(t)
  BY <1>2 DEF Pending
<1> QED
  BY <1>2, <1>3, <1>4, <1>5, <1>6, <1>7 DEF Linked

\* The monitor shows what is served: every node of the instance that runs is
\* listed in the current generation and, unless a reload of this generation
\* failed, no other is, as long as no call of a failed instance goes astray.
THEOREM ShowsTheServed == Spec => []ShowsWhatIsServed
<1>1. Safe => ShowsWhatIsServed
  <2> SUFFICES ASSUME Safe, running # 0, ~stray
               PROVE  /\ Range(inst[running].nodes) \subseteq Listed
                      /\ RolledBack \/ Listed \subseteq Range(inst[running].nodes)
    BY DEF ShowsWhatIsServed
  <2>1. Base /\ LinkedInv /\ ListsInv /\ \A i \in 1 .. Len(inst) : InstanceInv(i)
    BY DEF Safe, Base
  <2>2. /\ Newest = running /\ ld.pc = "idle" /\ DOMAIN inst = 1 .. Len(inst)
        /\ Range(inst[running].nodes) \subseteq Tags
        /\ \A t \in Range(inst[running].nodes) : Linked(t)
    BY <2>1, Running
  <2>3. Range(inst[running].nodes) \subseteq Listed
    BY <2>1, <2>2 DEF LinkedInv, GoodGen, Listed
  <2>4. ASSUME ~RolledBack, NEW t \in Listed
        PROVE  t \in Range(inst[running].nodes)
    <3>1. PICK i \in 1 .. Len(inst) : inst[i].gen = generation /\ t \in Range(inst[i].nodes)
      BY <2>1, <2>4 DEF ListsInv
    <3>2. CASE inst[i].up
      BY <2>1, <2>2, <3>1, <3>2 DEF InstanceInv
    <3>3. CASE ~inst[i].up
      BY <2>2, <2>4, <3>1, <3>3 DEF RolledBack
    <3> QED
      BY <3>2, <3>3
  <2> QED
    BY <2>3, <2>4
<1> QED
  BY <1>1, Invariant, PTL

\* The functions in the entry of a node that is served are those of the instance
\* that runs, as long as no call of a failed instance goes astray.
THEOREM FunctionsReach == Spec => []FunctionsReachTheInstance
<1>1. Safe => FunctionsReachTheInstance
  <2> SUFFICES ASSUME Safe, running # 0, ~stray, NEW t \in Range(inst[running].nodes)
               PROVE  entries[t].probe.inst = running /\ entries[t].release.inst = running
    BY DEF FunctionsReachTheInstance
  <2>1. Base /\ LinkedInv
    BY DEF Safe
  <2>2. Newest = running /\ t \in Tags /\ Linked(t)
    BY <2>1, Running
  <2> QED
    BY <2>1, <2>2 DEF LinkedInv, Good
<1> QED
  BY <1>1, Invariant, PTL

\* All pools of the instance that runs have all their members, each with the one
\* shared state that is in the store; and the functions in the entries of its nodes
\* find that one too, as long as no call of a failed instance goes astray.
THEOREM SharedStateIsOne == Spec => []OneSharedState
<1>1. Safe => OneSharedState
  <2> SUFFICES ASSUME Safe, running # 0 PROVE OneSharedState
    BY DEF OneSharedState
  <2>1. Base /\ SharesEpoch /\ LinkedInv /\ Shapes
    BY DEF Safe, Base
  <2>2. /\ Newest = running /\ running \in 1 .. Len(inst) /\ InstanceInv(running)
        /\ inst[running].up /\ Range(inst[running].nodes) \subseteq Tags
        /\ \A t \in Range(inst[running].nodes) : Linked(t)
    BY <2>1, Running
  <2>3. ASSUME NEW p \in PoolsIn(running)
        PROVE  /\ p \in Pools
               /\ inst[running].held[p] \in Seq({epoch})
               /\ Len(inst[running].held[p]) = Len(Members(p, inst[running].nodes))
               /\ Members(p, inst[running].nodes) \in Seq(Tags)
               /\ Len(inst[running].held[p]) \in Nat \ {0}
    <3>1. /\ p \in Pools /\ Members(p, inst[running].nodes) \in Seq(Tags)
          /\ Len(Members(p, inst[running].nodes)) \in Nat \ {0}
      BY <2>1, <2>2, InstFacts
    <3>2. inst[running].held[p] # <<>>
      BY <2>2 DEF InstanceInv
    <3>3. Len(inst[running].held[p]) = Len(Members(p, inst[running].nodes))
      BY <2>2, <3>1, <3>2 DEF InstanceInv
    <3>4. inst[running].held[p] \in Seq({epoch})
      BY <2>1, <2>2, <3>1 DEF SharesEpoch
    <3> QED
      BY <3>1, <3>3, <3>4
  <2>4. ASSUME NEW p \in PoolsIn(running) PROVE Range(inst[running].held[p]) = {epoch}
    <3> DEFINE s == inst[running].held[p]
    <3>1. s \in Seq({epoch}) /\ Len(s) \in Nat \ {0}
      BY <2>3
    <3> HIDE DEF s
    <3>2. s[1] = epoch /\ \A k \in 1 .. Len(s) : s[k] = epoch
      BY <3>1, ElementOfSeq
    <3>3. Range(s) = {s[k] : k \in 1 .. Len(s)}
      BY <3>1, RangeEquality
    <3>4. Range(s) = {epoch}
      BY <3>1, <3>2, <3>3
    <3> QED
      BY <3>4 DEF s
  <2>5. ASSUME ~stray, NEW t \in Range(inst[running].nodes)
        PROVE  StatesOf(entries[t].probe, t) = {epoch} /\ entries[t].release.state \in {0, epoch}
    <3> DEFINE f == entries[t].probe
    <3>1. /\ t \in Tags /\ entries[t] # None /\ f.inst = running /\ f.state \in {0, epoch}
          /\ entries[t].release.state \in {0, epoch}
      BY <2>1, <2>2, <2>5 DEF LinkedInv, Good, GoodGen
    <3>2. f.pool \in PoolsIn(running) /\ t \in Range(Members(f.pool, inst[running].nodes))
      <4>1. EntryInv(t)
        BY <2>1, <3>1 DEF Base
      <4>2. FunctionOk(f, t)
        BY <3>1, <4>1 DEF EntryInv
      <4> QED
        BY <2>2, <3>1, <4>2 DEF FunctionOk
    <3>3. epoch \in Nat \ {0}
      BY <2>1 DEF Shapes
    <3> HIDE DEF f
    <3>4. CASE f.state # 0
      <4>1. StatesOf(f, t) = {f.state}
        BY <3>4 DEF StatesOf
      <4> QED
        BY <3>1, <3>4, <4>1 DEF f
    <3>5. CASE f.state = 0
      <4> DEFINE s == inst[running].held[f.pool]
                 ms == Members(f.pool, inst[running].nodes)
      <4>1. StatesOf(f, t) = {s[k] : k \in {j \in DOMAIN s : ms[j] = t}}
        BY <3>1, <3>5 DEF StatesOf
      <4>2. /\ s \in Seq({epoch}) /\ Len(s) = Len(ms) /\ ms \in Seq(Tags) /\ t \in Range(ms)
        BY <2>3, <3>2
      <4> HIDE DEF s, ms
      <4>3. DOMAIN s = 1 .. Len(ms) /\ \A k \in 1 .. Len(ms) : s[k] = epoch
        BY <4>2, LenProperties, ElementOfSeq
      <4>4. PICK j \in 1 .. Len(ms) : ms[j] = t
        BY <4>2, RangeEquality
      <4>5. StatesOf(f, t) = {epoch}
        BY <4>1, <4>3, <4>4
      <4> QED
        BY <3>1, <4>5 DEF f
    <3> QED
      BY <3>4, <3>5
  <2> QED
    BY <2>3, <2>4, <2>5 DEF OneSharedState, PoolsIn
<1> QED
  BY <1>1, Invariant, PTL
===============================================================================
