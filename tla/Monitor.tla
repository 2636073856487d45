-------------------------------- MODULE Monitor --------------------------------
(***************************************************************************)
(* The monitor manager (internal/monitor/manager.go) across reloads.  Its  *)
(* entries outlive the sing-box instances whose pools register the nodes:  *)
(* a reload closes one instance, empties the store of shared states, bumps *)
(* the generation and builds the next, whose pools register each node      *)
(* twice, when they are created and when they initialise their members,    *)
(* and leave their probe and release functions in the entries.  Meanwhile  *)
(* the periodic check, handlers' probes and the probes that pools start    *)
(* with go on, call whatever function they found, and write what it        *)
(* returns into the entry; by the way they may initialise the members of a *)
(* pool, of a failed instance too, member by member, across a reload.      *)
(*                                                                         *)
(* Instances are numbered as they are created.  The shared state of a node *)
(* is the object of an epoch: the store is emptied between two epochs.     *)
(***************************************************************************)
EXTENDS Naturals, Sequences, FiniteSets, Functions

CONSTANTS
    Tags,         \* the nodes' tags
    All,          \* the tag of the pool over all nodes
    Mode,         \* "pool", "multi-port" or "hybrid"
    Initial,      \* the nodes of the configuration at start
    Configs,      \* the lists of nodes a reload may have
    Healthy,      \* the nodes that answer
    Limit,        \* workers of a round of the check (at least 8 in the code)
    MaxInstances, \* bound: instances ever created
    Watched,      \* bound: the nodes handlers probe, one call at a time, and whose
                  \* availability is kept
    None

ASSUME MonitorAssumption ==
    /\ All \notin Tags /\ None \notin Tags
    /\ Configs \subseteq Seq(Tags) \ {<<>>} /\ Initial \in Configs
    /\ Healthy \subseteq Tags
    /\ Mode \in {"pool", "multi-port", "hybrid"}
    /\ Limit \in Nat \ {0} /\ MaxInstances \in Nat \ {0} /\ Watched \subseteq Tags

VARIABLES
    generation, \* monitor.Manager.generation
    entries,    \* monitor.Manager.nodes: for each tag its entry, or None
    epoch,      \* how often the store of shared states was emptied
    inst,       \* the instances: their nodes, the generation they were created
                \* in, for each pool the epochs of the shared states its members
                \* hold (none before they are initialised), the pools that were
                \* started, and whether it was ever published
    inits,      \* calls of initializeMembersLocked under way, each with the mutex
                \* of its pool
    running,    \* the published instance, 0 if there is none
    ld,         \* the goroutine in Start or Reload
    check,      \* the goroutine of the periodic check
    probes,     \* calls of probe functions under way
    stray       \* history: in this generation, members of a pool whose instance
                \* had failed were being initialised when or after the next
                \* instance was created

vars == <<generation, entries, epoch, inst, inits, running, ld, check, probes, stray>>

Pools == {All} \cup Tags

\* A probe or release function: the instance and pool it is of, and the epoch of
\* the shared state it has; 0 if it goes by tag.
Function == [inst : Nat, pool : Pools, state : Nat]
Calls    == [by : {"check", "handler", "startup"}, tag : Tags, func : Function]

\* No entry is none, no call is none.
ASSUME NoneAssumption ==
    /\ None \notin [gen : Nat, shown : {"unchecked", "yes", "no"},
                    probe : Function, release : Function]
    /\ None \notin Calls

\* builder.Build: the pool over all nodes, and one per node.
PoolsOf(nodes) ==
    (IF Mode # "multi-port" THEN <<All>> ELSE <<>>) \o (IF Mode # "pool" THEN nodes ELSE <<>>)
Members(p, nodes) == IF p = All THEN nodes ELSE <<p>>

NoFunction == [inst |-> 0, pool |-> All, state |-> 0]
NoCheck == [pc |-> "off", todo |-> {}, gen |-> 0, call |-> None, slots |-> 0]
NoLoad  == [pc |-> "idle", what |-> "none", nodes |-> <<>>, old |-> <<>>, inst |-> 0,
            pools |-> <<>>, member |-> 1, at |-> "entry"]

Init ==
    /\ generation = 1
    /\ entries = [t \in Tags |-> None]
    /\ epoch = 1
    /\ inst = <<>>
    /\ inits = {}
    /\ running = 0
    /\ ld = [NoLoad EXCEPT !.pc = "create", !.what = "start", !.nodes = Initial]
    /\ check = NoCheck
    /\ probes = {}
    /\ stray = FALSE

-----------------------------------------------------------------------------
(* Entries *)

\* Register, once it has the lock: a new entry, or the old one in the generation
\* loaded before, with what it showed and the functions it had.
Registered(t, gen) ==
    IF entries[t] = None
    THEN [gen |-> gen, shown |-> "unchecked", probe |-> NoFunction, release |-> NoFunction]
    ELSE [entries[t] EXCEPT !.gen = gen]

\* Mutant: a function is set only where there is none yet.
MutantWithProbe(e, f) == IF e.probe.inst = 0 THEN [e EXCEPT !.probe = f] ELSE e

\* SetRelease and SetProbe.
WithRelease(e, f) == [e EXCEPT !.release = f]
WithProbe(e, f)   == [e EXCEPT !.probe = f]

\* Mutant: a success is written to the entry of a failed node only as latency.
MutantShows(t, ok) ==
    entries' = IF t \in Watched /\ ~(ok /\ entries[t].shown = "no")
               THEN [entries EXCEPT ![t].shown = IF ok THEN "yes" ELSE "no"] ELSE entries

\* available and initialCheckDone, whatever the generation of the entry.
Shows(t, ok) ==
    entries' = IF t \in Watched
               THEN [entries EXCEPT ![t].shown = IF ok THEN "yes" ELSE "no"] ELSE entries

-----------------------------------------------------------------------------
(* initializeMembersLocked: each member gets the shared state in the store, is *)
(* registered again, in three steps, and leaves its functions in the entry.    *)

Initializing(i, p) == \E m \in inits : m.inst = i /\ m.pool = p
Initialize(i, p) ==
    inits' = inits \cup {[inst |-> i, pool |-> p, states |-> <<epoch>>, step |-> "load", gen |-> 0]}
GoesOn(m, next) == inits' = (inits \ {m}) \cup {next}

MembersOf(m) == Members(m.pool, inst[m.inst].nodes)
Current(m)   == MembersOf(m)[Len(m.states)]
FunctionOf(m) == [inst |-> m.inst, pool |-> m.pool, state |-> m.states[Len(m.states)]]

AcquireSharedState(m) ==
    /\ m.step = "acquire"
    /\ GoesOn(m, [m EXCEPT !.states = Append(@, epoch), !.step = "load"])
    /\ UNCHANGED <<generation, entries, epoch, inst, running, ld, check, probes, stray>>

\* Register loads the generation before it locks the entries.
RegisterLoads(m) ==
    /\ m.step = "load"
    /\ GoesOn(m, [m EXCEPT !.gen = generation, !.step = "write"])
    /\ UNCHANGED <<generation, entries, epoch, inst, running, ld, check, probes, stray>>

RegisterWrites(m) ==
    /\ m.step = "write"
    /\ entries' = [entries EXCEPT ![Current(m)] = Registered(Current(m), m.gen)]
    /\ GoesOn(m, [m EXCEPT !.gen = 0, !.step = "release"])
    /\ UNCHANGED <<generation, epoch, inst, running, ld, check, probes, stray>>

SetMemberRelease(m) ==
    /\ m.step = "release"
    /\ entries' = [entries EXCEPT ![Current(m)] = WithRelease(@, FunctionOf(m))]
    /\ GoesOn(m, [m EXCEPT !.step = "probe"])
    /\ UNCHANGED <<generation, epoch, inst, running, ld, check, probes, stray>>

\* The members are the pool's when the last has its functions.
SetMemberProbe(m) ==
    /\ m.step = "probe"
    /\ entries' = [entries EXCEPT ![Current(m)] = WithProbe(@, FunctionOf(m))]
    /\ IF Len(m.states) < Len(MembersOf(m))
       THEN GoesOn(m, [m EXCEPT !.step = "acquire"]) /\ UNCHANGED inst
       ELSE /\ inits' = inits \ {m}
            /\ inst' = [inst EXCEPT ![m.inst].held[m.pool] = m.states]
    /\ UNCHANGED <<generation, epoch, running, ld, check, probes, stray>>

-----------------------------------------------------------------------------
(* Start and Reload, as far as the monitor sees them *)

\* The old instance is closed; its connections, probes and functions live on.
BeginReload ==
    /\ running # 0
    /\ Len(inst) < MaxInstances
    /\ \E nodes \in Configs :
          ld' = [NoLoad EXCEPT !.pc = "reset", !.what = "reload", !.nodes = nodes,
                               !.old = inst[running].nodes]
    /\ running' = 0
    /\ UNCHANGED <<generation, entries, epoch, inst, inits, check, probes, stray>>

ResetSharedStateStore ==
    /\ ld.pc = "reset"
    /\ epoch' = epoch + 1
    /\ ld' = [ld EXCEPT !.pc = "bump"]
    /\ UNCHANGED <<generation, entries, inst, inits, running, check, probes, stray>>

\* Mutant: the generation stays.
MutantBumpGeneration ==
    /\ ld.pc = "bump"
    /\ ld' = [ld EXCEPT !.pc = "create"]
    /\ stray' = (inits # {})
    /\ UNCHANGED <<generation, entries, epoch, inst, inits, running, check, probes>>

BumpGeneration ==
    /\ ld.pc = "bump"
    /\ generation' = generation + 1
    /\ ld' = [ld EXCEPT !.pc = "create"]
    /\ stray' = (inits # {})
    /\ UNCHANGED <<entries, epoch, inst, inits, running, check, probes>>

\* createBox begins.
CreateInstance ==
    /\ ld.pc = "create"
    /\ Len(inst) < MaxInstances
    /\ inst' = Append(inst, [nodes |-> ld.nodes, gen |-> generation,
                             held |-> [p \in Pools |-> <<>>], started |-> {}, up |-> FALSE])
    /\ ld' = [ld EXCEPT !.pc = "register", !.inst = Len(inst) + 1, !.pools = PoolsOf(ld.nodes)]
    /\ stray' = (stray \/ inits # {})
    /\ UNCHANGED <<generation, entries, epoch, inits, running, check, probes>>

Pool   == Head(ld.pools)
Member == Members(Pool, ld.nodes)[ld.member]
ByTag  == [inst |-> ld.inst, pool |-> Pool, state |-> 0]

\* newPool, for one member: the entry is in the new generation before it has the
\* functions of the new instance.  Only this goroutine changes the generation.
RegisterNode ==
    /\ ld.pc = "register" /\ ld.at = "entry"
    /\ entries' = [entries EXCEPT ![Member] = Registered(Member, generation)]
    /\ ld' = [ld EXCEPT !.at = "release"]
    /\ UNCHANGED <<generation, epoch, inst, inits, running, check, probes, stray>>

SetRelease ==
    /\ ld.pc = "register" /\ ld.at = "release"
    /\ entries' = [entries EXCEPT ![Member] = WithRelease(@, ByTag)]
    /\ ld' = [ld EXCEPT !.at = "probe"]
    /\ UNCHANGED <<generation, epoch, inst, inits, running, check, probes, stray>>

SetProbe ==
    /\ ld.pc = "register" /\ ld.at = "probe"
    /\ entries' = [entries EXCEPT ![Member] = WithProbe(@, ByTag)]
    /\ ld' = IF ld.member < Len(Members(Pool, ld.nodes))
             THEN [ld EXCEPT !.at = "entry", !.member = @ + 1]
             ELSE IF Len(ld.pools) > 1
             THEN [ld EXCEPT !.at = "entry", !.member = 1, !.pools = Tail(@)]
             ELSE [ld EXCEPT !.at = "entry", !.member = 1, !.pc = "start",
                             !.pools = PoolsOf(ld.nodes)]
    /\ UNCHANGED <<generation, epoch, inst, inits, running, check, probes, stray>>

\* instance.Start starts a pool: it waits for the pool's mutex and initialises
\* the members, unless a probe was quicker.
StartPool ==
    /\ ld.pc = "start" /\ ld.pools # <<>> /\ ld.at = "entry"
    /\ inst[ld.inst].held[Pool] = <<>> /\ ~Initializing(ld.inst, Pool)
    /\ Initialize(ld.inst, Pool)
    /\ ld' = [ld EXCEPT !.at = "members"]
    /\ UNCHANGED <<generation, entries, epoch, inst, running, check, probes, stray>>

\* probeAllMembersOnStartup, a goroutine of its own, which no reload cancels; one
\* probe after the other in the code, in any order here.
StartupProbes ==
    {[by |-> "startup", tag |-> Members(Pool, ld.nodes)[k],
      func |-> [inst |-> ld.inst, pool |-> Pool, state |-> inst[ld.inst].held[Pool][k]]] :
         k \in {j \in DOMAIN Members(Pool, ld.nodes) : Members(Pool, ld.nodes)[j] \in Watched}}

PoolStarted ==
    /\ ld.pc = "start" /\ ld.pools # <<>>
    /\ inst[ld.inst].held[Pool] # <<>>
    /\ inst' = [inst EXCEPT ![ld.inst].started = @ \cup {Pool}]
    /\ ld' = [ld EXCEPT !.at = "entry", !.pools = Tail(@)]
    /\ probes' = probes \cup StartupProbes
    /\ UNCHANGED <<generation, entries, epoch, inits, running, check, stray>>

\* The inbounds bind last: a port is taken, the instance is closed, the store
\* is emptied once more, and the next attempt registers everything again, in
\* the same generation.
PortConflict ==
    /\ ld.pc = "start" /\ ld.pools = <<>> /\ ld.what # "rollback"
    /\ Len(inst) < MaxInstances
    /\ epoch' = epoch + 1
    /\ ld' = [ld EXCEPT !.pc = "create", !.inst = 0]
    /\ UNCHANGED <<generation, entries, inst, inits, running, check, probes, stray>>

\* createBox or Start fails between two pools: what the pools registered so far
\* stays registered.  (A failed first start ends the program.)
ReloadFails ==
    /\ ld.pc \in {"register", "start"} /\ ld.at = "entry" /\ ld.what = "reload"
    /\ Len(inst) < MaxInstances
    /\ ld' = [NoLoad EXCEPT !.pc = "create", !.what = "rollback", !.nodes = ld.old]
    /\ UNCHANGED <<generation, entries, epoch, inst, inits, running, check, probes, stray>>

RollbackFails ==
    /\ ld.pc \in {"register", "start"} /\ ld.at = "entry" /\ ld.what = "rollback"
    /\ ld' = NoLoad
    /\ UNCHANGED <<generation, entries, epoch, inst, inits, running, check, probes, stray>>

\* Mutant: the store is emptied when the new instance is published.
MutantPublish ==
    /\ ld.pc = "start" /\ ld.pools = <<>>
    /\ running' = ld.inst
    /\ inst' = [inst EXCEPT ![ld.inst].up = TRUE]
    /\ ld' = NoLoad
    /\ epoch' = IF ld.what = "reload" THEN epoch + 1 ELSE epoch
    /\ check' = IF check.pc = "off" THEN [check EXCEPT !.pc = "first"] ELSE check
    /\ UNCHANGED <<generation, entries, inits, probes, stray>>

\* The first publication starts the periodic check.
Publish ==
    /\ ld.pc = "start" /\ ld.pools = <<>>
    /\ running' = ld.inst
    /\ inst' = [inst EXCEPT ![ld.inst].up = TRUE]
    /\ ld' = NoLoad
    /\ check' = IF check.pc = "off" THEN [check EXCEPT !.pc = "first"] ELSE check
    /\ UNCHANGED <<generation, entries, epoch, inits, probes, stray>>

-----------------------------------------------------------------------------
(* Probes *)

\* What a probe over instance i may return: a failure where the node would
\* answer, if the instance is closed or not up yet, or if the probe is a
\* handler's, whose client may go away and so cancel it.
Outcomes(by, i, t) ==
    {t \in Healthy} \cup IF i = running /\ by # "handler" THEN {} ELSE {FALSE}

Call(by, t) == [by |-> by, tag |-> t, func |-> entries[t].probe]

\* Probe of one node, by a handler: the entry must be of the current generation
\* and have a probe function.
ManualProbe(t) ==
    /\ \A pr \in probes : pr.by # "handler"
    /\ entries[t] # None
    /\ entries[t].gen = generation /\ entries[t].probe.inst # 0
    /\ probes' = probes \cup {Call("handler", t)}
    /\ UNCHANGED <<generation, entries, epoch, inst, inits, running, ld, check, stray>>

\* probeAllNodes, at once and then on every tick: it lists the entries, reads
\* the generation, and for each entry of that generation reads the probe function,
\* waits for a slot and starts a worker.
ListEntries ==
    /\ check.pc \in {"first", "wait"}
    /\ check' = [check EXCEPT !.pc = "listed", !.todo = {t \in Tags : entries[t] # None}]
    /\ UNCHANGED <<generation, entries, epoch, inst, inits, running, ld, probes, stray>>

LoadGeneration ==
    /\ check.pc = "listed"
    /\ check' = [check EXCEPT !.pc = "round", !.gen = generation]
    /\ UNCHANGED <<generation, entries, epoch, inst, inits, running, ld, probes, stray>>

SkipNode(t) ==
    /\ check.pc = "round" /\ check.call = None /\ t \in check.todo
    /\ entries[t].gen # check.gen \/ entries[t].probe.inst = 0
    /\ check' = [check EXCEPT !.todo = @ \ {t}]
    /\ UNCHANGED <<generation, entries, epoch, inst, inits, running, ld, probes, stray>>

CheckNode(t) ==
    /\ check.pc = "round" /\ check.call = None /\ t \in check.todo
    /\ entries[t].gen = check.gen /\ entries[t].probe.inst # 0
    /\ check' = [check EXCEPT !.todo = @ \ {t}, !.call = Call("check", t)]
    /\ UNCHANGED <<generation, entries, epoch, inst, inits, running, ld, probes, stray>>

StartWorker ==
    /\ check.call # None /\ check.slots < Limit
    /\ check' = [check EXCEPT !.call = None, !.slots = @ + 1]
    /\ probes' = probes \cup {check.call}
    /\ UNCHANGED <<generation, entries, epoch, inst, inits, running, ld, stray>>

\* wg.Wait
EndRound ==
    /\ check.pc = "round" /\ check.todo = {} /\ check.call = None
    /\ \A pr \in probes : pr.by # "check"
    /\ check' = [check EXCEPT !.pc = "wait", !.gen = 0]
    /\ UNCHANGED <<generation, entries, epoch, inst, inits, running, ld, probes, stray>>

\* A probe by tag of a pool whose members are not there yet.
Uninitialized(pr) == pr.func.state = 0 /\ inst[pr.func.inst].held[pr.func.pool] = <<>>

\* makeProbeByTagFunc: such a probe initialises the members, even when the
\* instance is closed, once it has the pool's mutex.
InitializeLate(pr) ==
    /\ Uninitialized(pr) /\ ~Initializing(pr.func.inst, pr.func.pool)
    /\ Initialize(pr.func.inst, pr.func.pool)
    /\ stray' = (stray \/ pr.func.inst # ld.inst)
    /\ UNCHANGED <<generation, entries, epoch, inst, running, ld, check, probes>>

\* Mutant: a worker whose probe failed keeps its slot.
MutantSlots(pr, ok) == IF pr.by = "check" /\ ok THEN check.slots - 1 ELSE check.slots

\* Mutant: every probe gives up a slot.
MutantSlotsOfAll(pr, ok) == check.slots - 1

Slots(pr, ok) == IF pr.by = "check" THEN check.slots - 1 ELSE check.slots

\* The function returns, in time or because its context has ended, and the
\* result goes to the entry of the tag, whatever was registered meanwhile.  A
\* pool whose members cannot be initialised returns an error.
ProbeEnds(pr) ==
    /\ Uninitialized(pr) => ~Initializing(pr.func.inst, pr.func.pool)
    /\ \E ok \in Outcomes(pr.by, pr.func.inst, pr.tag) :
          /\ Uninitialized(pr) => ~ok
          /\ Shows(pr.tag, ok)
          /\ check' = [check EXCEPT !.slots = Slots(pr, ok)]
    /\ probes' = probes \ {pr}
    /\ UNCHANGED <<generation, epoch, inst, inits, running, ld, stray>>

-----------------------------------------------------------------------------
Load ==
    \/ ResetSharedStateStore \/ BumpGeneration \/ CreateInstance
    \/ RegisterNode \/ SetRelease \/ SetProbe
    \/ StartPool \/ PoolStarted \/ PortConflict \/ ReloadFails \/ RollbackFails \/ Publish

MemberStep(m) ==
    \/ AcquireSharedState(m) \/ RegisterLoads(m) \/ RegisterWrites(m)
    \/ SetMemberRelease(m) \/ SetMemberProbe(m)

CheckStep ==
    \/ ListEntries \/ LoadGeneration \/ StartWorker \/ EndRound
    \/ \E t \in Tags : SkipNode(t) \/ CheckNode(t)

Next ==
    \/ BeginReload \/ Load
    \/ \E m \in inits : MemberStep(m)
    \/ CheckStep
    \/ \E t \in Watched : ManualProbe(t)
    \/ \E pr \in probes : InitializeLate(pr) \/ ProbeEnds(pr)

Spec == Init /\ [][Next]_vars

\* The goroutine of the check goes on, and its ticker fires.  That its probes
\* end is a premise of the properties: a connection may have no deadlines.
FairSpec == Spec /\ WF_vars(CheckStep)

-----------------------------------------------------------------------------
(* Invariants *)

TypeOK ==
    /\ generation \in 1 .. MaxInstances
    /\ entries \in [Tags -> {None} \cup
                       [gen : 1 .. generation, shown : {"unchecked", "yes", "no"},
                        probe : Function, release : Function]]
    /\ \A t \in Tags : entries[t] # None =>
          entries[t].probe.inst \in 0 .. Len(inst) /\ entries[t].release.inst \in 0 .. Len(inst)
    /\ epoch \in 1 .. MaxInstances
    /\ Len(inst) <= MaxInstances
    /\ \A i \in DOMAIN inst :
          /\ inst[i].nodes \in Configs
          /\ inst[i].gen \in 1 .. generation
          /\ inst[i].held \in [Pools -> Seq(1 .. epoch)]
          /\ inst[i].started \subseteq Pools /\ inst[i].up \in BOOLEAN
    /\ inits \subseteq [inst : DOMAIN inst, pool : Pools, states : Seq(1 .. epoch),
                        step : {"acquire", "load", "write", "release", "probe"},
                        gen : 0 .. generation]
    /\ running \in 0 .. Len(inst)
    /\ ld.pc \in {"idle", "reset", "bump", "create", "register", "start"}
    /\ ld.what \in {"none", "start", "reload", "rollback"}
    /\ ld.nodes \in Seq(Tags) /\ ld.old \in Seq(Tags)
    /\ ld.inst \in 0 .. Len(inst)
    /\ ld.pools \in Seq(Pools) /\ ld.member \in Nat \ {0}
    /\ ld.at \in {"entry", "release", "probe", "members"}
    /\ check.pc \in {"off", "first", "listed", "round", "wait"}
    /\ check.todo \subseteq Tags /\ check.gen \in 0 .. generation
    /\ check.call \in {None} \cup Calls /\ check.slots \in 0 .. Limit
    /\ probes \subseteq Calls /\ \A pr \in probes : pr.func.inst \in DOMAIN inst
    /\ stray \in BOOLEAN

Listed == {t \in Tags : entries[t] # None /\ entries[t].gen = generation}
Serves(t) == running # 0 /\ t \in Range(inst[running].nodes)

\* A reload of this generation failed with other nodes than those rolled back to.
RolledBack ==
    \E i \in DOMAIN inst :
        inst[i].gen = generation /\ ~inst[i].up /\ inst[i].nodes # inst[running].nodes

\* The monitor shows the nodes that are served: every one of them and, unless a
\* reload of this generation failed, no other.  A pool of a failed instance whose
\* members a probe initialises in this generation can spoil that (stray).
ShowsWhatIsServed ==
    running # 0 /\ ~stray =>
        /\ Range(inst[running].nodes) \subseteq Listed
        /\ RolledBack \/ Listed \subseteq Range(inst[running].nodes)

\* The probe and release buttons of a node, and the periodic check, reach the
\* instance that runs, not one of the closed ones that registered it before; a
\* stray initialisation can put the functions of a closed one back.
FunctionsReachTheInstance ==
    running # 0 /\ ~stray =>
        \A t \in Range(inst[running].nodes) :
            entries[t].probe.inst = running /\ entries[t].release.inst = running

\* The epochs of the states that function f for node t has; by tag it finds the
\* one of the members.
StatesOf(f, t) ==
    IF f.state # 0 THEN {f.state}
    ELSE LET states == inst[f.inst].held[f.pool] IN
         {states[k] : k \in {j \in DOMAIN states : Members(f.pool, inst[f.inst].nodes)[j] = t}}

\* Failures and blacklists of a node are common to all pools of the instance,
\* however late their members were initialised: each holds the object that is in
\* the store.  So do the functions in the node's entry (a release by tag looks it
\* up in the store), unless a stray initialisation put others there.
OneSharedState ==
    running # 0 =>
        /\ \A p \in Range(PoolsOf(inst[running].nodes)) :
              /\ Len(inst[running].held[p]) = Len(Members(p, inst[running].nodes))
              /\ Range(inst[running].held[p]) = {epoch}
        /\ ~stray => \A t \in Range(inst[running].nodes) :
              StatesOf(entries[t].probe, t) = {epoch} /\ entries[t].release.state \in {0, epoch}

-----------------------------------------------------------------------------
(* Liveness *)

Checking(t) == \E pr \in probes : pr.by = "check" /\ pr.tag = t
Asking(t)   == \E pr \in probes : pr.by = "handler" /\ pr.tag = t

\* No probe of the check hangs: over a connection without deadlines one may.
ChecksEnd == \A t \in Tags : []<>~Checking(t)

\* Unless a probe of it hangs, the periodic check comes round to every node that
\* stays in service and listed, whatever reloads cut short earlier rounds.
NodesAreChecked ==
    ChecksEnd => \A t \in Tags : <>[](Serves(t) /\ t \in Listed) => []<>Checking(t)

\* The nodes in service and listed whose probe function reaches the instance that
\* runs, and the nodes that are shown as they are.
Reached == {t \in Listed : Serves(t) /\ entries[t].probe.inst = running}
Right   == {t \in Tags : entries[t] # None
                           /\ entries[t].shown = IF t \in Healthy THEN "yes" ELSE "no"}

\* A result that comes late, from before a reload, or from a handler whose client
\* went away, does not stay: when handlers leave a node alone, and no probe of the
\* check hangs, what is shown of it settles at what the node is.
ShownSettles ==
    ChecksEnd => \A t \in Watched : <>[](t \in Reached /\ ~Asking(t)) => <>[](t \in Right)
===============================================================================
