--------------------------- MODULE PortAllocation ---------------------------
(***************************************************************************)
(* Which port a node gets: normalize at start-up, NormalizeWithPortMap at  *)
(* a reload, prepareNodeLocked at an edit, reassignConflictingPort when    *)
(* an instance cannot bind.  Other programs take and give up ports at any  *)
(* time; isPortAvailable only says what was free when it was asked.        *)
(*                                                                         *)
(* Ports are uint16: port + 1 wraps, so that the code's tests for a port   *)
(* above 65535 never hold, and port 0, which the kernel lets anyone bind,  *)
(* is always available.  PortSpace stands for 2^16.  One pass over the     *)
(* nodes is one step.  Reload itself is in BoxManager; edits while it runs *)
(* are left to that module, and so is a loop that runs out of attempts.    *)
(***************************************************************************)
EXTENDS Naturals, FiniteSets, SequencesExt

CONSTANTS
    Names,      \* names of nodes
    Uri,        \* Uri[n]: what NodeKey identifies node n by
    Inline,     \* the nodes that config.yaml lists; a refresh keeps them
    Modes,      \* bound: the modes the program is started in
    PortSpace,  \* the number of port values, 0 included
    BasePort,   \* multi_port.base_port
    PoolPort,   \* listener.port, where the pool listens
    Given,      \* bound: the ports users write into a node
    MaxBusy,    \* bound: ports other programs hold at the same time
    MaxSeized   \* bound: ports they take while an instance is started

ASSUME PortAssumption ==
    /\ PortSpace \in Nat /\ {BasePort, PoolPort} \subseteq 1..(PortSpace - 1)
    /\ Given \subseteq 0..(PortSpace - 1)
    /\ Modes \subseteq {"pool", "multi-port", "hybrid"}
    /\ Inline \subseteq Names
    /\ IsFiniteSet(Names) /\ Uri \in [Names -> Range(Uri)]
    /\ MaxBusy \in Nat /\ MaxSeized \in Nat

\* There is always a free port to be found; otherwise the loops of the code
\* would not end.
ASSUME SpaceAssumption == 2 * Cardinality(Names) + MaxBusy < PortSpace

VARIABLES
    mode,     \* cfg.Mode; no reload changes it
    pc,       \* load, boot (Start), running, reload (Reload), stopped
    nodes,    \* m.cfg.Nodes
    next,     \* the nodes of the configuration being started
    kept,     \* the port map of the reload
    bound,    \* external: the ports the running instance listens on
    busy,     \* external: the ports other programs hold
    attempt,  \* retry
    held,     \* auxiliary: ports others held since this start began
    seized    \* auxiliary: how many they have taken since

vars == <<mode, pc, nodes, next, kept, bound, busy, attempt, held, seized>>

Ports == 0..(PortSpace - 1)
Node == [name : Names, port : Ports]
OwnPorts == mode \in {"multi-port", "hybrid"}
PoolPorts == IF mode = "hybrid" THEN {PoolPort} ELSE {}
PortsOf(s) == {s[i].port : i \in DOMAIN s}
NamesOf(s) == {s[i].name : i \in DOMAIN s}

-----------------------------------------------------------------------------
(* The passes over the nodes                                               *)

After(p) == (p + 1) % PortSpace

\* The loops "for blocked(port) { port++ }", which wrap.
FirstFree(from, blocked) ==
    LET Free == {k \in 0..(PortSpace - 1) : (from + k) % PortSpace \notin blocked}
    IN  (from + Min(Free)) % PortSpace

(* The folds below carry [nodes, cursor, used]; unavailable is what         *)
(* isPortAvailable refuses.                                                *)
Keep(acc, n) == [acc EXCEPT !.nodes = Append(@, n)]
Place(acc, n, p) == Keep([acc EXCEPT !.cursor = After(p)], [n EXCEPT !.port = p])
Cursor(acc, blocked) ==
    IF OwnPorts THEN FirstFree(acc.cursor, blocked) ELSE acc.cursor
Fresh(used) == [nodes |-> <<>>, cursor |-> BasePort, used |-> used]

\* normalize skips ports in use, not those written into other nodes.
Assign(acc, n, unavailable) ==
    IF n.port # 0 THEN Keep(acc, n) ELSE Place(acc, n, Cursor(acc, unavailable))
AssignAll(s, unavailable) ==
    FoldLeft(LAMBDA acc, n : Assign(acc, n, unavailable), Fresh({}), s).nodes

\* A plausible bug: the search starts at the port that is to be left.
MutantMoveOffPool(acc, n, unavailable) ==
    IF n.port # PoolPort THEN Keep(acc, n)
    ELSE LET p == FirstFree(PoolPort, unavailable)
         IN  [Place(acc, n, p) EXCEPT !.used = @ \cup {p}]

\* The repair of hybrid mode: a node must not have the pool's port.
MoveOffPool(acc, n, unavailable) ==
    IF n.port # PoolPort THEN Keep(acc, n)
    ELSE LET p == FirstFree(After(PoolPort), acc.used \cup unavailable)
         IN  [Place(acc, n, p) EXCEPT !.used = @ \cup {p}]
MoveAllOffPool(s, unavailable) ==
    FoldLeft(LAMBDA acc, n : MoveOffPool(acc, n, unavailable),
             Fresh(PortsOf(s) \cup {PoolPort}), s).nodes

Normalize(s, unavailable) ==
    LET assigned == AssignAll(s, unavailable)
    IN  IF mode = "hybrid" THEN MoveAllOffPool(assigned, unavailable) ELSE assigned

\* A plausible bug: nodes without a port are in the map too.
MutantPortMap(s) ==
    [u \in {Uri[s[i].name] : i \in DOMAIN s} |->
        s[Max({i \in DOMAIN s : Uri[s[i].name] = u})].port]

\* BuildPortMap: of two nodes with one URI the later one counts.
PortMap(s) ==
    LET Latest(u) == Max({i \in DOMAIN s : Uri[s[i].name] = u /\ s[i].port # 0})
    IN  [u \in {Uri[s[i].name] : i \in {j \in DOMAIN s : s[j].port # 0}} |->
            s[Latest(u)].port]

\* First pass of NormalizeWithPortMap: nodes of the map get its ports.
Preserve(n, map) ==
    IF OwnPorts /\ Uri[n.name] \in DOMAIN map
    THEN [n EXCEPT !.port = map[Uri[n.name]]] ELSE n

\* A plausible bug: only the pool's port is marked as used.
MutantPreserved(s, map) == PoolPorts

\* The ports the second pass may not hand out.
Preserved(s, map) ==
    PoolPorts \cup {map[u] : u \in {Uri[s[i].name] : i \in DOMAIN s} \cap DOMAIN map}

AssignUnused(acc, n, unavailable) ==
    IF n.port # 0 THEN Keep(acc, n)
    ELSE LET p == Cursor(acc, acc.used \cup unavailable)
         IN  [Place(acc, n, p) EXCEPT !.used = @ \cup {p}]
AssignAllUnused(s, used, unavailable) ==
    FoldLeft(LAMBDA acc, n : AssignUnused(acc, n, unavailable), Fresh(used), s).nodes

\* ReloadWithPortMap leaves the nodes alone when there is nothing to keep.
NormalizeWithPortMap(s, map, unavailable) ==
    IF DOMAIN map = {} THEN s
    ELSE AssignAllUnused([i \in DOMAIN s |-> Preserve(s[i], map)],
                         Preserved(s, map), unavailable)

-----------------------------------------------------------------------------
(* Binding                                                                 *)

\* The inbounds in the order the builder lists them.
Listens(s) ==
    LET own == [i \in DOMAIN s |-> s[i].port]
    IN  CASE mode = "pool"       -> <<PoolPort>>
          [] mode = "hybrid"     -> <<PoolPort>> \o own
          [] mode = "multi-port" -> own

Conflicts(s) ==
    LET L == Listens(s)
    IN  {i \in DOMAIN L : /\ L[i] # 0
                          /\ L[i] \in busy \/ \E j \in 1..(i - 1) : L[j] = L[i]}
ConflictPort(s) == Listens(s)[Min(Conflicts(s))]
\* The builder refuses a configuration without nodes.
CanStart(s) == s # <<>> /\ Conflicts(s) = {}

Holders(s, p) == {i \in DOMAIN s : s[i].port = p}

\* A plausible bug: the pool's own port is forgotten.
MutantUsedPorts(s) == PortsOf(s)

UsedPorts(s) == PoolPorts \cup PortsOf(s)

\* reassignConflictingPort: the first node with the port moves; by now the
\* instance that could not start is closed.
Reassigned(s, p) ==
    [s EXCEPT ![Min(Holders(s, p))].port =
        FirstFree(After(p), UsedPorts(s) \cup busy)]

Init ==
    /\ pc = "load" /\ mode \in Modes
    /\ \E k \in 1..Cardinality(Names) :
         nodes \in {s \in [1..k -> [name : Names, port : Given]] :
                       Cardinality(NamesOf(s)) = k}
    /\ busy \in {B \in SUBSET (Ports \ {0}) : Cardinality(B) <= MaxBusy}
    /\ next = <<>> /\ kept = <<>>
    /\ bound = {} /\ held = {}
    /\ attempt = 0 /\ seized = 0

-----------------------------------------------------------------------------
(* Other programs                                                          *)

Starting == pc \in {"boot", "reload"}

TakePort ==
    /\ Cardinality(busy) < MaxBusy
    /\ \E p \in Ports \ ({0} \cup busy \cup bound) :
         /\ busy' = busy \cup {p}
         /\ held' = IF Starting THEN held \cup {p} ELSE held
    /\ IF Starting THEN seized < MaxSeized /\ seized' = seized + 1
       ELSE UNCHANGED seized
    /\ UNCHANGED <<mode, pc, nodes, next, kept, bound, attempt>>

FreePort ==
    /\ \E p \in busy : busy' = busy \ {p}
    /\ UNCHANGED <<mode, pc, nodes, next, kept, bound, attempt, held, seized>>

-----------------------------------------------------------------------------
(* Start and Reload                                                        *)

\* The auxiliary variables and the retry counter when a start begins, and
\* with the port map when it is over.
Restart == attempt' = 0 /\ held' = busy /\ seized' = 0
Over == attempt' = 0 /\ held' = {} /\ seized' = 0 /\ kept' = <<>>

Load ==
    /\ pc = "load" /\ pc' = "boot"
    /\ next' = Normalize(nodes, busy)
    /\ nodes' = next'
    /\ Restart
    /\ UNCHANGED <<mode, kept, bound, busy>>

Started ==
    /\ Starting /\ CanStart(next)
    /\ pc' = "running"
    /\ nodes' = next /\ next' = <<>>
    /\ bound' = Range(Listens(next)) \ {0}
    /\ Over /\ UNCHANGED <<mode, busy>>

\* Start moves the nodes of m.cfg itself, Reload those of its copy.
Reassign ==
    /\ Starting /\ next # <<>> /\ Conflicts(next) # {}
    /\ Holders(next, ConflictPort(next)) # {}
    /\ next' = Reassigned(next, ConflictPort(next))
    /\ attempt' = attempt + 1
    /\ nodes' = IF pc = "boot" THEN next' ELSE nodes
    /\ UNCHANGED <<mode, pc, kept, bound, busy, held, seized>>

\* No nodes, or the pool's port is taken and no node has it: the start fails;
\* a reload tries the old nodes once.
StartFails ==
    /\ Starting /\ ~CanStart(next)
    /\ next # <<>> => Holders(next, ConflictPort(next)) = {}
    /\ LET back == pc = "reload" /\ CanStart(nodes)
       IN  /\ pc' = IF back THEN "running" ELSE "stopped"
           /\ bound' = IF back THEN Range(Listens(nodes)) \ {0} ELSE {}
    /\ next' = <<>>
    /\ Over /\ UNCHANGED <<mode, nodes, busy>>

\* Normalization while the old instance still listens, then its end.
BeginReload(s, map) ==
    /\ next' = NormalizeWithPortMap(s, map, busy \cup bound)
    /\ kept' = map
    /\ pc' = "reload" /\ bound' = {}
    /\ Restart
    /\ UNCHANGED <<mode, busy>>

TriggerReload ==
    /\ pc = "running"
    /\ BeginReload(nodes, PortMap(nodes))
    /\ UNCHANGED nodes

InlineOf(s) ==
    FoldLeft(LAMBDA acc, n : IF n.name \in Inline THEN Append(acc, n) ELSE acc, <<>>, s)

FreshNodes(S) == {[name |-> n, port |-> 0] : n \in S}

\* Fresh nodes have no port; the map is of the nodes they replace.
RefreshSubscriptions ==
    /\ pc = "running"
    /\ \E S \in SUBSET (Names \ Inline) \ {{}} :
         nodes' = InlineOf(nodes) \o SetToSeq(FreshNodes(S))
    /\ BeginReload(nodes', PortMap(nodes))

-----------------------------------------------------------------------------
(* The node endpoints: prepareNodeLocked, multi-port mode only             *)

\* It does not ask whether the port is available.
NextAvailable == FirstFree(BasePort, {0} \cup PortsOf(nodes))

MayHave(p, others) == mode = "multi-port" => p \notin PortsOf(others) \ {0}

Prepared(n, p) ==
    [name |-> n, port |-> IF mode = "multi-port" /\ p = 0 THEN NextAvailable ELSE p]

EditNodes(s) ==
    /\ nodes' = s
    /\ UNCHANGED <<mode, pc, next, kept, bound, busy, attempt, held, seized>>

CreateNode(n, p) ==
    /\ pc = "running" /\ n \notin NamesOf(nodes)
    /\ MayHave(p, nodes)
    /\ EditNodes(Append(nodes, Prepared(n, p)))

UpdateNode(i, p) ==
    /\ pc = "running" /\ MayHave(p, RemoveAt(nodes, i))
    /\ EditNodes([nodes EXCEPT ![i] = Prepared(@.name, p)])

DeleteNode(i) ==
    /\ pc = "running"
    /\ EditNodes(RemoveAt(nodes, i))

Next ==
    \/ TakePort \/ FreePort
    \/ Load \/ Started \/ Reassign \/ StartFails
    \/ TriggerReload \/ RefreshSubscriptions
    \/ \E n \in Names, p \in Given : CreateNode(n, p)
    \/ \E i \in DOMAIN nodes, p \in Given : UpdateNode(i, p)
    \/ \E i \in DOMAIN nodes : DeleteNode(i)

Spec == Init /\ [][Next]_vars

-----------------------------------------------------------------------------
(* Properties                                                              *)

\* Ports stay within uint16, whatever is counted up.
TypeOK ==
    /\ mode \in Modes
    /\ pc \in {"load", "boot", "running", "reload", "stopped"}
    /\ nodes \in Seq(Node) /\ next \in Seq(Node)
    /\ DOMAIN kept \subseteq Range(Uri) /\ Range(kept) \subseteq Ports \ {0}
    /\ bound \subseteq Ports \ {0} /\ busy \subseteq Ports \ {0}
    /\ held \subseteq Ports \ {0}
    /\ attempt \in Nat /\ seized \in 0..MaxSeized

\* In hybrid mode no node has the pool's port from normalize to the end of
\* the first start, through every reassignment: otherwise the node would
\* take the conflicts of the pool's listener for its own.
PoolPortIsKept ==
    mode = "hybrid" /\ pc = "boot" => PoolPort \notin PortsOf(next)

\* A reassignment never creates a conflict: a start needs one attempt for
\* each node, and one more for each port another program takes meanwhile.
\* With fewer nodes than attempts the loop of Start and Reload cannot run out
\* of them unless others keep taking the ports it has chosen.
StartConverges == Starting => attempt <= Len(next) + seized

\* "preserving port assignments for nodes that exist in the provided port
\* map" (config.go:337): through normalization and all reassignments, a node
\* whose URI has a port in the map loses it only to another program, to the
\* pool, or to a node that was given the same port by hand.
PortsArePreserved ==
    pc = "reload" /\ OwnPorts =>
        \A i \in DOMAIN next :
            LET u == Uri[next[i].name] IN
            u \in DOMAIN kept =>
                \/ next[i].port = kept[u]
                \/ kept[u] \in held \cup PoolPorts
                \/ \E v \in DOMAIN kept \ {u} : kept[v] = kept[u]
                \/ \E j \in DOMAIN next \ {i} : Uri[next[j].name] = u
=============================================================================
