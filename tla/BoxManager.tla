------------------------------ MODULE BoxManager ------------------------------
(***************************************************************************)
(* The box manager of easy_proxies (internal/boxmgr), the goroutines that  *)
(* call it and the files it saves to.  It owns the sing-box instance that  *)
(* serves the proxy ports, the configuration m.cfg, and the monitor's HTTP *)
(* server.  The main goroutine starts and closes it; HTTP handlers edit    *)
(* m.cfg in place, save it and reload the instance; the subscription       *)
(* manager's loop reloads it with freshly fetched nodes.  m.mu protects    *)
(* the fields, but a reload runs without it: currentBox = nil, set under   *)
(* the lock, is what keeps two reloads apart.                              *)
(*                                                                         *)
(* A configuration is its set of nodes.  A step is one critical section    *)
(* under m.mu, or one call between two of them.                            *)
(***************************************************************************)
EXTENDS Naturals, FiniteSets

CONSTANTS
    Nodes,        \* node names
    Initial,      \* the nodes of the configuration file at start
    Inline,       \* nodes of source inline; the others live in the nodes file
    HasFile,      \* whether a nodes file or a subscription is configured
    Main,         \* the goroutine of app.Run
    Handlers,     \* goroutines of the monitor's HTTP server
    Refreshers,   \* the loop of the subscription manager, if there is one
    Ops,          \* the endpoints that are called: a subset of Endpoints
    MaxRetries,   \* attempts to start an instance (10 in the code)
    MaxConflicts, \* bound: port conflicts met by one Start or Reload
    SavesFail,    \* whether writing a file may fail
    MayStop,      \* whether a shutdown signal arrives
    None

\* What a handler can be asked: the labels of its first step.
Endpoints == {"createNode", "deleteNode", "deleteAndReload", "deleteFailed",
              "updateNode", "trigger", "refresh", "read"}

ASSUME BoxAssumption ==
    /\ Initial \subseteq Nodes /\ Initial # {}
    /\ Inline \subseteq Nodes
    /\ HasFile \in BOOLEAN /\ SavesFail \in BOOLEAN /\ MayStop \in BOOLEAN
    /\ HasFile \/ Nodes = Inline
    /\ Main \notin Handlers \cup Refreshers
    /\ Handlers \cap Refreshers = {}
    /\ \A r, s \in Refreshers : r = s
    /\ Ops \subseteq Endpoints
    /\ MaxRetries \in Nat \ {0} /\ MaxConflicts \in Nat
    /\ None \notin Handlers \cup Refreshers \cup {Main}

VARIABLES
    \* Manager
    mu,         \* the goroutine that keeps m.mu over several steps, or None
    currentBox, \* the published instance, or None
    cfg,        \* the nodes of m.cfg
    monitorMgr, \* whether m.monitorMgr is set
    server,     \* the monitor server: "off", "up", "shutdown", "gone"
    \* files
    diskInline, \* the nodes array of config.yaml
    diskFile,   \* nodes.txt
    spoiled,    \* history: the files that a failed save wrote, in whole or in part,
                \* since they were last saved: "nodes", "config"
    \* goroutines
    pc,
    newCfg,     \* nodes of the configuration a reload is given
    oldIsCfg,   \* whether m.cfg is still the object oldCfg points to
    oldBox,     \* the instance a reload took over
    instance,   \* the instance being created, or None
    retry,      \* attempts so far
    baseCfg     \* the subscription manager's configuration, None while it is
                \* the object m.cfg points to

manager == <<currentBox, cfg, monitorMgr, server>>
disk    == <<diskInline, diskFile, spoiled>>
locals  == <<newCfg, oldIsCfg, oldBox, instance, retry>>
vars    == <<mu, manager, disk, pc, locals, baseCfg>>

Goroutines == {Main} \cup Handlers \cup Refreshers
Box(st, nodes) == [st |-> st, nodes |-> nodes]
Boxes == [st : {"created", "running", "closed"}, nodes : SUBSET Nodes]

ASSUME NilAssumption == None \notin Boxes

\* Labels between taking currentBox and publishing its successor.
ReloadSection ==
    {"closeOld", "createBox", "startBox", "publish",
     "rollback", "rollbackStart", "rollbackPublish"}

Init ==
    /\ mu = None
    /\ currentBox = None
    /\ cfg = Initial
    /\ monitorMgr = FALSE
    /\ server = "off"
    /\ diskInline = Initial \cap Inline
    /\ diskFile = Initial \ Inline
    /\ spoiled = {}
    /\ pc = [g \in Goroutines |-> IF g = Main THEN "init" ELSE "idle"]
    /\ newCfg = [g \in Goroutines |-> {}]
    /\ oldIsCfg = [g \in Goroutines |-> FALSE]
    /\ oldBox = [g \in Goroutines |-> None]
    /\ instance = [g \in Goroutines |-> None]
    /\ retry = [g \in Goroutines |-> 0]
    /\ baseCfg = None

-----------------------------------------------------------------------------
(* Helpers *)

Goto(g, label) == pc' = [pc EXCEPT ![g] = label]

\* The call returns: its locals go away.
Return(g, label) ==
    /\ Goto(g, label)
    /\ newCfg' = [newCfg EXCEPT ![g] = {}]
    /\ oldIsCfg' = [oldIsCfg EXCEPT ![g] = FALSE]
    /\ oldBox' = [oldBox EXCEPT ![g] = None]
    /\ instance' = [instance EXCEPT ![g] = None]
    /\ retry' = [retry EXCEPT ![g] = 0]

\* Start fails and app.Run returns: the process ends, with all its goroutines.
Exit ==
    /\ pc' = [g \in Goroutines |-> "exited"]
    /\ newCfg' = [g \in Goroutines |-> {}]
    /\ oldIsCfg' = [g \in Goroutines |-> FALSE]
    /\ oldBox' = [g \in Goroutines |-> None]
    /\ instance' = [g \in Goroutines |-> None]
    /\ retry' = [g \in Goroutines |-> 0]

\* SaveNodes of the nodes S: first the nodes file, if there is one, then
\* config.yaml, which is left alone when no node is inline.
WritesFile(S) == HasFile \/ S \ Inline # {}
WritesInline(S) == S \cap Inline # {}
Written(S) == (IF WritesFile(S) THEN {"nodes"} ELSE {})
                \cup (IF WritesInline(S) THEN {"config"} ELSE {})

\* Mutant: inline nodes go to the nodes file as well.
MutantSaveSucceeds(S) == diskFile' = S /\ UNCHANGED <<diskInline, spoiled>>

SaveSucceeds(S) ==
    /\ diskFile' = IF WritesFile(S) THEN S \ Inline ELSE diskFile
    /\ diskInline' = IF WritesInline(S) THEN S \cap Inline ELSE diskInline
    /\ spoiled' = spoiled \ Written(S)

\* Nothing is written; or the nodes file is left with some of its nodes, since
\* os.WriteFile truncates it first; or it is written, and config.yaml cannot be
\* read or opened, or is left with some of its nodes.
SaveFails(S) ==
    /\ SavesFail
    /\ \/ UNCHANGED disk
       \/ /\ WritesFile(S)
          /\ diskFile' \in SUBSET (S \ Inline)
          /\ spoiled' = spoiled \cup {"nodes"}
          /\ UNCHANGED diskInline
       \/ /\ WritesInline(S)
          /\ diskFile' = IF WritesFile(S) THEN S \ Inline ELSE diskFile
          /\ \/ UNCHANGED diskInline /\ spoiled' = spoiled \cup (Written(S) \ {"config"})
             \/ diskInline' \in SUBSET (S \cap Inline) /\ spoiled' = spoiled \cup Written(S)

\* Mutant: a failed save leaves the edit in memory.
MutantEdit(S) == cfg' = S /\ (SaveSucceeds(S) \/ SaveFails(S))

\* An edit of m.cfg that is undone in memory when it cannot be saved.
Edit(S) ==
    \/ SaveSucceeds(S) /\ cfg' = S
    \/ SaveFails(S) /\ UNCHANGED cfg

-----------------------------------------------------------------------------
(* Creating, starting and publishing an instance: Start and Reload *)

\* Start reads m.cfg through its pointer, and sees edits made meanwhile; Reload
\* is given a configuration nobody else has yet.
Loading(g) == IF g = Main THEN cfg ELSE newCfg[g]

\* createBox: builder.Build finds no valid node, or the monitor is gone, or
\* sing-box rejects the options; Start gives up, Reload rolls back.
CreateBox(g) ==
    /\ pc[g] = "createBox"
    /\ \/ /\ monitorMgr /\ Loading(g) # {}
          /\ instance' = [instance EXCEPT ![g] = Box("created", Loading(g))]
          /\ Goto(g, "startBox")
          /\ UNCHANGED <<newCfg, oldIsCfg, oldBox, retry>>
       \/ g = Main /\ Exit
       \/ /\ g # Main
          /\ Goto(g, "rollback")
          /\ UNCHANGED locals
    /\ UNCHANGED <<mu, manager, disk, baseCfg>>

\* instance.Start binds the ports.
StartBox(g) ==
    /\ pc[g] = "startBox"
    /\ instance' = [instance EXCEPT ![g].st = "running"]
    /\ Goto(g, "publish")
    /\ UNCHANGED <<mu, manager, disk, newCfg, oldIsCfg, oldBox, retry, baseCfg>>

\* A port is taken: the instance is closed, the node gets another port, and the
\* loop goes on; when it is used up, execution falls out of it.
PortConflict(g) ==
    /\ pc[g] = "startBox"
    /\ retry[g] < MaxConflicts
    /\ instance' = [instance EXCEPT ![g].st = "closed"]
    /\ retry' = [retry EXCEPT ![g] = @ + 1]
    /\ Goto(g, IF retry[g] + 1 < MaxRetries THEN "createBox" ELSE "publish")
    /\ UNCHANGED <<mu, manager, disk, newCfg, oldIsCfg, oldBox, baseCfg>>

\* Mutant: the error of Start is dropped.
MutantStartFails(g) ==
    /\ pc[g] = "startBox"
    /\ instance' = [instance EXCEPT ![g].st = "closed"]
    /\ Goto(g, "publish")
    /\ UNCHANGED <<mu, manager, disk, newCfg, oldIsCfg, oldBox, retry, baseCfg>>

\* Start fails for another reason, or no other port is found.
StartFails(g) ==
    /\ pc[g] = "startBox"
    /\ \/ g = Main /\ Exit
       \/ /\ g # Main
          /\ instance' = [instance EXCEPT ![g].st = "closed"]
          /\ Goto(g, "rollback")
          /\ UNCHANGED <<newCfg, oldIsCfg, oldBox, retry>>
    /\ UNCHANGED <<mu, manager, disk, baseCfg>>

\* m.currentBox = instance; Reload also replaces m.cfg, so that every other
\* goroutine's idea of the current configuration object is out of date.
Publish(g) ==
    /\ pc[g] = "publish"
    /\ mu = None
    /\ currentBox' = instance[g]
    /\ IF g = Main
       THEN /\ Return(Main, "serving")
            /\ UNCHANGED <<cfg, baseCfg>>
       ELSE /\ cfg' = newCfg[g]
            /\ baseCfg' = IF baseCfg = None THEN cfg ELSE baseCfg
            /\ Goto(g, "idle")
            /\ newCfg' = [newCfg EXCEPT ![g] = {}]
            /\ oldIsCfg' = [h \in Goroutines |-> FALSE]
            /\ oldBox' = [oldBox EXCEPT ![g] = None]
            /\ instance' = [instance EXCEPT ![g] = None]
            /\ retry' = [retry EXCEPT ![g] = 0]
    /\ UNCHANGED <<mu, monitorMgr, server, disk>>

-----------------------------------------------------------------------------
(* The main goroutine *)

\* ensureMonitor: the HTTP server is up before the first instance is.
EnsureMonitor ==
    /\ pc[Main] = "init"
    /\ monitorMgr' = TRUE
    /\ server' = "up"
    /\ Goto(Main, "begin")
    /\ UNCHANGED <<mu, currentBox, cfg, disk, locals, baseCfg>>

\* Start checks under the lock that nothing runs yet.
StartBegin ==
    /\ pc[Main] = "begin"
    /\ mu = None
    /\ currentBox = None
    /\ Goto(Main, "createBox")
    /\ UNCHANGED <<mu, manager, disk, locals, baseCfg>>

\* The signal: subMgr.Stop ends the loop but does not wait for it.
Signal ==
    /\ MayStop
    /\ pc[Main] = "serving"
    /\ Goto(Main, "stopping")
    /\ UNCHANGED <<mu, manager, disk, locals, baseCfg>>

\* Close, up to the call of server.Shutdown, which it makes holding m.mu.
CloseBegin ==
    /\ pc[Main] = "stopping"
    /\ mu = None
    /\ mu' = Main
    /\ currentBox' = None
    /\ server' = "shutdown"
    /\ Goto(Main, "shutdown")
    /\ UNCHANGED <<cfg, monitorMgr, disk, locals, baseCfg>>

\* Shutdown returns when the last handler has.
CloseEnd ==
    /\ pc[Main] = "shutdown"
    /\ \A h \in Handlers : pc[h] = "idle"
    /\ server' = "gone"
    /\ monitorMgr' = FALSE
    /\ mu' = None
    /\ Goto(Main, "closed")
    /\ UNCHANGED <<currentBox, cfg, disk, locals, baseCfg>>

-----------------------------------------------------------------------------
(* Reload *)

\* Mutant: the early return keeps the lock.
MutantReloadRefused(g) ==
    /\ pc[g] = "reload"
    /\ mu = None
    /\ currentBox = None
    /\ mu' = g
    /\ Return(g, "idle")
    /\ UNCHANGED <<manager, disk, baseCfg>>

\* Reload refuses when nothing runs, and so while another reload does.
ReloadRefused(g) ==
    /\ pc[g] = "reload"
    /\ mu = None
    /\ currentBox = None
    /\ Return(g, "idle")
    /\ UNCHANGED <<mu, manager, disk, baseCfg>>

\* Mutant: currentBox is not cleared while the reload runs.
MutantReloadBegin(g) ==
    /\ pc[g] = "reload"
    /\ mu = None
    /\ currentBox # None
    /\ oldBox' = [oldBox EXCEPT ![g] = currentBox]
    /\ oldIsCfg' = [oldIsCfg EXCEPT ![g] = TRUE]
    /\ Goto(g, "closeOld")
    /\ UNCHANGED <<mu, manager, disk, newCfg, instance, retry, baseCfg>>

ReloadBegin(g) ==
    /\ pc[g] = "reload"
    /\ mu = None
    /\ currentBox # None
    /\ oldBox' = [oldBox EXCEPT ![g] = currentBox]
    /\ oldIsCfg' = [oldIsCfg EXCEPT ![g] = TRUE]
    /\ currentBox' = None
    /\ Goto(g, "closeOld")
    /\ UNCHANGED <<mu, cfg, monitorMgr, server, disk, newCfg, instance, retry, baseCfg>>

CloseOld(g) ==
    /\ pc[g] = "closeOld"
    /\ oldBox' = [oldBox EXCEPT ![g].st = "closed"]
    /\ Goto(g, "createBox")
    /\ UNCHANGED <<mu, manager, disk, newCfg, oldIsCfg, instance, retry, baseCfg>>

\* rollbackToOldConfig: oldCfg is the object m.cfg points to (oldIsCfg), so that
\* what is built is m.cfg as it is now.
RollbackCreate(g) ==
    /\ pc[g] = "rollback"
    /\ \/ /\ monitorMgr /\ cfg # {}
          /\ instance' = [instance EXCEPT ![g] = Box("created", cfg)]
          /\ Goto(g, "rollbackStart")
          /\ UNCHANGED <<newCfg, oldIsCfg, oldBox, retry>>
       \/ Return(g, "idle")
    /\ UNCHANGED <<mu, manager, disk, baseCfg>>

\* Mutant: a rollback that does not start is published.
MutantRollbackStart(g) ==
    /\ pc[g] = "rollbackStart"
    /\ \E st \in {"running", "closed"} : instance' = [instance EXCEPT ![g].st = st]
    /\ Goto(g, "rollbackPublish")
    /\ UNCHANGED <<mu, manager, disk, newCfg, oldIsCfg, oldBox, retry, baseCfg>>

RollbackStart(g) ==
    /\ pc[g] = "rollbackStart"
    /\ \/ /\ instance' = [instance EXCEPT ![g].st = "running"]
          /\ Goto(g, "rollbackPublish")
          /\ UNCHANGED <<newCfg, oldIsCfg, oldBox, retry>>
       \/ Return(g, "idle")
    /\ UNCHANGED <<mu, manager, disk, baseCfg>>

\* m.currentBox = instance, m.cfg = oldCfg: no other reload has replaced m.cfg
\* meanwhile (RollbackTargetIsCurrent), so that it already is oldCfg.
RollbackPublish(g) ==
    /\ pc[g] = "rollbackPublish"
    /\ mu = None
    /\ currentBox' = instance[g]
    /\ Return(g, "idle")
    /\ UNCHANGED <<mu, cfg, monitorMgr, server, disk, baseCfg>>

-----------------------------------------------------------------------------
(* HTTP handlers *)

\* A request arrives; until the response is sent, Shutdown waits for it.
Accept(h) ==
    /\ pc[h] = "idle"
    /\ server = "up"
    /\ \E op \in Ops : Goto(h, op)
    /\ UNCHANGED <<mu, manager, disk, locals, baseCfg>>

\* ConfigSnapshot, ListConfigNodes, CurrentPortMap and the other readers.
Read(h) ==
    /\ pc[h] = "read"
    /\ mu = None
    /\ Goto(h, "idle")
    /\ UNCHANGED <<mu, manager, disk, locals, baseCfg>>

\* New nodes go to the nodes file if there is one, to config.yaml otherwise.
NewNodes == (IF HasFile THEN Nodes \ Inline ELSE Nodes) \ cfg

CreateNode(h) ==
    /\ pc[h] = "createNode"
    /\ mu = None
    /\ \/ \E n \in NewNodes : Edit(cfg \cup {n})
       \/ UNCHANGED <<cfg, disk>>                    \* invalid, or a duplicate
    /\ Goto(h, "idle")
    /\ UNCHANGED <<mu, currentBox, monitorMgr, server, locals, baseCfg>>

\* An edit that is saved may be followed by a reload, in the same request.
DeleteNode(h) ==
    /\ pc[h] \in {"deleteNode", "deleteAndReload"}
    /\ mu = None
    /\ \/ \E n \in cfg :
             \/ /\ SaveSucceeds(cfg \ {n}) /\ cfg' = cfg \ {n}
                /\ Goto(h, IF pc[h] = "deleteNode" THEN "idle" ELSE "trigger")
             \/ SaveFails(cfg \ {n}) /\ UNCHANGED cfg /\ Goto(h, "idle")
       \/ UNCHANGED <<cfg, disk>> /\ Goto(h, "idle")   \* no such node
    /\ UNCHANGED <<mu, currentBox, monitorMgr, server, locals, baseCfg>>

\* handleDeleteFailedNodes: the names of the nodes a check has found unavailable
\* are read from the monitor; newCfg keeps them until a copy is to be loaded.
ListFailed(h) ==
    /\ pc[h] = "deleteFailed"
    /\ \/ \E failed \in (SUBSET Nodes) \ {{}} :
             newCfg' = [newCfg EXCEPT ![h] = failed] /\ Goto(h, "deleting")
       \/ Goto(h, "idle") /\ UNCHANGED newCfg
    /\ UNCHANGED <<mu, manager, disk, oldIsCfg, oldBox, instance, retry, baseCfg>>

\* Mutant: a deletion that fails is tried again.
MutantDeleteFailedNode(h) ==
    /\ pc[h] \in {"deleting", "deletedSome"}
    /\ mu = None
    /\ \E n \in newCfg[h] :
          \/ /\ n \in cfg
             /\ SaveSucceeds(cfg \ {n}) /\ cfg' = cfg \ {n}
             /\ newCfg' = [newCfg EXCEPT ![h] = @ \ {n}]
             /\ Goto(h, "deletedSome")
          \/ /\ UNCHANGED <<cfg, pc, newCfg>>
             /\ IF n \in cfg THEN SaveFails(cfg \ {n}) ELSE UNCHANGED disk
    /\ UNCHANGED <<mu, currentBox, monitorMgr, server, oldIsCfg, oldBox, instance, retry, baseCfg>>

\* They are deleted one at a time, each with its own lock and save; one that
\* fails, or is gone, is passed over.
DeleteFailedNode(h) ==
    /\ pc[h] \in {"deleting", "deletedSome"}
    /\ mu = None
    /\ \E n \in newCfg[h] :
          /\ newCfg' = [newCfg EXCEPT ![h] = @ \ {n}]
          /\ \/ /\ n \in cfg
                /\ SaveSucceeds(cfg \ {n}) /\ cfg' = cfg \ {n}
                /\ Goto(h, "deletedSome")
             \/ /\ UNCHANGED <<cfg, pc>>
                /\ IF n \in cfg THEN SaveFails(cfg \ {n}) ELSE UNCHANGED disk
    /\ UNCHANGED <<mu, currentBox, monitorMgr, server, oldIsCfg, oldBox, instance, retry, baseCfg>>

\* If any was deleted the handler reloads, unless asked not to.
EndDeleteFailed(h) ==
    /\ pc[h] \in {"deleting", "deletedSome"}
    /\ newCfg[h] = {}
    /\ \/ Goto(h, "idle")
       \/ pc[h] = "deletedSome" /\ Goto(h, "trigger")
    /\ UNCHANGED <<mu, manager, disk, locals, baseCfg>>

\* A node keeps its source when it is updated (and renamed).
UpdateNode(h) ==
    /\ pc[h] = "updateNode"
    /\ mu = None
    /\ \/ \E n \in cfg, m \in Nodes \ cfg :
             /\ n \in Inline <=> m \in Inline
             /\ Edit((cfg \ {n}) \cup {m})
       \/ UNCHANGED <<cfg, disk>>
    /\ Goto(h, "idle")
    /\ UNCHANGED <<mu, currentBox, monitorMgr, server, locals, baseCfg>>

\* TriggerReload copies m.cfg under the read lock; ReloadWithPortMap may find
\* no port for a node and return.
TriggerReload(h) ==
    /\ pc[h] = "trigger"
    /\ mu = None
    /\ \/ /\ newCfg' = [newCfg EXCEPT ![h] = cfg]
          /\ Goto(h, "reload")
          /\ UNCHANGED <<oldIsCfg, oldBox, instance, retry>>
       \/ Return(h, "idle")
    /\ UNCHANGED <<mu, manager, disk, baseCfg>>

\* RefreshSubscriptions: read the URLs under the lock, fetch without it.
RefreshRead(h) ==
    /\ pc[h] = "refresh"
    /\ mu = None
    /\ Goto(h, "apply") \/ Goto(h, "idle")
    /\ UNCHANGED <<mu, manager, disk, locals, baseCfg>>

\* What was fetched replaces the nodes that are not inline, in m.cfg and in the
\* files, and a copy is loaded.
RefreshApply(h) ==
    /\ pc[h] = "apply"
    /\ mu = None
    /\ \E fetched \in (SUBSET (Nodes \ Inline)) \ {{}} :
          LET S == (cfg \cap Inline) \cup fetched IN
          \/ /\ SaveSucceeds(S)
             /\ cfg' = S
             /\ newCfg' = [newCfg EXCEPT ![h] = S]
             /\ Goto(h, "reload")
          \/ /\ SaveFails(S)
             /\ Goto(h, "idle")
             /\ UNCHANGED <<cfg, newCfg>>
    /\ UNCHANGED <<mu, currentBox, monitorMgr, server, oldIsCfg, oldBox, instance, retry, baseCfg>>

-----------------------------------------------------------------------------
(* The loop of the subscription manager *)

\* doRefresh fetches nodes and writes them to the nodes file, with no lock of
\* the box manager, unless the loop was stopped; when it cannot write them it
\* goes no further.
Fetch(r) ==
    /\ pc[r] = "idle"
    /\ pc[Main] = "serving"
    /\ \E fetched \in (SUBSET (Nodes \ Inline)) \ {{}} :
          \/ /\ diskFile' = fetched
             /\ spoiled' = spoiled \ {"nodes"}
             /\ newCfg' = [newCfg EXCEPT ![r] = fetched]
             /\ Goto(r, "portMap")
          \/ /\ SavesFail
             /\ diskFile' \in SUBSET fetched
             /\ spoiled' = spoiled \cup {"nodes"}
             /\ UNCHANGED <<newCfg, pc>>
    /\ UNCHANGED <<mu, manager, diskInline, oldIsCfg, oldBox, instance, retry, baseCfg>>

\* createNewConfig: the nodes fetched and the inline nodes of baseCfg, the
\* configuration the program was started with.
BaseNodes == IF baseCfg = None THEN cfg ELSE baseCfg

\* CurrentPortMap, and the new configuration.
PortMap(r) ==
    /\ pc[r] = "portMap"
    /\ mu = None
    /\ newCfg' = [newCfg EXCEPT ![r] = @ \cup (BaseNodes \cap Inline)]
    /\ Goto(r, "reload")
    /\ UNCHANGED <<mu, manager, disk, oldIsCfg, oldBox, instance, retry, baseCfg>>

-----------------------------------------------------------------------------
LoadStep(g) ==
    CreateBox(g) \/ StartBox(g) \/ PortConflict(g) \/ StartFails(g) \/ Publish(g)

ReloadStep(g) ==
    \/ ReloadRefused(g) \/ ReloadBegin(g) \/ CloseOld(g)
    \/ RollbackCreate(g) \/ RollbackStart(g) \/ RollbackPublish(g)

MainStep ==
    EnsureMonitor \/ StartBegin \/ LoadStep(Main) \/ CloseBegin \/ CloseEnd

HandlerStep(h) ==
    \/ Read(h) \/ CreateNode(h) \/ DeleteNode(h) \/ UpdateNode(h)
    \/ ListFailed(h) \/ DeleteFailedNode(h) \/ EndDeleteFailed(h)
    \/ TriggerReload(h) \/ RefreshRead(h) \/ RefreshApply(h)
    \/ ReloadStep(h) \/ LoadStep(h)

RefresherStep(r) == PortMap(r) \/ ReloadStep(r) \/ LoadStep(r)

\* The process is gone, or about to be.
Ended == pc[Main] \in {"exited", "closed"} /\ UNCHANGED vars

Next ==
    \/ MainStep
    \/ Signal
    \/ \E h \in Handlers : Accept(h) \/ HandlerStep(h)
    \/ \E r \in Refreshers : Fetch(r) \/ RefresherStep(r)
    \/ Ended

Spec == Init /\ [][Next]_vars

\* Goroutines run on, and m.mu is granted in turn; requests, refreshes and the
\* signal come or do not come.
FairSpec ==
    /\ Spec
    /\ SF_vars(MainStep)
    /\ \A h \in Handlers : SF_vars(HandlerStep(h))
    /\ \A r \in Refreshers : SF_vars(RefresherStep(r))

-----------------------------------------------------------------------------
(* Invariants *)

TypeOK ==
    /\ mu \in {None, Main}
    /\ currentBox \in Boxes \cup {None}
    /\ cfg \subseteq Nodes
    /\ monitorMgr \in BOOLEAN
    /\ server \in {"off", "up", "shutdown", "gone"}
    /\ diskInline \subseteq Nodes \cap Inline
    /\ diskFile \subseteq Nodes \ Inline
    /\ spoiled \subseteq {"nodes", "config"}
    /\ pc[Main] \in {"init", "begin", "createBox", "startBox", "publish", "serving",
                    "stopping", "shutdown", "closed", "exited"}
    /\ \A h \in Handlers : pc[h] \in Endpoints \cup ReloadSection
                              \cup {"idle", "deleting", "deletedSome", "apply", "reload", "exited"}
    /\ \A r \in Refreshers : pc[r] \in ReloadSection \cup {"idle", "portMap", "reload", "exited"}
    /\ newCfg \in [Goroutines -> SUBSET Nodes]
    /\ oldIsCfg \in [Goroutines -> BOOLEAN]
    /\ oldBox \in [Goroutines -> Boxes \cup {None}]
    /\ instance \in [Goroutines -> Boxes \cup {None}]
    /\ retry \in [Goroutines -> 0 .. MaxRetries]
    /\ baseCfg \in (SUBSET Nodes) \cup {None}

Runs(box) == box # None /\ box.st = "running"

\* The proxy ports have one owner: whoever starts, reloads, rolls back or is
\* refused, there is never a second instance running beside the first.
OneInstance ==
    LET live == (IF Runs(currentBox) THEN {<<"current", Main>>} ELSE {})
                \cup {<<"old", g>> : g \in {h \in Goroutines : Runs(oldBox[h])}}
                \cup {<<"new", g>> : g \in {h \in Goroutines : Runs(instance[h])}}
    IN Cardinality(live) <= 1

\* What the manager publishes as the current instance is running: no failure
\* between createBox and the publication is mistaken for a success.
CurrentIsLive == currentBox # None => Runs(currentBox)

\* While a reload rolls back, m.cfg is still the configuration it replaced: no
\* other reload has published one in between.
RollbackTargetIsCurrent ==
    \A g \in Goroutines :
        pc[g] \in {"rollback", "rollbackStart", "rollbackPublish"} => oldIsCfg[g]

AtRest == \A g \in Goroutines : pc[g] \in {"idle", "serving"}

\* With no request or refresh under way, a restart of the program would load the
\* nodes of m.cfg: each file holds those that belong there, unless the last save
\* that wrote to it failed, or config.yaml was left alone for want of inline nodes.
DiskMatchesMemory ==
    AtRest =>
        /\ "nodes" \in spoiled \/ diskFile = cfg \ Inline
        /\ "config" \in spoiled \/ cfg \cap Inline \in {{}, diskInline}

-----------------------------------------------------------------------------
(* Liveness *)

\* Every request is answered, whatever reloads, failures and edits it meets,
\* unless the process ends first.
RequestsReturn ==
    \A h \in Handlers : pc[h] \notin {"idle", "exited"} ~> pc[h] \in {"idle", "exited"}

\* Close terminates.
CloseReturns == pc[Main] = "shutdown" ~> pc[Main] = "closed"

-----------------------------------------------------------------------------
(* Refinement *)

\* The manager as its clients see it: which phase it is in and what it serves.
phase ==
    IF pc[Main] = "exited" THEN "exited"
    ELSE IF pc[Main] \in {"shutdown", "closed"} THEN "closed"
    ELSE IF currentBox # None THEN "serving"
    ELSE IF \E g \in Handlers \cup Refreshers : pc[g] \in ReloadSection THEN "switching"
    ELSE IF pc[Main] \in {"serving", "stopping"} THEN "down" ELSE "starting"

served == IF Runs(currentBox) THEN currentBox.nodes ELSE {}

Service == INSTANCE ProxyService
           WITH phase <- phase, served <- served, Nodes <- Nodes

\* Seen from outside, Start, Reload, the rollback and Close, with their locks
\* and failures, are the switches of ProxyService: one at a time, and what is
\* said to be served is served.
ServiceSpec == Service!Spec
===============================================================================
