--------------------------- MODULE BoxManagerProofs ---------------------------
(***************************************************************************)
(* Proofs about BoxManager, for every set of nodes, handlers and endpoints *)
(* and every number of attempts: type correctness, that there is never a   *)
(* second instance, that a rollback's target is current, and that the      *)
(* manager implements ProxyService.                                        *)
(***************************************************************************)
EXTENDS BoxManager, FiniteSetTheorems, TLAPS

Starting == {"init", "begin", "createBox", "startBox", "publish"}
MainLabels == Starting \cup {"serving", "stopping", "shutdown", "closed", "exited"}
HandlerLabels == Endpoints \cup ReloadSection
                   \cup {"idle", "deleting", "deletedSome", "apply", "reload", "exited"}
RefresherLabels == ReloadSection \cup {"idle", "portMap", "reload", "exited"}

LabelsOf(g) ==
    IF g = Main THEN MainLabels
    ELSE IF g \in Handlers THEN HandlerLabels ELSE RefresherLabels

TypeShared ==
    /\ mu \in {None, Main}
    /\ currentBox \in Boxes \cup {None}
    /\ cfg \in SUBSET Nodes
    /\ monitorMgr \in BOOLEAN
    /\ server \in {"off", "up", "shutdown", "gone"}
    /\ diskInline \in SUBSET (Nodes \cap Inline)
    /\ diskFile \in SUBSET (Nodes \ Inline)
    /\ spoiled \in SUBSET {"nodes", "config"}
    /\ baseCfg \in (SUBSET Nodes) \cup {None}

TypeControl ==
    /\ pc \in [Goroutines -> MainLabels \cup HandlerLabels \cup RefresherLabels]
    /\ \A g \in Goroutines : pc[g] \in LabelsOf(g)

TypeLocals ==
    /\ newCfg \in [Goroutines -> SUBSET Nodes]
    /\ oldIsCfg \in [Goroutines -> BOOLEAN]
    /\ oldBox \in [Goroutines -> Boxes \cup {None}]
    /\ instance \in [Goroutines -> Boxes \cup {None}]
    /\ retry \in [Goroutines -> 0 .. MaxRetries]

\* Where attempts to load a configuration are counted.
Attempting ==
    {"createBox", "startBox", "publish", "rollback", "rollbackStart", "rollbackPublish"}

\* What a goroutine has in its hands, by where it is.
Holds(g) ==
    /\ pc[g] = "closeOld" => oldBox[g] \in Boxes
    /\ pc[g] \in {"startBox", "publish", "rollbackStart", "rollbackPublish"} =>
           instance[g] \in Boxes
    /\ pc[g] \in {"createBox", "startBox"} => retry[g] < MaxRetries
    /\ pc[g] \notin Attempting => retry[g] = 0

TypeInv ==
    /\ TypeShared /\ TypeControl /\ TypeLocals
    /\ \A g \in Goroutines : Holds(g)

\* Between the taking of currentBox and the publication of its successor.
Switching(g) == pc[g] \in ReloadSection

\* One goroutine at a time switches, and nothing is published meanwhile; the
\* first start is over before any reload begins.
OneSwitch ==
    /\ \A g, h \in Goroutines : Switching(g) /\ Switching(h) => g = h
    /\ \A g \in Goroutines : Switching(g) => currentBox = None
    /\ pc[Main] \in Starting =>
           currentBox = None /\ \A g \in Goroutines \ {Main} : ~Switching(g)

\* Which of the instances a goroutine knows may be running, and whose
\* configuration m.cfg is.
Alive(g) ==
    /\ Runs(oldBox[g]) => pc[g] = "closeOld"
    /\ Runs(instance[g]) => pc[g] \in {"publish", "rollbackPublish"}
    /\ g # Main /\ Switching(g) => oldIsCfg[g]

SwitchInv == OneSwitch /\ \A g \in Goroutines : Alive(g)

\* What is about to be published runs, when the attempts are not used up.
Started(g) ==
    /\ pc[g] \in {"startBox", "publish", "rollbackStart", "rollbackPublish"} =>
           instance[g].nodes # {}
    /\ pc[g] \in {"publish", "rollbackPublish"} => instance[g].st = "running"

LiveInv ==
    /\ currentBox # None => currentBox.st = "running" /\ currentBox.nodes # {}
    /\ \A g \in Goroutines : Started(g)

\* The end: a process that has exited has no goroutine left, Close keeps m.mu
\* until its handlers are gone, and after it only the loop can publish, once.
EndInv ==
    /\ pc[Main] = "exited" => \A g \in Goroutines : pc[g] = "exited"
    /\ mu = Main <=> pc[Main] = "shutdown"
    /\ pc[Main] = "shutdown" => currentBox = None
    /\ pc[Main] \in {"shutdown", "closed"} => server # "up"
    /\ pc[Main] = "closed" =>
           /\ \A h \in Handlers : pc[h] = "idle"
           /\ currentBox # None => \A r \in Refreshers : pc[r] = "idle"

USE BoxAssumption, NilAssumption

-----------------------------------------------------------------------------
(* Type correctness *)

\* A call that returns leaves its goroutine with nothing.
LEMMA ReturnKeepsTypes ==
    ASSUME TypeInv, NEW g \in Goroutines, NEW label \in LabelsOf(g) \cap {"idle", "serving"},
           Return(g, label), TypeShared'
    PROVE  TypeInv'
<1>1. TypeLocals' /\ TypeControl'
  BY DEF TypeInv, TypeControl, TypeLocals, LabelsOf, Return, Goto, MainLabels, HandlerLabels,
         RefresherLabels
<1>2. ASSUME NEW h \in Goroutines PROVE Holds(h)'
  BY DEF TypeInv, TypeControl, TypeLocals, Holds, Return, Goto, Attempting
<1> QED
  BY <1>1, <1>2 DEF TypeInv

\* So does the end of the process.
LEMMA ExitKeepsTypes ==
    ASSUME TypeInv, Exit, TypeShared'
    PROVE  TypeInv'
<1>1. TypeLocals' /\ TypeControl'
  BY DEF TypeControl, TypeLocals, LabelsOf, Exit, MainLabels, HandlerLabels, RefresherLabels
<1>2. ASSUME NEW h \in Goroutines PROVE Holds(h)'
  BY DEF Holds, Exit, Attempting
<1> QED
  BY <1>1, <1>2 DEF TypeInv

\* The types of the files.
DiskTypes ==
    /\ diskInline \in SUBSET (Nodes \cap Inline) /\ diskFile \in SUBSET (Nodes \ Inline)
    /\ spoiled \in SUBSET {"nodes", "config"}

\* A save, whatever becomes of it, leaves nodes in the files.
LEMMA SaveTypes ==
    ASSUME TypeShared, NEW S \in SUBSET Nodes, SaveSucceeds(S) \/ SaveFails(S)
    PROVE  DiskTypes'
<1>1. DiskTypes /\ Written(S) \in SUBSET {"nodes", "config"}
  BY DEF TypeShared, DiskTypes, Written
<1>2. S \cap Inline \in SUBSET (Nodes \cap Inline) /\ S \ Inline \in SUBSET (Nodes \ Inline)
  OBVIOUS
<1>3. CASE SaveSucceeds(S)
  BY <1>1, <1>2, <1>3 DEF SaveSucceeds, DiskTypes
<1>4. CASE SaveFails(S)
  BY <1>1, <1>2, <1>4 DEF SaveFails, DiskTypes, disk
<1> QED
  BY <1>3, <1>4

\* A step of a handler or of the loop that is none of a switch: it touches no
\* instance, only nodes, files and its own place.
AsideLabels == Endpoints \cup {"idle", "deleting", "deletedSome", "apply", "reload", "portMap"}

AsideStep(g) ==
    \/ /\ g \in Handlers
       /\ \/ Accept(g) \/ Read(g) \/ CreateNode(g) \/ DeleteNode(g) \/ UpdateNode(g)
          \/ ListFailed(g) \/ DeleteFailedNode(g) \/ EndDeleteFailed(g)
          \/ TriggerReload(g) \/ RefreshRead(g) \/ RefreshApply(g)
    \/ g \in Refreshers /\ (Fetch(g) \/ PortMap(g))
    \/ g \in Handlers \cup Refreshers /\ ReloadRefused(g)

\* Where it goes, and that nobody begins a call after the shutdown has begun.
AsidePc(g) ==
    \E label \in AsideLabels \cap LabelsOf(g) :
        /\ pc[g] \in AsideLabels /\ pc' = [pc EXCEPT ![g] = label]
        /\ pc[g] = "idle" => IF g \in Handlers THEN server = "up" ELSE pc[Main] = "serving"

\* What it leaves alone.
AsideFrame(g) ==
    /\ UNCHANGED <<mu, currentBox, monitorMgr, server, baseCfg>>
    /\ \/ UNCHANGED <<oldIsCfg, oldBox, instance, retry>>
       \/ /\ oldIsCfg' = [oldIsCfg EXCEPT ![g] = FALSE]
          /\ oldBox' = [oldBox EXCEPT ![g] = None]
          /\ instance' = [instance EXCEPT ![g] = None]
          /\ retry' = [retry EXCEPT ![g] = 0]

\* What it may change.
AsideData ==
    /\ cfg' \in SUBSET Nodes
    /\ DiskTypes'
    /\ newCfg' \in [Goroutines -> SUBSET Nodes]

\* The steps of that kind are indeed so.
LEMMA AsideIsAside ==
    ASSUME TypeInv, NEW g \in Goroutines, AsideStep(g)
    PROVE  AsidePc(g) /\ AsideFrame(g) /\ AsideData /\ g # Main
<1> USE DEF manager, disk, locals
<1>1. g # Main
  BY DEF AsideStep
<1>2. AsidePc(g)
  <2> USE DEF AsidePc, AsideLabels, LabelsOf, HandlerLabels, RefresherLabels, Endpoints, Goto
  <2>1. CASE g \in Handlers /\ DeleteNode(g)
    BY <1>1, <2>1 DEF DeleteNode
  <2>2. CASE g \in Handlers /\ DeleteFailedNode(g)
    <3>1. pc' = [pc EXCEPT ![g] = "deletedSome"] \/ pc' = [pc EXCEPT ![g] = pc[g]]
      BY <2>2 DEF DeleteFailedNode, TypeInv, TypeControl
    <3> QED
      BY <1>1, <2>2, <3>1 DEF DeleteFailedNode
  <2>3. CASE /\ g \in Handlers
             /\ \/ Accept(g) \/ Read(g) \/ CreateNode(g) \/ UpdateNode(g) \/ ListFailed(g)
                \/ EndDeleteFailed(g) \/ TriggerReload(g) \/ RefreshRead(g) \/ RefreshApply(g)
    BY <1>1, <2>3 DEF Accept, Read, CreateNode, UpdateNode, ListFailed, EndDeleteFailed,
                      TriggerReload, RefreshRead, RefreshApply, Return
  <2>4. CASE g \in Refreshers /\ (Fetch(g) \/ PortMap(g))
    <3>1. ASSUME NEW label, label \in {"idle", "portMap", "reload"},
                 pc' = [pc EXCEPT ![g] = label], pc[g] \in AsideLabels,
                 pc[g] = "idle" => pc[Main] = "serving"
          PROVE  AsidePc(g)
      BY <1>1, <2>4, <3>1
    <3>2. CASE UNCHANGED pc /\ pc[g] = "idle"
      <4>1. pc' = [pc EXCEPT ![g] = "idle"]
        BY <3>2 DEF TypeInv, TypeControl
      <4> QED
        BY <2>4, <3>1, <3>2, <4>1 DEF Fetch, PortMap
    <3> QED
      BY <2>4, <3>1, <3>2 DEF Fetch, PortMap
  <2>5. CASE g \in Handlers \cup Refreshers /\ ReloadRefused(g)
    BY <1>1, <2>5 DEF ReloadRefused, Return
  <2> QED
    BY <2>1, <2>2, <2>3, <2>4, <2>5 DEF AsideStep
<1>3. AsideFrame(g)
  BY DEF AsideStep, Accept, Read, CreateNode, DeleteNode, UpdateNode, ListFailed,
         DeleteFailedNode,
         EndDeleteFailed, TriggerReload, RefreshRead, RefreshApply, Fetch, PortMap, ReloadRefused,
         Return, AsideFrame
<1>4. AsideData
  <2>1. TypeShared /\ cfg \in SUBSET Nodes /\ newCfg \in [Goroutines -> SUBSET Nodes]
    BY DEF TypeInv, TypeShared, TypeLocals
  <2>2. DiskTypes /\ (UNCHANGED disk => DiskTypes')
    BY DEF TypeInv, TypeShared, DiskTypes
  <2>3. CASE Accept(g) \/ Read(g) \/ EndDeleteFailed(g) \/ RefreshRead(g)
    BY <2>1, <2>2, <2>3 DEF Accept, Read, EndDeleteFailed, RefreshRead, AsideData
  <2>4. CASE ListFailed(g) \/ TriggerReload(g) \/ ReloadRefused(g)
    BY <2>1, <2>2, <2>4 DEF ListFailed, TriggerReload, ReloadRefused, Return, AsideData
  <2>5. CASE CreateNode(g)
    <3>1. UNCHANGED newCfg
      BY <2>5 DEF CreateNode
    <3>2. CASE UNCHANGED <<cfg, disk>>
      BY <2>1, <2>2, <3>1, <3>2 DEF AsideData
    <3>3. CASE \E S \in SUBSET Nodes : Edit(S)
      <4>1. PICK S \in SUBSET Nodes : Edit(S)
        BY <3>3
      <4>2. SaveSucceeds(S) \/ SaveFails(S)
        BY <4>1 DEF Edit
      <4>3. cfg' \in SUBSET Nodes
        BY <2>1, <4>1 DEF Edit
      <4> QED
        BY <2>1, <3>1, <4>2, <4>3, SaveTypes DEF AsideData
    <3>4. UNCHANGED <<cfg, disk>> \/ \E n \in Nodes : Edit(cfg \cup {n})
      BY <2>5 DEF CreateNode, NewNodes
    <3>5. ASSUME NEW n \in Nodes, Edit(cfg \cup {n}) PROVE \E S \in SUBSET Nodes : Edit(S)
      <4>1. cfg \cup {n} \in SUBSET Nodes
        BY <2>1
      <4> QED
        BY <3>5, <4>1
    <3> QED
      BY <3>2, <3>3, <3>4, <3>5
  <2>6. CASE UpdateNode(g)
    <3>1. UNCHANGED newCfg
      BY <2>6 DEF UpdateNode
    <3>2. CASE UNCHANGED <<cfg, disk>>
      BY <2>1, <2>2, <3>1, <3>2 DEF AsideData
    <3>3. ASSUME NEW S \in SUBSET Nodes, Edit(S) PROVE AsideData
      <4>1. SaveSucceeds(S) \/ SaveFails(S)
        BY <3>3 DEF Edit
      <4>2. cfg' \in SUBSET Nodes
        BY <2>1, <3>3 DEF Edit
      <4> QED
        BY <2>1, <3>1, <4>1, <4>2, SaveTypes DEF AsideData
    <3>4. UNCHANGED <<cfg, disk>> \/ \E n \in cfg, m \in Nodes : Edit((cfg \ {n}) \cup {m})
      BY <2>6 DEF UpdateNode
    <3>5. ASSUME NEW n \in cfg, NEW m \in Nodes, Edit((cfg \ {n}) \cup {m}) PROVE AsideData
      <4>1. (cfg \ {n}) \cup {m} \in SUBSET Nodes
        BY <2>1
      <4> QED
        BY <3>3, <3>5, <4>1
    <3> QED
      BY <3>2, <3>4, <3>5
  <2>7. CASE DeleteNode(g) \/ DeleteFailedNode(g)
    <3>1. newCfg' \in [Goroutines -> SUBSET Nodes]
      <4>1. CASE DeleteNode(g)
        BY <2>1, <4>1 DEF DeleteNode
      <4>2. CASE DeleteFailedNode(g)
        <5>1. \E n : newCfg' = [newCfg EXCEPT ![g] = newCfg[g] \ {n}]
          BY <4>2 DEF DeleteFailedNode
        <5> QED
          BY <2>1, <5>1
      <4> QED
        BY <2>7, <4>1, <4>2
    <3>2. CASE UNCHANGED <<cfg, disk>>
      BY <2>1, <2>2, <3>1, <3>2 DEF AsideData
    <3>3. ASSUME NEW n, SaveSucceeds(cfg \ {n}) \/ SaveFails(cfg \ {n}),
                 cfg' = cfg \ {n} \/ cfg' = cfg
          PROVE  AsideData
      <4>1. cfg \ {n} \in SUBSET Nodes
        BY <2>1
      <4> QED
        BY <2>1, <3>1, <3>3, <4>1, SaveTypes DEF AsideData
    <3>4. \/ UNCHANGED <<cfg, disk>>
          \/ \E n : /\ SaveSucceeds(cfg \ {n}) \/ SaveFails(cfg \ {n})
                    /\ cfg' = cfg \ {n} \/ cfg' = cfg
      <4>1. CASE DeleteNode(g)
        BY <4>1 DEF DeleteNode
      <4>2. CASE DeleteFailedNode(g)
        BY <4>2 DEF DeleteFailedNode
      <4> QED
        BY <2>7, <4>1, <4>2
    <3> QED
      BY <3>2, <3>3, <3>4
  <2>8. CASE RefreshApply(g)
    <3>1. PICK fetched \in SUBSET (Nodes \ Inline) :
            LET S == (cfg \cap Inline) \cup fetched IN
            \/ SaveSucceeds(S) /\ cfg' = S /\ newCfg' = [newCfg EXCEPT ![g] = S]
            \/ SaveFails(S) /\ UNCHANGED <<cfg, newCfg>>
      BY <2>8 DEF RefreshApply
    <3> DEFINE S == (cfg \cap Inline) \cup fetched
    <3>2. S \in SUBSET Nodes /\ (SaveSucceeds(S) \/ SaveFails(S))
      BY <2>1, <3>1
    <3>3. cfg' \in SUBSET Nodes /\ newCfg' \in [Goroutines -> SUBSET Nodes]
      <4> HIDE DEF S
      <4> QED
        BY <2>1, <3>1, <3>2 DEF S
    <3> HIDE DEF S
    <3> QED
      BY <2>1, <3>2, <3>3, SaveTypes DEF AsideData
  <2>9. CASE Fetch(g) \/ PortMap(g)
    <3>1. CASE PortMap(g)
      BY <2>1, <2>2, <3>1, TypeInv DEF TypeInv, TypeShared, PortMap, BaseNodes, AsideData
    <3>2. CASE Fetch(g)
      <4>1. PICK fetched \in SUBSET (Nodes \ Inline) :
              \/ /\ diskFile' = fetched /\ spoiled' = spoiled \ {"nodes"}
                 /\ newCfg' = [newCfg EXCEPT ![g] = fetched]
              \/ /\ diskFile' \in SUBSET fetched /\ spoiled' = spoiled \cup {"nodes"}
                 /\ UNCHANGED newCfg
        BY <3>2 DEF Fetch
      <4>2. newCfg' \in [Goroutines -> SUBSET Nodes] /\ UNCHANGED <<cfg, diskInline>>
        BY <2>1, <3>2, <4>1 DEF Fetch
      <4>3. DiskTypes'
        BY <2>2, <4>1, <4>2 DEF DiskTypes
      <4> QED
        BY <2>1, <4>2, <4>3 DEF AsideData
    <3> QED
      BY <2>9, <3>1, <3>2
  <2> QED
    BY <2>3, <2>4, <2>5, <2>6, <2>7, <2>8, <2>9 DEF AsideStep
<1> QED
  BY <1>1, <1>2, <1>3, <1>4

\* Such a step keeps the types, and what its goroutine holds.
LEMMA AsideKeepsTypes ==
    ASSUME TypeInv, NEW g \in Goroutines, AsidePc(g), AsideFrame(g), AsideData
    PROVE  TypeInv'
<1>1. TypeShared'
  BY DEF TypeInv, TypeShared, AsideFrame, AsideData, DiskTypes
<1>2. TypeControl'
  BY DEF TypeInv, TypeControl, AsidePc, AsideLabels, LabelsOf, MainLabels, HandlerLabels,
         RefresherLabels
<1>3. TypeLocals'
  <2>1. 0 \in 0 .. MaxRetries
    OBVIOUS
  <2>2. TypeLocals
    BY DEF TypeInv
  <2>3. newCfg' \in [Goroutines -> SUBSET Nodes]
    BY DEF AsideData
  <2>4. CASE UNCHANGED <<oldIsCfg, oldBox, instance, retry>>
    BY <2>2, <2>3, <2>4 DEF TypeLocals
  <2>5. CASE /\ oldIsCfg' = [oldIsCfg EXCEPT ![g] = FALSE]
             /\ oldBox' = [oldBox EXCEPT ![g] = None]
             /\ instance' = [instance EXCEPT ![g] = None]
             /\ retry' = [retry EXCEPT ![g] = 0]
    BY <2>1, <2>2, <2>3, <2>5 DEF TypeLocals
  <2> QED
    BY <2>4, <2>5 DEF AsideFrame
<1>4. ASSUME NEW h \in Goroutines PROVE Holds(h)'
  <2>1. CASE h = g
    BY <2>1 DEF TypeInv, TypeLocals, TypeControl, Holds, AsidePc, AsideFrame, AsideLabels,
                Endpoints, Attempting
  <2>2. CASE h # g
    BY <2>2 DEF TypeInv, TypeLocals, TypeControl, Holds, AsidePc, AsideFrame
  <2> QED
    BY <2>1, <2>2
<1> QED
  BY <1>1, <1>2, <1>3, <1>4 DEF TypeInv

\* The program starts with every part of its state of its type.
LEMMA TypeInit == Init => TypeInv
<1> SUFFICES ASSUME Init PROVE TypeInv
  OBVIOUS
<1>1. TypeShared
  BY DEF Init, TypeShared
<1>2. TypeControl
  BY DEF Init, TypeControl, LabelsOf, Starting, MainLabels, HandlerLabels, RefresherLabels
<1>3. TypeLocals
  BY DEF Init, TypeLocals
<1>4. ASSUME NEW g \in Goroutines PROVE Holds(g)
  <2>1. pc[g] \in {"init", "idle"} /\ retry[g] = 0
    BY DEF Init
  <2> QED
    BY <2>1 DEF Holds
<1> QED
  BY <1>1, <1>2, <1>3, <1>4 DEF TypeInv

\* Every step, of the main goroutine, a handler or the loop, keeps the types.
LEMMA TypeStep == TypeInv /\ [Next]_vars => TypeInv'
<1> SUFFICES ASSUME TypeInv, [Next]_vars PROVE TypeInv'
  OBVIOUS
<1> USE DEF TypeInv, TypeShared, TypeControl, TypeLocals, Holds, LabelsOf, Attempting,
        Starting, MainLabels, HandlerLabels, RefresherLabels, Goto, manager, disk, locals
<1>1. ASSUME NEW g \in Goroutines, CreateBox(g) PROVE TypeInv'
  <2>1. TypeShared' /\ (g = Main \/ g \in Handlers \cup Refreshers)
    BY <1>1 DEF CreateBox, Goroutines
  <2>2. CASE Exit
    BY <2>1, <2>2, ExitKeepsTypes
  <2>3. CASE ~Exit
    <3>1. TypeControl'
      BY <2>1, <2>3, <1>1 DEF CreateBox, ReloadSection
    <3>2. TypeLocals'
      BY <2>1, <2>3, <1>1 DEF CreateBox, Loading, Box, Boxes
    <3>3. ASSUME NEW h \in Goroutines PROVE Holds(h)'
      BY <2>3, <1>1 DEF CreateBox, Loading, Box, Boxes
    <3> QED
      BY <2>1, <3>1, <3>2, <3>3
  <2> QED
    BY <2>2, <2>3
<1>2. ASSUME NEW g \in Goroutines, StartBox(g) PROVE TypeInv'
  BY <1>2 DEF StartBox, Boxes, Goroutines, ReloadSection
<1>3. ASSUME NEW g \in Goroutines, PortConflict(g) PROVE TypeInv'
  BY <1>3 DEF PortConflict, Boxes, Goroutines, ReloadSection
<1>4. ASSUME NEW g \in Goroutines, StartFails(g) PROVE TypeInv'
  <2>1. TypeShared' /\ (g = Main \/ g \in Handlers \cup Refreshers)
    BY <1>4 DEF StartFails, Goroutines
  <2>2. CASE Exit
    BY <2>1, <2>2, ExitKeepsTypes
  <2>3. CASE ~Exit
    <3>1. TypeControl'
      BY <2>1, <2>3, <1>4 DEF StartFails, ReloadSection
    <3>2. TypeLocals'
      BY <2>1, <2>3, <1>4 DEF StartFails, Boxes
    <3>3. ASSUME NEW h \in Goroutines PROVE Holds(h)'
      BY <2>3, <1>4 DEF StartFails
    <3> QED
      BY <2>1, <3>1, <3>2, <3>3
  <2> QED
    BY <2>2, <2>3
<1>5. ASSUME NEW g \in Goroutines, Publish(g) PROVE TypeInv'
  <2>1. TypeShared'
    BY <1>5 DEF Publish
  <2>2. CASE g = Main
    BY <2>1, <2>2, <1>5, ReturnKeepsTypes DEF Publish
  <2>3. CASE g # Main
    <3>1. TypeControl'
      BY <2>3, <1>5 DEF Publish, Goroutines
    <3>2. TypeLocals'
      <4> HIDE DEF TypeInv, TypeShared, TypeControl, Holds
      <4>1. TypeLocals /\ 0 \in 0 .. MaxRetries /\ {} \in SUBSET Nodes
        BY DEF TypeInv
      <4>2. newCfg' \in [Goroutines -> SUBSET Nodes]
        BY <4>1, <2>3, <1>5 DEF Publish
      <4>3. oldIsCfg' = [h \in Goroutines |-> FALSE]
        BY <2>3, <1>5 DEF Publish
      <4>4. oldIsCfg' \in [Goroutines -> BOOLEAN]
        BY <4>3
      <4>5. /\ oldBox' \in [Goroutines -> Boxes \cup {None}]
            /\ instance' \in [Goroutines -> Boxes \cup {None}]
            /\ retry' \in [Goroutines -> 0 .. MaxRetries]
        BY <4>1, <2>3, <1>5 DEF Publish
      <4> QED
        BY <4>2, <4>4, <4>5
    <3>3. ASSUME NEW h \in Goroutines PROVE Holds(h)'
      BY <2>3, <1>5 DEF Publish
    <3> QED
      BY <2>1, <3>1, <3>2, <3>3
  <2> QED
    BY <2>2, <2>3
<1>6. ASSUME NEW g \in Handlers \cup Refreshers, RollbackCreate(g) \/ RollbackStart(g)
      PROVE  TypeInv'
  <2>1. TypeShared' /\ g \in Goroutines /\ "idle" \in LabelsOf(g) /\ g # Main
    BY <1>6 DEF RollbackCreate, RollbackStart, Goroutines
  <2>2. CASE Return(g, "idle")
    BY <2>1, <2>2, ReturnKeepsTypes
  <2>3. CASE ~Return(g, "idle")
    <3>1. TypeControl'
      BY <2>1, <2>3, <1>6 DEF RollbackCreate, RollbackStart, ReloadSection
    <3>2. TypeLocals'
      BY <2>1, <2>3, <1>6 DEF RollbackCreate, RollbackStart, Box, Boxes
    <3>3. ASSUME NEW h \in Goroutines PROVE Holds(h)'
      BY <2>1, <2>3, <1>6 DEF RollbackCreate, RollbackStart, Box, Boxes
    <3> QED
      BY <2>1, <3>1, <3>2, <3>3
  <2> QED
    BY <2>2, <2>3
<1>7. ASSUME NEW g \in Handlers \cup Refreshers, RollbackPublish(g) PROVE TypeInv'
  <2>1. TypeShared' /\ g \in Goroutines /\ "idle" \in LabelsOf(g)
    BY <1>7 DEF RollbackPublish, Goroutines
  <2> QED
    BY <2>1, <1>7, ReturnKeepsTypes DEF RollbackPublish
<1>8. ASSUME NEW g \in Handlers \cup Refreshers, ReloadBegin(g) PROVE TypeInv'
  BY <1>8 DEF ReloadBegin, Goroutines, ReloadSection
<1>9. ASSUME NEW g \in Handlers \cup Refreshers, CloseOld(g) PROVE TypeInv'
  BY <1>9 DEF CloseOld, Boxes, Goroutines, ReloadSection
<1>10. ASSUME NEW g \in Goroutines, AsideStep(g) PROVE TypeInv'
  BY <1>10, AsideIsAside, AsideKeepsTypes
<1>11. CASE EnsureMonitor
  BY <1>11 DEF EnsureMonitor, Goroutines
<1>12. CASE StartBegin
  BY <1>12 DEF StartBegin, Goroutines
<1>13. CASE Signal
  BY <1>13 DEF Signal, Goroutines
<1>14. CASE CloseBegin
  BY <1>14 DEF CloseBegin, Goroutines
<1>15. CASE CloseEnd
  BY <1>15 DEF CloseEnd, Goroutines
<1>16. CASE UNCHANGED vars
  BY <1>16 DEF vars
<1> QED
  BY <1>1, <1>2, <1>3, <1>4, <1>5, <1>6, <1>7, <1>8, <1>9, <1>10, <1>11, <1>12, <1>13, <1>14,
     <1>15, <1>16
  DEF Next, MainStep, LoadStep, ReloadStep, HandlerStep, RefresherStep, AsideStep, Ended, Goroutines

\* Type correctness (all of BoxManager), for every configuration.
THEOREM TypeCorrect == Spec => []TypeOK
<1>1. TypeInv => TypeOK
  BY DEF TypeInv, TypeShared, TypeControl, TypeLocals, TypeOK, LabelsOf, MainLabels,
         HandlerLabels, RefresherLabels, Starting, Goroutines
<1> QED
  BY <1>1, TypeInit, TypeStep, PTL DEF Spec

-----------------------------------------------------------------------------
(* One instance at a time *)

\* A step that stays out of the switch keeps what is said about it.
LEMMA AsideKeepsSwitch ==
    ASSUME TypeInv, SwitchInv, NEW g \in Goroutines, g # Main, AsidePc(g), AsideFrame(g)
    PROVE  SwitchInv'
<1>1. TypeControl /\ TypeLocals
  BY DEF TypeInv
<1>2. /\ pc'[Main] = pc[Main] /\ currentBox' = currentBox
      /\ \A h \in Goroutines : Switching(h)' <=> Switching(h)
  BY <1>1 DEF TypeControl, AsidePc, AsideFrame, AsideLabels, Endpoints, Switching, ReloadSection,
              Goroutines
<1>3. OneSwitch'
  BY <1>2 DEF SwitchInv, OneSwitch
<1>4. ASSUME NEW h \in Goroutines PROVE Alive(h)'
  <2>1. Alive(h)
    BY DEF SwitchInv
  <2>2. CASE h # g
    BY <1>1, <1>2, <2>1, <2>2 DEF TypeControl, TypeLocals, Alive, AsidePc, AsideFrame
  <2>3. CASE h = g
    <3>1. ~Switching(g) /\ pc[g] \notin {"closeOld", "publish", "rollbackPublish"}
      BY DEF AsidePc, AsideLabels, Endpoints, Switching, ReloadSection
    <3>2. oldBox'[g] \in {oldBox[g], None} /\ instance'[g] \in {instance[g], None}
      BY <1>1 DEF TypeLocals, AsideFrame
    <3> QED
      BY <1>2, <2>1, <2>3, <3>1, <3>2 DEF Alive, Runs
  <2> QED
    BY <2>2, <2>3
<1> QED
  BY <1>3, <1>4 DEF SwitchInv

\* So does the end of the process.
LEMMA ExitKeepsSwitch ==
    ASSUME SwitchInv, Exit, UNCHANGED currentBox
    PROVE  SwitchInv'
<1> \A h \in Goroutines : ~Switching(h)' /\ ~Runs(oldBox'[h]) /\ ~Runs(instance'[h])
  BY DEF Exit, Switching, ReloadSection, Runs
<1> pc'[Main] \notin Starting
  BY DEF Exit, Starting, Goroutines
<1> QED
  BY DEF SwitchInv, OneSwitch, Alive, Runs, Switching

\* And the end of a call: what it published, if anything, was its own.
LEMMA ReturnKeepsSwitch ==
    ASSUME TypeInv, SwitchInv, NEW g \in Goroutines, Switching(g),
           NEW label \in LabelsOf(g) \cap {"idle", "serving"}, Return(g, label)
    PROVE  SwitchInv'
<1>1. TypeControl /\ TypeLocals
  BY DEF TypeInv
<1>2. \A h \in Goroutines : ~Switching(h)'
  BY <1>1 DEF TypeControl, SwitchInv, OneSwitch, Return, Goto, Switching, ReloadSection
<1>3. pc'[Main] \notin Starting
  <2>1. CASE g = Main
    BY <1>1, <2>1 DEF TypeControl, Return, Goto, Starting, LabelsOf, MainLabels
  <2>2. CASE g # Main
    BY <1>1, <2>2 DEF TypeControl, SwitchInv, OneSwitch, Return, Goto, Goroutines
  <2> QED
    BY <2>1, <2>2
<1>4. ASSUME NEW h \in Goroutines PROVE Alive(h)'
  <2>1. Alive(h)
    BY DEF SwitchInv
  <2>2. CASE h = g
    BY <1>1, <1>2, <2>2 DEF TypeLocals, Return, Alive, Runs
  <2>3. CASE h # g
    BY <1>1, <1>2, <2>1, <2>3 DEF TypeControl, TypeLocals, Return, Goto, Alive
  <2> QED
    BY <2>2, <2>3
<1> QED
  BY <1>2, <1>3, <1>4 DEF SwitchInv, OneSwitch

\* Nobody is switching at the start.
LEMMA SwitchInit == Init => SwitchInv
  BY DEF Init, SwitchInv, OneSwitch, Alive, Switching, ReloadSection, Runs, Goroutines

\* Every step keeps to one switch at a time: a reload begins by taking
\* currentBox, which is nil while another one is under way.
LEMMA SwitchStep == TypeInv /\ SwitchInv /\ [Next]_vars => SwitchInv'
<1> SUFFICES ASSUME TypeInv, SwitchInv, [Next]_vars PROVE SwitchInv'
  OBVIOUS
<1>0. TypeControl /\ TypeLocals /\ OneSwitch /\ \A g \in Goroutines : Holds(g) /\ Alive(g)
  BY DEF TypeInv, SwitchInv
\* Within a switch: only its goroutine moves, nothing is published.
<1>1. ASSUME NEW g \in Goroutines, UNCHANGED currentBox,
             NEW from \in ReloadSection, pc[g] = from,
             NEW to \in ReloadSection, Goto(g, to),
             \A h \in Goroutines \ {g} :
                 oldBox'[h] = oldBox[h] /\ instance'[h] = instance[h] /\ oldIsCfg'[h] = oldIsCfg[h],
             oldIsCfg'[g] = oldIsCfg[g],
             Runs(oldBox'[g]) => to = "closeOld",
             Runs(instance'[g]) => to \in {"publish", "rollbackPublish"},
             g = Main => to \in Starting
      PROVE  SwitchInv'
  <2>1. OneSwitch'
    BY <1>0, <1>1 DEF TypeControl, OneSwitch, Switching, Goto
  <2>2. ASSUME NEW h \in Goroutines PROVE Alive(h)'
    BY <1>0, <1>1, <2>2 DEF TypeControl, Alive, Switching, Goto
  <2> QED
    BY <2>1, <2>2 DEF SwitchInv
<1>2. ASSUME NEW g \in Goroutines, CreateBox(g) PROVE SwitchInv'
  <2>1. CASE Exit
    BY <1>2, <2>1, ExitKeepsSwitch DEF CreateBox, manager
  <2>2. CASE ~Exit
    BY <1>0, <1>1, <1>2, <2>2
    DEF CreateBox, TypeLocals, manager, locals, Box, Runs, Alive, ReloadSection, Starting
  <2> QED
    BY <2>1, <2>2
<1>3. ASSUME NEW g \in Goroutines, StartBox(g) PROVE SwitchInv'
  BY <1>0, <1>1, <1>3 DEF StartBox, TypeLocals, manager, Runs, Alive, ReloadSection, Starting
<1>4. ASSUME NEW g \in Goroutines, PortConflict(g) PROVE SwitchInv'
  BY <1>0, <1>1, <1>4
  DEF PortConflict, TypeLocals, Holds, Boxes, manager, Runs, Alive, ReloadSection, Starting
<1>5. ASSUME NEW g \in Goroutines, StartFails(g) PROVE SwitchInv'
  <2>1. CASE Exit
    BY <1>5, <2>1, ExitKeepsSwitch DEF StartFails, manager
  <2>2. CASE ~Exit
    BY <1>0, <1>1, <1>5, <2>2
    DEF StartFails, TypeLocals, Holds, Boxes, manager, Runs, Alive, ReloadSection, Starting
  <2> QED
    BY <2>1, <2>2
<1>6. ASSUME NEW g \in Goroutines, Publish(g) PROVE SwitchInv'
  <2>1. Switching(g)
    BY <1>6 DEF Publish, Switching, ReloadSection
  <2>2. CASE g = Main
    BY <1>6, <2>1, <2>2, ReturnKeepsSwitch DEF Publish, LabelsOf, MainLabels
  <2>3. CASE g # Main
    <3>1. \A h \in Goroutines : ~Switching(h)'
      BY <1>0, <1>6, <2>1, <2>3 DEF Publish, Goto, TypeControl, OneSwitch, Switching,
                                    ReloadSection
    <3>2. pc'[Main] \notin Starting
      BY <1>0, <1>6, <2>1, <2>3 DEF Publish, Goto, TypeControl, OneSwitch, Goroutines
    <3>3. ASSUME NEW h \in Goroutines PROVE Alive(h)'
      <4>1. CASE h = g
        BY <1>0, <1>6, <2>3, <3>1, <4>1 DEF Publish, TypeLocals, Alive, Runs
      <4>2. CASE h # g
        BY <1>0, <1>6, <2>3, <3>1, <4>2 DEF Publish, Goto, TypeLocals, TypeControl, Alive
      <4> QED
        BY <4>1, <4>2
    <3> QED
      BY <3>1, <3>2, <3>3 DEF SwitchInv, OneSwitch
  <2> QED
    BY <2>2, <2>3
<1>7. ASSUME NEW g \in Handlers \cup Refreshers,
             RollbackCreate(g) \/ RollbackStart(g) \/ RollbackPublish(g)
      PROVE  SwitchInv'
  <2>1. g \in Goroutines /\ g # Main /\ Switching(g) /\ "idle" \in LabelsOf(g)
    BY <1>7 DEF RollbackCreate, RollbackStart, RollbackPublish, Goroutines, Switching,
                ReloadSection,
                LabelsOf, HandlerLabels, RefresherLabels
  <2>2. CASE Return(g, "idle")
    BY <2>1, <2>2, ReturnKeepsSwitch
  <2>3. CASE ~Return(g, "idle")
    BY <1>0, <1>1, <1>7, <2>1, <2>3
    DEF RollbackCreate, RollbackStart, RollbackPublish, TypeLocals, manager, Box, Runs, Alive,
        ReloadSection
  <2> QED
    BY <2>2, <2>3
<1>8. ASSUME NEW g \in Handlers \cup Refreshers, CloseOld(g) PROVE SwitchInv'
  <2>1. g \in Goroutines /\ g # Main
    BY DEF Goroutines
  <2> QED
    BY <1>0, <1>1, <1>8, <2>1
    DEF CloseOld, TypeLocals, Holds, Boxes, manager, Runs, Alive, ReloadSection
\* The switch begins: nobody else is in one, since something is published.
<1>9. ASSUME NEW g \in Handlers \cup Refreshers, ReloadBegin(g) PROVE SwitchInv'
  <2>1. g \in Goroutines /\ g # Main
    BY DEF Goroutines
  <2>2. \A h \in Goroutines : ~Switching(h)
    BY <1>0, <1>9 DEF ReloadBegin, OneSwitch
  <2>3. OneSwitch'
    BY <1>0, <1>9, <2>1, <2>2
    DEF ReloadBegin, Goto, TypeControl, OneSwitch, Switching, ReloadSection, Goroutines
  <2>4. ASSUME NEW h \in Goroutines PROVE Alive(h)'
    BY <1>0, <1>9, <2>1, <2>2
    DEF ReloadBegin, Goto, TypeControl, TypeLocals, Alive, Switching, ReloadSection
  <2> QED
    BY <2>3, <2>4 DEF SwitchInv
<1>10. ASSUME NEW g \in Goroutines, AsideStep(g) PROVE SwitchInv'
  BY <1>10, AsideIsAside, AsideKeepsSwitch
\* The main goroutine comes and goes.
<1>11. ASSUME NEW label \in {"begin", "createBox", "stopping", "shutdown", "closed"},
              pc[Main] \notin ReloadSection, Goto(Main, label), UNCHANGED locals,
              label = "begin" \/ label = "createBox" =>
                  pc[Main] \in Starting /\ UNCHANGED currentBox,
              currentBox' \in {currentBox, None}
       PROVE  SwitchInv'
  <2>1. OneSwitch'
    BY <1>0, <1>11 DEF Goto, TypeControl, OneSwitch, Switching, ReloadSection, Goroutines,
                       Starting
  <2>2. ASSUME NEW h \in Goroutines PROVE Alive(h)'
    BY <1>0, <1>11, <2>2
    DEF Goto, TypeControl, Alive, Switching, ReloadSection, Goroutines, locals
  <2> QED
    BY <2>1, <2>2 DEF SwitchInv
<1>12. CASE EnsureMonitor \/ StartBegin \/ Signal \/ CloseBegin \/ CloseEnd
  BY <1>11, <1>12
  DEF EnsureMonitor, StartBegin, Signal, CloseBegin, CloseEnd, manager, ReloadSection, Starting
<1>13. CASE UNCHANGED vars
  BY <1>13
  DEF vars, manager, locals, SwitchInv, OneSwitch, Alive, Switching
<1> QED
  BY <1>2, <1>3, <1>4, <1>5, <1>6, <1>7, <1>8, <1>9, <1>10, <1>12, <1>13
  DEF Next, MainStep, LoadStep, ReloadStep, HandlerStep, RefresherStep, AsideStep, Ended, Goroutines

-----------------------------------------------------------------------------
\* While it rolls back, the configuration a reload replaced is m.cfg
\* (RollbackTargetIsCurrent): no other reload has published in between.
THEOREM RollbackTargetStaysCurrent == Spec => []RollbackTargetIsCurrent
<1>1. TypeInv /\ SwitchInv => RollbackTargetIsCurrent
  BY DEF TypeInv, TypeControl, LabelsOf, MainLabels, Starting, SwitchInv, Alive, Switching,
         ReloadSection,
         RollbackTargetIsCurrent
<1> QED
  BY <1>1, TypeInit, TypeStep, SwitchInit, SwitchStep, PTL DEF Spec

\* There is never a second instance beside the first (OneInstance): what runs
\* is the published one, the one a reload is about to close, or the one it is
\* about to publish, and only one goroutine at a time is in that business.
THEOREM NeverTwoInstances == Spec => []OneInstance
<1>1. ASSUME TypeInv, SwitchInv PROVE OneInstance
  <2> DEFINE current == IF Runs(currentBox) THEN {<<"current", Main>>} ELSE {}
             old == {<<"old", g>> : g \in {h \in Goroutines : Runs(oldBox[h])}}
             new == {<<"new", g>> : g \in {h \in Goroutines : Runs(instance[h])}}
             live == current \cup old \cup new
  <2>1. \A h \in Goroutines :
            Runs(oldBox[h]) \/ Runs(instance[h]) => Switching(h) /\ ~Runs(currentBox)
    BY <1>1 DEF SwitchInv, OneSwitch, Alive, Switching, ReloadSection, Runs
  <2>2. \A h, k \in Goroutines :
            /\ Runs(oldBox[h]) \/ Runs(instance[h])
            /\ Runs(oldBox[k]) \/ Runs(instance[k])
            => h = k
    BY <1>1, <2>1 DEF SwitchInv, OneSwitch
  <2>3. \A h \in Goroutines : ~(Runs(oldBox[h]) /\ Runs(instance[h]))
    BY <1>1 DEF SwitchInv, Alive
  <2>4. \A x, y \in live : x = y
    BY <2>1, <2>2, <2>3
  <2>5. live = {} \/ \E x : live = {x}
    <3>1. CASE live = {}
      BY <3>1
    <3>2. CASE live # {}
      <4>1. PICK x : x \in live
        BY <3>2
      <4>2. live = {x}
        <5> HIDE DEF live
        <5> QED
          BY <2>4, <4>1
      <4> QED
        BY <4>2
    <3> QED
      BY <3>1, <3>2
  <2>6. Cardinality(live) <= 1
    <3> HIDE DEF live
    <3>1. CASE live = {}
      <4>1. Cardinality(live) = 0
        BY <3>1, FS_EmptySet
      <4> QED
        BY <4>1
    <3>2. ASSUME NEW x, live = {x} PROVE Cardinality(live) <= 1
      <4>1. Cardinality(live) = 1
        BY <3>2, FS_Singleton
      <4> QED
        BY <4>1
    <3> QED
      BY <2>5, <3>1, <3>2
  <2> QED
    BY <2>6 DEF OneInstance
<1> QED
  BY <1>1, TypeInit, TypeStep, SwitchInit, SwitchStep, PTL DEF Spec

-----------------------------------------------------------------------------
(* What is published runs *)

\* Nothing is published at the start.
LEMMA LiveInit == Init => LiveInv
  BY DEF Init, LiveInv, Started

\* A step of g that starts nothing but what it may, and publishes nothing but
\* what it started.
LiveMove(g) ==
    /\ \E label : Goto(g, label)
    /\ \A h \in Goroutines \ {g} : instance'[h] = instance[h]
    /\ Started(g)'
    /\ \/ currentBox' \in {currentBox, None}
       \/ pc[g] \in {"publish", "rollbackPublish"} /\ currentBox' = instance[g]

LEMMA LiveMoveKeepsLive ==
    ASSUME TypeInv, LiveInv, NEW g \in Goroutines, LiveMove(g)
    PROVE  LiveInv'
<1>1. ASSUME NEW h \in Goroutines PROVE Started(h)'
  BY <1>1 DEF LiveMove, LiveInv, Goto, TypeInv, TypeControl, Started
<1>2. currentBox' # None => currentBox'.st = "running" /\ currentBox'.nodes # {}
  BY DEF LiveMove, LiveInv, Started
<1> QED
  BY <1>1, <1>2 DEF LiveInv

\* The attempts are not used up by conflicts: then no step of Start, of Reload
\* or of the rollback publishes an instance that is not running.
LEMMA LiveStep ==
    ASSUME MaxConflicts < MaxRetries, TypeInv, LiveInv, [Next]_vars
    PROVE  LiveInv'
<1>1. ASSUME NEW g \in Goroutines, LoadStep(g), ~(g = Main /\ Exit) PROVE LiveMove(g)
  <2>0. /\ pc \in [Goroutines -> MainLabels \cup HandlerLabels \cup RefresherLabels]
        /\ instance \in [Goroutines -> Boxes \cup {None}] /\ Holds(g) /\ Started(g)
    BY DEF TypeInv, TypeControl, TypeLocals, LiveInv
  <2> USE DEF Goto, Started, LiveMove
  <2>1. CASE CreateBox(g)
    <3>1. CASE instance' = [instance EXCEPT ![g] = Box("created", Loading(g))] /\ Loading(g) # {}
      BY <1>1, <2>0, <2>1, <3>1 DEF CreateBox, manager, Box
    <3>2. CASE Goto(g, "rollback") /\ UNCHANGED locals
      BY <1>1, <2>0, <2>1, <3>2 DEF CreateBox, manager, locals
    <3> QED
      BY <1>1, <2>1, <3>1, <3>2 DEF CreateBox
  <2>2. CASE StartBox(g)
    <3>1. instance[g] \in Boxes /\ instance[g].nodes # {}
      BY <2>0, <2>2 DEF StartBox, Holds
    <3>2. instance'[g] = [instance[g] EXCEPT !.st = "running"]
      BY <2>0, <2>2 DEF StartBox
    <3>3. instance'[g].st = "running" /\ instance'[g].nodes # {}
      BY <3>1, <3>2 DEF Boxes
    <3> QED
      BY <2>0, <2>2, <3>3 DEF StartBox, manager
  <2>3. CASE PortConflict(g)
    <3>1. retry[g] + 1 < MaxRetries
      BY <2>3 DEF PortConflict, TypeInv, TypeLocals
    <3>2. Goto(g, "createBox")
      BY <2>3, <3>1 DEF PortConflict
    <3>3. /\ \A h \in Goroutines \ {g} : instance'[h] = instance[h]
          /\ UNCHANGED currentBox
      BY <2>0, <2>3 DEF PortConflict, manager
    <3> QED
      BY <2>0, <3>2, <3>3
  <2>4. CASE StartFails(g)
    BY <1>1, <2>0, <2>4 DEF StartFails, manager
  <2>5. CASE Publish(g)
    BY <2>0, <2>5 DEF Publish, Return
  <2> QED
    BY <1>1, <2>1, <2>2, <2>3, <2>4, <2>5 DEF LoadStep
<1>2. ASSUME NEW g \in Handlers \cup Refreshers, ReloadStep(g), ~ReloadRefused(g) PROVE LiveMove(g)
  <2>0. /\ pc \in [Goroutines -> MainLabels \cup HandlerLabels \cup RefresherLabels]
        /\ instance \in [Goroutines -> Boxes \cup {None}] /\ Holds(g) /\ Started(g)
        /\ g \in Goroutines
    BY DEF TypeInv, TypeControl, TypeLocals, LiveInv, Goroutines
  <2> USE DEF Goto, Started, LiveMove
  <2>1. CASE ReloadBegin(g) \/ CloseOld(g)
    BY <2>0, <2>1 DEF ReloadBegin, CloseOld, manager
  <2>2. CASE Return(g, "idle") /\ (UNCHANGED manager \/ RollbackPublish(g))
    BY <2>0, <2>2 DEF Return, RollbackPublish, manager
  <2>3. CASE RollbackCreate(g) /\ ~Return(g, "idle")
    BY <2>0, <2>3 DEF RollbackCreate, Box, manager
  <2>4. CASE RollbackStart(g) /\ ~Return(g, "idle")
    BY <2>0, <2>4 DEF RollbackStart, Holds, Boxes, manager
  <2> QED
    BY <1>2, <2>1, <2>2, <2>3, <2>4 DEF ReloadStep, RollbackCreate, RollbackStart, RollbackPublish
<1>3. ASSUME NEW g \in Goroutines, AsideStep(g) PROVE LiveMove(g)
  <2>1. AsidePc(g) /\ AsideFrame(g)
    BY <1>3, AsideIsAside
  <2>2. Started(g)'
    BY <2>1 DEF AsidePc, AsideLabels, Endpoints, TypeInv, TypeControl, Started
  <2>3. \A h \in Goroutines \ {g} : instance'[h] = instance[h]
    BY <2>1 DEF AsideFrame, TypeInv, TypeLocals
  <2> QED
    BY <2>1, <2>2, <2>3 DEF LiveMove, AsidePc, AsideFrame, Goto
<1>4. CASE EnsureMonitor \/ StartBegin \/ Signal \/ CloseBegin \/ CloseEnd
  <2>1. Main \in Goroutines /\ UNCHANGED locals /\ currentBox' \in {currentBox, None}
    BY <1>4 DEF EnsureMonitor, StartBegin, Signal, CloseBegin, CloseEnd, manager, locals,
                Goroutines
  <2>2. \E label \in {"begin", "createBox", "stopping", "shutdown", "closed"} : Goto(Main, label)
    BY <1>4 DEF EnsureMonitor, StartBegin, Signal, CloseBegin, CloseEnd
  <2>3. LiveMove(Main)
    BY <2>1, <2>2 DEF LiveMove, Goto, TypeInv, TypeControl, Started, locals
  <2> QED
    BY <2>1, <2>3, LiveMoveKeepsLive
<1>5. CASE LoadStep(Main) /\ Exit
  BY <1>5 DEF LoadStep, CreateBox, StartBox, PortConflict, StartFails, Publish, Return, Goto,
              manager, Exit, LiveInv, Started, Goroutines
<1>6. CASE UNCHANGED vars
  BY <1>6 DEF vars, manager, locals, LiveInv, Started
<1> QED
  BY <1>1, <1>2, <1>3, <1>4, <1>5, <1>6, LiveMoveKeepsLive
  DEF Next, MainStep, ReloadStep, HandlerStep, RefresherStep, AsideStep, Ended, Goroutines

\* What the manager publishes as the current instance is running
\* (CurrentIsLive), as long as a start meets fewer port conflicts than it makes
\* attempts; with as many, the loop of Start and Reload falls through.
THEOREM CurrentStaysLive ==
    ASSUME MaxConflicts < MaxRetries
    PROVE  Spec => []CurrentIsLive
<1>1. LiveInv => CurrentIsLive
  BY DEF LiveInv, CurrentIsLive, Runs
<1>2. TypeInv /\ LiveInv /\ [Next]_vars => LiveInv'
  BY LiveStep
<1> QED
  BY <1>1, <1>2, TypeInit, TypeStep, LiveInit, PTL DEF Spec

-----------------------------------------------------------------------------
(* The end *)

\* What a goroutine other than the main one can do to the rest.
OtherMove(g) ==
    /\ g # Main /\ pc[g] # "exited"
    /\ \E label : Goto(g, label)
    /\ UNCHANGED <<mu, server>>
    /\ pc[g] = "idle" => IF g \in Handlers THEN server = "up" ELSE pc[Main] = "serving"
    /\ \/ currentBox' \in {currentBox, None}
       \/ mu = None /\ pc'[g] = "idle"

\* Every step of a handler or of the loop is such a move.
LEMMA OthersMove ==
    ASSUME TypeInv, NEW g \in Goroutines, g # Main, AsideStep(g) \/ LoadStep(g) \/ ReloadStep(g)
    PROVE  OtherMove(g)
<1>1. CASE AsideStep(g)
  <2>1. AsidePc(g) /\ AsideFrame(g)
    BY <1>1, AsideIsAside
  <2> QED
    BY <2>1 DEF OtherMove, AsidePc, AsideFrame, AsideLabels, Endpoints, Goto
<1>2. CASE LoadStep(g)
  BY <1>2 DEF LoadStep, CreateBox, StartBox, PortConflict, StartFails, Publish, Goto, manager,
              TypeInv, TypeControl, OtherMove
<1>3. CASE ReloadStep(g)
  BY <1>3 DEF ReloadStep, ReloadRefused, ReloadBegin, CloseOld, RollbackCreate, RollbackStart,
              RollbackPublish, Return, Goto, manager, TypeInv, TypeControl, OtherMove
<1> QED
  BY <1>1, <1>2, <1>3

\* The program starts before its end.
LEMMA EndInit == Init => EndInv
  BY DEF Init, EndInv, Goroutines

\* The shutdown goes through its phases, and what is left of the other
\* goroutines when it is over is the loop.
LEMMA EndStep == TypeInv /\ SwitchInv /\ EndInv /\ [Next]_vars => EndInv'
<1> SUFFICES ASSUME TypeInv, SwitchInv, EndInv, [Next]_vars PROVE EndInv'
  OBVIOUS
<1>0. TypeControl
  BY DEF TypeInv
<1>1. ASSUME NEW g \in Goroutines, OtherMove(g) PROVE EndInv'
  <2>1. g # Main /\ pc'[Main] = pc[Main] /\ \A h \in Goroutines \ {g} : pc'[h] = pc[h]
    BY <1>0, <1>1 DEF OtherMove, Goto, TypeControl, Goroutines
  <2>2. pc[Main] # "exited"
    BY <1>1 DEF OtherMove, EndInv
  <2>3. pc[Main] = "shutdown" => currentBox' = None
    BY <1>1 DEF OtherMove, EndInv
  <2>4. ASSUME pc[Main] = "closed"
        PROVE  /\ \A h \in Handlers : pc'[h] = "idle"
               /\ currentBox' # None => \A r \in Refreshers : pc'[r] = "idle"
    <3>1. g \in Refreshers /\ pc[g] # "idle"
      BY <1>1, <2>4 DEF OtherMove, EndInv, Goroutines
    <3>2. \A r \in Refreshers : r = g
      BY <3>1
    <3> QED
      BY <1>1, <2>1, <2>4, <3>1, <3>2 DEF OtherMove, EndInv, Goroutines
  <2> QED
    BY <1>1, <2>1, <2>2, <2>3, <2>4 DEF OtherMove, EndInv
<1>2. CASE LoadStep(Main) /\ Exit
  BY <1>0, <1>2 DEF LoadStep, CreateBox, StartBox, PortConflict, StartFails, Publish, manager,
                    Return, Goto, Exit, EndInv, Goroutines, TypeControl
<1>3. CASE LoadStep(Main) /\ ~Exit
  BY <1>0, <1>3 DEF LoadStep, CreateBox, StartBox, PortConflict, StartFails, Publish, manager,
                    Return, Goto, EndInv, Goroutines, TypeControl
<1>4. CASE EnsureMonitor \/ StartBegin \/ Signal
  BY <1>0, <1>4 DEF EnsureMonitor, StartBegin, Signal, manager, Goto, EndInv, Goroutines,
                    TypeControl
<1>5. CASE CloseBegin
  BY <1>0, <1>5 DEF CloseBegin, Goto, EndInv, Goroutines, TypeControl
<1>6. CASE CloseEnd
  BY <1>0, <1>6 DEF CloseEnd, Goto, EndInv, Goroutines, TypeControl
<1>7. CASE UNCHANGED vars
  BY <1>7 DEF vars, manager, EndInv
<1> QED
  BY <1>1, <1>2, <1>3, <1>4, <1>5, <1>6, <1>7, OthersMove
  DEF Next, MainStep, HandlerStep, RefresherStep, AsideStep, ReloadStep, Ended, Goroutines

-----------------------------------------------------------------------------
(* The manager implements ProxyService *)

Inv == TypeInv /\ SwitchInv /\ LiveInv /\ EndInv

\* The phase the manager is in, in the terms of its state.
PhaseByState ==
    /\ pc[Main] = "exited" => phase = "exited"
    /\ pc[Main] \in {"shutdown", "closed"} => phase = "closed"
    /\ pc[Main] \in Starting => phase = "starting"
    /\ pc[Main] \in {"serving", "stopping"} =>
          IF currentBox # None THEN phase = "serving"
          ELSE IF \E g \in Goroutines : Switching(g) THEN phase = "switching"
          ELSE phase = "down"
    /\ pc[Main] \in Starting \cup {"serving", "stopping", "shutdown", "closed", "exited"}
    /\ IF currentBox = None THEN served = {} ELSE served \in (SUBSET Nodes) \ {{}}

\* That is the phase the refinement mapping computes,
LEMMA PhaseNow == Inv => PhaseByState
<1> SUFFICES ASSUME Inv PROVE PhaseByState
  OBVIOUS
<1>1. ~Switching(Main) \/ pc[Main] \in Starting
  BY DEF Inv, TypeInv, TypeControl, LabelsOf, MainLabels, Switching, ReloadSection, Starting,
         Goroutines
<1>2. pc[Main] \in MainLabels
  BY DEF Inv, TypeInv, TypeControl, LabelsOf, Goroutines
<1>3. pc[Main] \in Starting => currentBox = None /\ \A g \in Goroutines \ {Main} : ~Switching(g)
  BY DEF Inv, SwitchInv, OneSwitch
<1>4. IF currentBox = None THEN served = {} ELSE served \in (SUBSET Nodes) \ {{}}
  BY DEF Inv, TypeInv, TypeShared, Boxes, LiveInv, Runs, served
<1> QED
  BY <1>1, <1>2, <1>3, <1>4 DEF PhaseByState, phase, Switching, Goroutines, MainLabels, Starting

\* also after a step.
LEMMA PhaseNext == Inv' => PhaseByState'
  BY PhaseNow, PTL

\* The phase before and after a step.
LEMMA PhaseIs ==
    ASSUME Inv, Inv'
    PROVE  PhaseByState /\ PhaseByState'
  BY PhaseNow, PhaseNext

\* A publication is seen as the service coming up.
LEMMA PublicationServes ==
    ASSUME Inv, Inv', NEW g \in Goroutines, Switching(g), mu = None,
           currentBox' # None, NEW label \in {"idle", "serving"}, Goto(g, label),
           g = Main <=> label = "serving"
    PROVE  Service!Serve \/ Service!ServeLate
<1>1. currentBox = None /\ pc[Main] # "exited" /\ pc[Main] # "shutdown"
  BY DEF Inv, SwitchInv, OneSwitch, EndInv, Switching, ReloadSection
<1>2. served = {} /\ served' \in (SUBSET Nodes) \ {{}}
  BY <1>1, PhaseIs DEF PhaseByState
<1>3. CASE g = Main
  <2>1. pc[Main] \in Starting /\ pc'[Main] = "serving"
    BY <1>3 DEF Inv, TypeInv, TypeControl, LabelsOf, MainLabels, Switching, ReloadSection,
                Starting,
                Goroutines, Goto
  <2>2. phase = "starting" /\ phase' = "serving"
    BY <2>1, PhaseIs DEF PhaseByState
  <2> QED
    BY <1>2, <2>2 DEF Service!Serve
<1>4. CASE g # Main
  <2>1. pc'[Main] = pc[Main] /\ pc[Main] \in {"serving", "stopping", "closed"}
    BY <1>1, <1>4, PhaseIs DEF PhaseByState, Inv, TypeInv, TypeControl, SwitchInv, OneSwitch,
                               Goroutines, Goto
  <2>2. CASE pc[Main] = "closed"
    <3>1. phase = "closed" /\ phase' = "closed"
      BY <2>1, <2>2, PhaseIs DEF PhaseByState
    <3> QED
      BY <1>2, <3>1 DEF Service!ServeLate
  <2>3. CASE pc[Main] # "closed"
    <3>1. phase = "switching" /\ phase' = "serving"
      BY <1>1, <2>1, <2>3, PhaseIs DEF PhaseByState
    <3> QED
      BY <1>2, <3>1 DEF Service!Serve
  <2> QED
    BY <2>2, <2>3
<1> QED
  BY <1>3, <1>4

\* Steps that leave the published instance alone, and the main goroutine in its
\* phase, are seen as nothing, or as a switch given up.
LEMMA QuietStep ==
    ASSUME Inv, Inv', UNCHANGED currentBox,
           \/ pc'[Main] = pc[Main]
           \/ pc[Main] \in Starting /\ pc'[Main] \in Starting
           \/ pc[Main] = "serving" /\ pc'[Main] = "stopping"
           \/ pc[Main] = "shutdown" /\ pc'[Main] = "closed",
           \A g \in Goroutines \ {Main} : Switching(g)' => Switching(g)
    PROVE  Service!GiveUp \/ UNCHANGED <<phase, served>>
<1>1. UNCHANGED served
  BY DEF served, Runs
<1>2. CASE /\ pc[Main] \in {"serving", "stopping"} /\ currentBox = None
           /\ \E g \in Goroutines : Switching(g)
           /\ ~\E g \in Goroutines : Switching(g)'
  <2>1. phase = "switching" /\ phase' = "down"
    BY <1>2, PhaseIs DEF PhaseByState, Starting
  <2> QED
    BY <1>1, <2>1 DEF Service!GiveUp
<1>3. CASE /\ pc[Main] \in {"serving", "stopping"} /\ currentBox = None
           /\ (\E g \in Goroutines : Switching(g)) <=> (\E g \in Goroutines : Switching(g)')
  BY <1>1, <1>3, PhaseIs DEF PhaseByState, Starting
<1>4. CASE pc[Main] \notin {"serving", "stopping"} \/ currentBox # None
  BY <1>1, <1>4, PhaseIs DEF PhaseByState, Starting
<1>5. pc[Main] \in {"serving", "stopping"} =>
          ((\E g \in Goroutines : Switching(g)') => \E g \in Goroutines : Switching(g))
  BY DEF Switching, ReloadSection, Starting
<1> QED
  BY <1>2, <1>3, <1>4, <1>5

\* Every step of the manager is a step of the service, or none.
LEMMA ServiceStep ==
    ASSUME Inv, Inv', [Next]_vars
    PROVE  Service!Next \/ UNCHANGED <<phase, served>>
<1>0. /\ TypeControl /\ Main \in Goroutines
      /\ \A g \in Handlers \cup Refreshers : g \in Goroutines /\ g # Main
  BY DEF Inv, TypeInv, Goroutines
<1>1. ASSUME NEW g \in Goroutines,
             Publish(g) \/ (g \in Handlers \cup Refreshers /\ RollbackPublish(g))
      PROVE  Service!Serve \/ Service!ServeLate
  <2>1. currentBox' # None
    BY <1>1, NilAssumption DEF Publish, RollbackPublish, Inv, TypeInv, Holds
  <2>2. Switching(g) /\ mu = None
    BY <1>1 DEF Publish, RollbackPublish, Switching, ReloadSection
  <2>3. Goto(g, IF g = Main THEN "serving" ELSE "idle")
    BY <1>0, <1>1 DEF Publish, RollbackPublish, Return
  <2> QED
    BY <2>1, <2>2, <2>3, PublicationServes
<1>2. ASSUME NEW g \in Goroutines,
             CreateBox(g) \/ StartBox(g) \/ PortConflict(g) \/ StartFails(g), ~(g = Main /\ Exit)
      PROVE  Service!GiveUp \/ UNCHANGED <<phase, served>>
  <2>1. UNCHANGED currentBox
    BY <1>2 DEF CreateBox, StartBox, PortConflict, StartFails, manager
  <2>2. \E label \in ReloadSection : Goto(g, label) /\ (g = Main => label \in Starting)
    BY <1>2 DEF CreateBox, StartBox, PortConflict, StartFails, ReloadSection, Starting
  <2>3. Switching(g) /\ (g = Main => pc[Main] \in Starting)
    BY <1>2 DEF CreateBox, StartBox, PortConflict, StartFails, Switching, ReloadSection, Starting
  <2>4. \A h \in Goroutines \ {g} : pc'[h] = pc[h]
    BY <1>0, <2>2 DEF TypeControl, Goto
  <2>5. g = Main => pc'[Main] \in Starting
    BY <1>0, <2>2 DEF TypeControl, Goto
  <2> QED
    BY <1>0, <2>1, <2>3, <2>4, <2>5, QuietStep DEF Switching
<1>3. ASSUME Exit, CreateBox(Main) \/ StartFails(Main)
      PROVE  Service!Exit
  <2>1. pc[Main] \in Starting /\ pc'[Main] = "exited" /\ UNCHANGED currentBox
    BY <1>0, <1>3 DEF CreateBox, StartFails, Starting, Exit, manager
  <2>2. phase = "starting" /\ phase' = "exited" /\ UNCHANGED served
    BY <2>1, PhaseIs DEF PhaseByState, served, Runs
  <2> QED
    BY <2>2 DEF Service!Exit
<1>4. ASSUME NEW g \in Handlers \cup Refreshers,
             CloseOld(g) \/ RollbackCreate(g) \/ RollbackStart(g)
      PROVE  Service!GiveUp \/ UNCHANGED <<phase, served>>
  <2>1. UNCHANGED currentBox /\ Switching(g) /\ \E label : Goto(g, label)
    BY <1>4 DEF CloseOld, RollbackCreate, RollbackStart, Return, manager, Switching, ReloadSection
  <2>2. \A h \in Goroutines \ {g} : pc'[h] = pc[h]
    BY <1>0, <2>1 DEF TypeControl, Goto
  <2> QED
    BY <1>0, <2>1, <2>2, QuietStep DEF Switching
<1>5. ASSUME NEW g \in Handlers \cup Refreshers, ReloadBegin(g) PROVE Service!TakeDown
  <2>1. currentBox # None /\ currentBox' = None /\ pc[g] = "reload" /\ Goto(g, "closeOld")
    BY <1>5 DEF ReloadBegin
  <2>2. pc[Main] \in {"serving", "stopping"}
    BY <1>0, <2>1, PhaseIs DEF PhaseByState, Inv, SwitchInv, OneSwitch, EndInv
  <2>3. pc'[Main] = pc[Main] /\ Switching(g)'
    BY <1>0, <2>1 DEF TypeControl, Goto, Switching, ReloadSection
  <2>4. phase = "serving" /\ phase' = "switching" /\ served' = {}
    BY <1>0, <2>1, <2>2, <2>3, PhaseIs DEF PhaseByState
  <2> QED
    BY <2>4 DEF Service!TakeDown
<1>6. ASSUME NEW g \in Goroutines, AsideStep(g)
      PROVE  Service!GiveUp \/ UNCHANGED <<phase, served>>
  <2>1. AsidePc(g) /\ AsideFrame(g) /\ g # Main
    BY <1>6, AsideIsAside DEF Inv
  <2>2. pc'[Main] = pc[Main] /\ \A h \in Goroutines : Switching(h)' <=> Switching(h)
    BY <1>0, <2>1 DEF TypeControl, AsidePc, AsideLabels, Endpoints, Switching, ReloadSection
  <2> QED
    BY <2>1, <2>2, QuietStep DEF AsideFrame
<1>7. CASE EnsureMonitor \/ StartBegin \/ Signal \/ CloseEnd
  <2>1. UNCHANGED currentBox
    BY <1>7 DEF EnsureMonitor, StartBegin, Signal, CloseEnd, manager
  <2>2. /\ \A h \in Goroutines \ {Main} : pc'[h] = pc[h]
        /\ \/ pc[Main] \in Starting /\ pc'[Main] \in Starting
           \/ pc[Main] = "serving" /\ pc'[Main] = "stopping"
           \/ pc[Main] = "shutdown" /\ pc'[Main] = "closed"
    BY <1>0, <1>7 DEF EnsureMonitor, StartBegin, Signal, CloseEnd, Goto, TypeControl, Starting
  <2> QED
    BY <2>1, <2>2, QuietStep DEF Switching, Service!Next
<1>8. CASE CloseBegin
  <2>1. pc[Main] = "stopping" /\ pc'[Main] = "shutdown" /\ currentBox' = None
    BY <1>0, <1>8 DEF CloseBegin, Goto, TypeControl
  <2>2. phase \in {"serving", "switching", "down"} /\ phase' = "closed" /\ served' = {}
    BY <2>1, PhaseIs DEF PhaseByState
  <2> QED
    BY <2>2 DEF Service!Next, Service!Close
<1>9. CASE UNCHANGED vars
  BY <1>9 DEF vars, manager, phase, served, Runs
<1>10. ASSUME NEW g \in Handlers \cup Refreshers, LoadStep(g) \/ ReloadStep(g) \/ AsideStep(g)
       PROVE  Service!Next \/ UNCHANGED <<phase, served>>
  <2>0. g \in Goroutines /\ g # Main
    BY <1>0
  <2>1. CASE Publish(g) \/ RollbackPublish(g)
    BY <2>0, <2>1, <1>1 DEF Service!Next
  <2>2. CASE CreateBox(g) \/ StartBox(g) \/ PortConflict(g) \/ StartFails(g)
    BY <2>0, <2>2, <1>2 DEF Service!Next
  <2>3. CASE CloseOld(g) \/ RollbackCreate(g) \/ RollbackStart(g)
    BY <2>3, <1>4 DEF Service!Next
  <2>4. CASE ReloadBegin(g)
    BY <2>4, <1>5 DEF Service!Next
  <2>5. CASE AsideStep(g) \/ ReloadRefused(g)
    BY <2>0, <2>5, <1>6 DEF AsideStep, Service!Next
  <2> QED
    BY <1>10, <2>1, <2>2, <2>3, <2>4, <2>5 DEF LoadStep, ReloadStep
<1>11. ASSUME NEW g \in Goroutines,
              CreateBox(g) \/ StartBox(g) \/ PortConflict(g) \/ StartFails(g), g = Main, Exit
       PROVE  Service!Exit
  <2>1. pc'[Main] = "exited"
    BY <1>0, <1>11 DEF Exit
  <2>2. CreateBox(Main) \/ StartFails(Main)
    BY <1>0, <1>11, <2>1 DEF StartBox, PortConflict, Goto, TypeControl
  <2> QED
    BY <1>3, <1>11, <2>2
<1>12. CASE LoadStep(Main)
  <2>1. CASE Publish(Main)
    BY <1>0, <2>1, <1>1 DEF Service!Next
  <2>2. CASE ~Publish(Main) /\ Exit
    BY <1>0, <1>12, <2>2, <1>11 DEF LoadStep, Service!Next
  <2>3. CASE ~Publish(Main) /\ ~Exit
    BY <1>0, <1>12, <2>3, <1>2 DEF LoadStep, Service!Next
  <2> QED
    BY <2>1, <2>2, <2>3
<1> QED
  BY <1>7, <1>8, <1>9, <1>10, <1>12
  DEF Next, MainStep, HandlerStep, RefresherStep, AsideStep, ReloadStep, Ended

\* Seen from outside, Start, Reload, its rollback and Close are the switches of
\* ProxyService (ServiceSpec): one at a time, and what is said to be served is.
THEOREM ImplementsProxyService ==
    ASSUME MaxConflicts < MaxRetries
    PROVE  Spec => ServiceSpec
<1>1. Init => Service!Init
  BY DEF Init, Service!Init, phase, served, Runs, ReloadSection, Goroutines
<1>2. TypeInv /\ SwitchInv /\ LiveInv /\ EndInv /\ [Next]_vars
      /\ (TypeInv /\ SwitchInv /\ LiveInv /\ EndInv)' => [Service!Next]_<<phase, served>>
  BY ServiceStep DEF Inv
<1>3. TypeInv /\ LiveInv /\ [Next]_vars => LiveInv'
  BY LiveStep
<1> QED
  BY <1>1, <1>2, <1>3, TypeInit, TypeStep, SwitchInit, SwitchStep, LiveInit, EndInit, EndStep, PTL
  DEF Spec, ServiceSpec, Service!Spec

-----------------------------------------------------------------------------
(* The files follow memory *)

\* Nobody else is there to edit or publish while a request is served.
OneEditor ==
    /\ \A g, h \in Handlers : g = h
    /\ Refreshers = {}

\* Where a handler has a copy of m.cfg that it is about to publish.
Copying == {"reload", "closeOld", "createBox", "startBox", "publish"}

\* The files hold the nodes of m.cfg, as far as the saves succeed.
FilesHold ==
    /\ "nodes" \in spoiled \/ diskFile = cfg \ Inline
    /\ "config" \in spoiled \/ cfg \cap Inline \in {{}, diskInline}

FileInv ==
    /\ FilesHold
    /\ \A h \in Handlers : pc[h] \in Copying => newCfg[h] = cfg

\* A save writes each node to its file; one that fails leaves the files it did
\* not reach as they are.
LEMMA SaveFollows ==
    ASSUME TypeInv, FilesHold, NEW S \in SUBSET Nodes,
           \/ SaveSucceeds(S) /\ cfg' = S
           \/ SaveFails(S) /\ UNCHANGED cfg
    PROVE  FilesHold'
<1>1. CASE SaveSucceeds(S) /\ cfg' = S
  <2>1. diskFile' = S \ Inline
    <3>1. CASE WritesFile(S)
      BY <1>1, <3>1 DEF SaveSucceeds
    <3>2. CASE ~WritesFile(S)
      <4>1. S \ Inline = {} /\ Nodes = Inline /\ diskFile' = diskFile
        BY <1>1, <3>2 DEF SaveSucceeds, WritesFile
      <4>2. diskFile = {}
        BY <4>1 DEF TypeInv, TypeShared
      <4> QED
        BY <4>1, <4>2
    <3> QED
      BY <3>1, <3>2
  <2>2. S \cap Inline \in {{}, diskInline'}
    BY <1>1 DEF SaveSucceeds, WritesInline
  <2> QED
    BY <1>1, <2>1, <2>2 DEF FilesHold
<1>2. CASE SaveFails(S) /\ UNCHANGED cfg
  <2>1. CASE UNCHANGED disk
    BY <1>2, <2>1 DEF FilesHold, disk
  <2>2. CASE spoiled' = spoiled \cup {"nodes"} /\ UNCHANGED diskInline
    BY <1>2, <2>2 DEF FilesHold
  <2>3. CASE /\ WritesInline(S)
             /\ diskFile' = IF WritesFile(S) THEN S \ Inline ELSE diskFile
             /\ \/ UNCHANGED diskInline /\ spoiled' = spoiled \cup (Written(S) \ {"config"})
                \/ spoiled' = spoiled \cup Written(S)
    <3>1. "nodes" \in spoiled' \/ diskFile' = cfg' \ Inline
      <4>1. CASE WritesFile(S)
        BY <2>3, <4>1 DEF Written
      <4>2. CASE ~WritesFile(S)
        <5>1. "nodes" \notin spoiled' => "nodes" \notin spoiled
          BY <2>3
        <5> QED
          BY <1>2, <2>3, <4>2, <5>1 DEF FilesHold
      <4> QED
        BY <4>1, <4>2
    <3>2. "config" \in spoiled' \/ cfg' \cap Inline \in {{}, diskInline'}
      <4>1. CASE spoiled' = spoiled \cup Written(S)
        BY <2>3, <4>1 DEF Written
      <4>2. CASE UNCHANGED diskInline /\ spoiled' = spoiled \cup (Written(S) \ {"config"})
        BY <1>2, <4>2 DEF FilesHold
      <4> QED
        BY <2>3, <4>1, <4>2
    <3> QED
      BY <3>1, <3>2 DEF FilesHold
  <2> QED
    BY <1>2, <2>1, <2>2, <2>3 DEF SaveFails
<1> QED
  BY <1>1, <1>2

\* What touches neither m.cfg nor the files keeps them in step.
LEMMA FilesKept == FilesHold /\ UNCHANGED <<cfg, disk>> => FilesHold'
  BY DEF FilesHold, disk

\* The program starts with the nodes it has read from the file.
LEMMA FileInit == OneEditor /\ Init => FileInv
<1> SUFFICES ASSUME Init PROVE FileInv
  OBVIOUS
<1>1. FilesHold
  BY DEF Init, FilesHold
<1>2. ASSUME NEW h \in Handlers PROVE pc[h] \notin Copying
  BY DEF Init, Copying, Goroutines
<1> QED
  BY <1>1, <1>2 DEF FileInv

\* An edit is saved or undone, and a copy is taken under the same lock as the
\* edit before it.
LEMMA FileStep ==
    ASSUME OneEditor, TypeInv, FileInv, [Next]_vars
    PROVE  FileInv'
<1>0. /\ pc \in [Goroutines -> MainLabels \cup HandlerLabels \cup RefresherLabels]
      /\ newCfg \in [Goroutines -> SUBSET Nodes] /\ cfg \in SUBSET Nodes
      /\ \A h \in Handlers : h \in Goroutines /\ h # Main
  BY DEF TypeInv, TypeShared, TypeControl, TypeLocals, Goroutines
\* The handler moves: the files and m.cfg agree, and so does the copy, if it has one.
<1>1. ASSUME NEW h \in Handlers, FilesHold',
             NEW label, Goto(h, label), label \in Copying => newCfg'[h] = cfg'
      PROVE  FileInv'
  BY <1>0, <1>1 DEF OneEditor, FileInv, Goto
<1>2. ASSUME NEW h \in Handlers, NEW S \in SUBSET Nodes, Edit(S), NEW label,
             label \notin Copying, Goto(h, label)
      PROVE  FileInv'
  <2>1. FilesHold'
    BY <1>2, SaveFollows DEF Edit, FileInv
  <2> QED
    BY <1>1, <1>2, <2>1
<1>3. ASSUME NEW h \in Handlers, CreateNode(h) PROVE FileInv'
  <2>1. Goto(h, "idle") /\ "idle" \notin Copying
    BY <1>3 DEF CreateNode, Copying
  <2>2. CASE UNCHANGED <<cfg, disk>>
    BY <1>1, <2>1, <2>2, FilesKept DEF FileInv
  <2>3. ASSUME NEW n \in Nodes, Edit(cfg \cup {n}) PROVE FileInv'
    <3>1. cfg \cup {n} \in SUBSET Nodes
      BY <1>0
    <3> QED
      BY <1>2, <2>1, <2>3, <3>1
  <2> QED
    BY <1>3, <2>2, <2>3 DEF CreateNode, NewNodes
<1>4. ASSUME NEW h \in Handlers, UpdateNode(h) PROVE FileInv'
  <2>1. Goto(h, "idle") /\ "idle" \notin Copying
    BY <1>4 DEF UpdateNode, Copying
  <2>2. CASE UNCHANGED <<cfg, disk>>
    BY <1>1, <2>1, <2>2, FilesKept DEF FileInv
  <2>3. ASSUME NEW n \in cfg, NEW m \in Nodes, Edit((cfg \ {n}) \cup {m}) PROVE FileInv'
    <3>1. (cfg \ {n}) \cup {m} \in SUBSET Nodes
      BY <1>0
    <3> QED
      BY <1>2, <2>1, <2>3, <3>1
  <2> QED
    BY <1>4, <2>2, <2>3 DEF UpdateNode
<1>5. ASSUME NEW h \in Handlers, DeleteNode(h) \/ DeleteFailedNode(h) PROVE FileInv'
  <2>1. PICK label \in {"idle", "trigger", "deletedSome", pc[h]} : Goto(h, label)
    <3>1. CASE DeleteNode(h)
      BY <3>1 DEF DeleteNode
    <3>2. CASE DeleteFailedNode(h)
      <4>1. Goto(h, "deletedSome") \/ pc' = pc
        BY <3>2 DEF DeleteFailedNode
      <4> QED
        BY <1>0, <4>1 DEF Goto
    <3> QED
      BY <1>5, <3>1, <3>2
  <2>2. label \notin Copying
    BY <1>5, <2>1 DEF DeleteNode, DeleteFailedNode, Copying
  <2>3. CASE UNCHANGED <<cfg, disk>>
    BY <1>1, <2>1, <2>2, <2>3, FilesKept DEF FileInv
  <2>4. ASSUME NEW n, Edit(cfg \ {n}) PROVE FileInv'
    <3>1. cfg \ {n} \in SUBSET Nodes
      BY <1>0
    <3> QED
      BY <1>2, <2>1, <2>2, <2>4, <3>1
  <2>5. UNCHANGED <<cfg, disk>> \/ \E n : Edit(cfg \ {n})
    <3>1. CASE DeleteNode(h)
      BY <3>1 DEF DeleteNode, Edit
    <3>2. CASE DeleteFailedNode(h)
      BY <3>2 DEF DeleteFailedNode, Edit
    <3> QED
      BY <1>5, <3>1, <3>2
  <2> QED
    BY <2>3, <2>4, <2>5
<1>6. ASSUME NEW h \in Handlers, RefreshApply(h) PROVE FileInv'
  <2>1. PICK fetched \in SUBSET (Nodes \ Inline) :
          LET S == (cfg \cap Inline) \cup fetched IN
          \/ /\ SaveSucceeds(S) /\ cfg' = S /\ newCfg' = [newCfg EXCEPT ![h] = S]
             /\ Goto(h, "reload")
          \/ SaveFails(S) /\ UNCHANGED cfg /\ Goto(h, "idle")
    BY <1>6 DEF RefreshApply
  <2> DEFINE S == (cfg \cap Inline) \cup fetched
  <2>2. S \in SUBSET Nodes
    BY <1>0
  <2> HIDE DEF S
  <2>3. \/ /\ SaveSucceeds(S) /\ cfg' = S /\ newCfg' = [newCfg EXCEPT ![h] = S]
           /\ Goto(h, "reload")
        \/ SaveFails(S) /\ UNCHANGED cfg /\ Goto(h, "idle")
    BY <2>1 DEF S
  <2>4. FilesHold'
    BY <2>2, <2>3, SaveFollows DEF FileInv
  <2>5. CASE Goto(h, "idle")
    BY <1>1, <2>4, <2>5 DEF Copying
  <2>6. CASE cfg' = S /\ newCfg' = [newCfg EXCEPT ![h] = S] /\ Goto(h, "reload")
    BY <1>0, <1>1, <2>4, <2>6
  <2> QED
    BY <2>3, <2>5, <2>6
<1>7. ASSUME NEW h \in Handlers,
             \/ Accept(h) \/ Read(h) \/ ListFailed(h) \/ EndDeleteFailed(h) \/ RefreshRead(h)
             \/ TriggerReload(h) \/ ReloadRefused(h)
      PROVE  FileInv'
  <2>0. UNCHANGED <<cfg, disk>>
    BY <1>7 DEF Accept, Read, ListFailed, EndDeleteFailed, RefreshRead, TriggerReload,
                ReloadRefused, manager
  <2>1. FilesHold' /\ UNCHANGED cfg
    BY <2>0, FilesKept DEF FileInv
  <2>2. CASE TriggerReload(h) /\ Goto(h, "reload")
    BY <1>0, <1>1, <2>1, <2>2 DEF TriggerReload, Return, Goto
  <2>3. CASE ~(TriggerReload(h) /\ Goto(h, "reload"))
    <3>1. \E label \in Endpoints \cup {"idle", "deleting", "trigger", "apply"} : Goto(h, label)
      BY <1>7, <2>3
      DEF Accept, Read, ListFailed, EndDeleteFailed, RefreshRead, TriggerReload, ReloadRefused,
          Return
    <3>2. (Endpoints \cup {"idle", "deleting", "trigger", "apply"}) \cap Copying = {}
      BY DEF Endpoints, Copying
    <3> QED
      BY <1>1, <2>1, <3>1, <3>2
  <2> QED
    BY <2>2, <2>3
<1>8. ASSUME NEW h \in Handlers, LoadStep(h) \/ ReloadBegin(h) \/ CloseOld(h) PROVE FileInv'
  <2>1. CASE Publish(h)
    <3>1. /\ Goto(h, "idle") /\ "idle" \notin Copying
          /\ cfg' = newCfg[h] /\ pc[h] \in Copying /\ UNCHANGED disk
      BY <1>0, <2>1 DEF Publish, Copying
    <3>2. FilesHold'
      BY <3>1, FilesKept DEF FileInv
    <3> QED
      BY <1>1, <3>1, <3>2
  <2>2. CASE ~Publish(h)
    <3>1. UNCHANGED <<cfg, disk, newCfg>>
      BY <1>0, <1>8, <2>2
      DEF LoadStep, CreateBox, StartBox, PortConflict, StartFails, ReloadBegin, CloseOld, manager,
          locals
    <3>2. pc[h] \in Copying /\ \E label : Goto(h, label)
      BY <1>0, <1>8, <2>2
      DEF LoadStep, CreateBox, StartBox, PortConflict, StartFails, ReloadBegin, CloseOld, Copying
    <3> QED
      BY <1>1, <3>1, <3>2, FilesKept DEF FileInv
  <2> QED
    BY <2>1, <2>2
<1>9. ASSUME NEW h \in Handlers, RollbackCreate(h) \/ RollbackStart(h) \/ RollbackPublish(h)
       PROVE  FileInv'
  <2>0. UNCHANGED <<cfg, disk>>
    BY <1>9 DEF RollbackCreate, RollbackStart, RollbackPublish, manager
  <2>1. FilesHold'
    BY <2>0, FilesKept DEF FileInv
  <2>2. \E label \in {"idle", "rollbackStart", "rollbackPublish"} : Goto(h, label)
    BY <1>9 DEF RollbackCreate, RollbackStart, RollbackPublish, Return
  <2> QED
    BY <1>1, <2>1, <2>2 DEF Copying
<1>10. CASE MainStep \/ Signal
  <2>1. UNCHANGED <<cfg, disk>>
    BY <1>10 DEF MainStep, EnsureMonitor, StartBegin, LoadStep, CreateBox, StartBox, PortConflict,
                 StartFails, Publish, CloseBegin, CloseEnd, Signal, manager, disk
  <2>2. \A h \in Handlers : pc'[h] \in {pc[h], "exited"}
    BY <1>0, <1>10 DEF MainStep, EnsureMonitor, StartBegin, LoadStep, CreateBox, StartBox,
          PortConflict,
                 StartFails, Publish, CloseBegin, CloseEnd, Signal, Goto, Return, Exit
  <2>3. \A h \in Handlers : pc'[h] = pc[h] => newCfg'[h] = newCfg[h] \/ pc[h] = "exited"
    BY <1>0, <1>10 DEF MainStep, EnsureMonitor, StartBegin, LoadStep, CreateBox, StartBox,
          PortConflict,
                 StartFails, Publish, CloseBegin, CloseEnd, Signal, Goto, Return, Exit, locals
  <2> QED
    BY <2>1, <2>2, <2>3, FilesKept DEF FileInv, Copying
<1>11. CASE UNCHANGED vars
  BY <1>11, FilesKept DEF vars, manager, locals, FileInv
<1> QED
  BY <1>3, <1>4, <1>5, <1>6, <1>7, <1>8, <1>9, <1>10, <1>11
  DEF OneEditor, Next, HandlerStep, ReloadStep, Ended

\* With no request under way each file holds the nodes of m.cfg that belong there,
\* but for one that the last save to reach it failed to write and an array of
\* inline nodes that nobody rewrites (DiskMatchesMemory), whatever saves and
\* reloads fail, when one handler at a time edits.
THEOREM FilesFollowMemory ==
    ASSUME OneEditor
    PROVE  Spec => []DiskMatchesMemory
<1>1. FileInv => DiskMatchesMemory
  BY DEF FileInv, FilesHold, DiskMatchesMemory
<1>2. TypeInv /\ FileInv /\ [Next]_vars => FileInv'
  BY FileStep
<1>3. Init => FileInv
  BY FileInit
<1> QED
  BY <1>1, <1>2, <1>3, TypeInit, TypeStep, PTL DEF Spec
===============================================================================
