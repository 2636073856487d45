--------------------------- MODULE ConfigMemoryProofs ---------------------------
(***************************************************************************)
(* More proofs about ConfigStore: what the Config objects in memory and    *)
(* the settings the server shows have to do with config.yaml.  They build  *)
(* on the type invariant and on SaveInv of ConfigStoreProofs.              *)
(***************************************************************************)
EXTENDS ConfigStoreProofs

\* Whoever holds a mutex is saving a section which that mutex protects.
LockInv ==
    /\ mu # None => call[mu].at \in Saving /\ call[mu].section # "settings"
    /\ cfgMu # None => call[cfgMu].at \in Saving /\ call[cfgMu].section = "settings"

\* The runs the claims are about: nothing was lost on the way to the file, and
\* no edit has met a reload.
Undisturbed == program = "up" /\ ~overlapped /\ ~torn /\ ~astray

-----------------------------------------------------------------------------
(* What the steps do to the objects and the calls *)

\* Whoever moves, the calls of the others stay.
OnlyCall(g) == \A h \in Goroutines \ {g} : call'[h] = call[h]

\* One section of one object has a new value.
Put(object, section, v) ==
    /\ Len(objects') = Len(objects)
    /\ \A i \in 1 .. Len(objects) : \A s \in Editable :
           objects'[i][s] = IF i = object /\ s = section THEN v ELSE objects[i][s]

\* EXCEPT puts the new value where it should, and nowhere else.
LEMMA ExceptPuts ==
    ASSUME TypeInv, NEW object \in 1 .. Len(objects), NEW section \in Editable, NEW v,
           objects' = [objects EXCEPT ![object][section] = v]
    PROVE  Put(object, section, v)
<1>1. objects \in Seq(Configs)
  BY DEF TypeInv, Shapes
<1>2. Len(objects') = Len(objects)
  BY <1>1
<1>3. ASSUME NEW i \in 1 .. Len(objects), NEW s \in Editable
      PROVE  objects'[i][s] = IF i = object /\ s = section THEN v ELSE objects[i][s]
  <2>1. objects[i] \in Configs
    BY <1>1, ElementOfSeq
  <2>2. objects'[i] = IF i = object THEN [objects[object] EXCEPT ![section] = v] ELSE objects[i]
    BY <1>1
  <2> QED
    BY <2>1, <2>2 DEF Configs
<1> QED
  BY <1>2, <1>3 DEF Put

\* An edit, of the section that a mutex protects and in the object meant for it.
EditEffect(g, section, object) ==
    /\ program = "up" /\ call[g].at = "idle" /\ OnlyCall(g)
    /\ section \in Editable /\ object \in 1 .. Len(objects)
    /\ call'[g].at = "read" /\ call'[g].section = section /\ call'[g].object = object
    /\ call'[g].undo = objects[object][section]
    /\ Put(object, section, edits + 2)
    /\ astray' = (astray \/ Astray(section))
    /\ UNCHANGED <<yaml, program, cfg, cfgSrc, bound, saved, overlapped, torn, unsaved>>
    /\ \/ /\ section = "settings" /\ object = cfgSrc
          /\ cfgMu = None /\ cfgMu' = g /\ mu' = mu /\ shown' = edits + 2
       \/ /\ section \in {"subs", "nodes"} /\ object = cfg
          /\ mu = None /\ mu' = g /\ cfgMu' = cfgMu /\ shown' = shown

\* What an edit does.
LEMMA EditDoes ==
    ASSUME TypeInv, NEW g \in Goroutines, Edit(g)
    PROVE  \E section \in Editable, object \in {cfg, cfgSrc} : EditEffect(g, section, object)
<1>1. cfg \in 1 .. Len(objects) /\ cfgSrc \in 0 .. Len(objects) /\ program = "up"
  BY DEF Edit, TypeInv, Wired, Shapes
<1>2. ASSUME NEW section \in Editable, NEW object \in 1 .. Len(objects), NEW again,
             EditObject(g, section, object, again), call[g].at = "idle"
      PROVE  /\ call'[g].at = "read" /\ call'[g].section = section
             /\ call'[g].object = object /\ call'[g].undo = objects[object][section]
             /\ OnlyCall(g) /\ Put(object, section, edits + 2)
             /\ astray' = (astray \/ Astray(section))
  <2>1. Put(object, section, edits + 2)
    BY <1>2, ExceptPuts DEF EditObject
  <2>2. call \in [Goroutines -> Calls]
    BY DEF TypeInv, Shapes
  <2> QED
    BY <1>2, <2>1, <2>2 DEF EditObject, OnlyCall, NoCall
<1>3. CASE EditSettings(g)
  <2>1. PICK o \in Ops \cap {"settings", "settingsReload"} :
            EditObject(g, "settings", cfgSrc, o = "settingsReload")
    BY <1>3 DEF EditSettings
  <2>2. cfgSrc \in 1 .. Len(objects) /\ "settings" \in Editable
    BY <1>1, <1>3 DEF EditSettings, Editable
  <2>3. EditEffect(g, "settings", cfgSrc)
    BY <1>1, <1>2, <1>3, <2>1, <2>2 DEF EditEffect, EditSettings, Edit, At
  <2> QED
    BY <2>2, <2>3
<1>4. CASE EditLocked(g)
  <2>1. PICK section \in Ops \cap {"subs", "nodes"} : EditObject(g, section, cfg, FALSE)
    BY <1>4 DEF EditLocked
  <2>2. section \in Editable
    BY DEF Editable
  <2>3. EditEffect(g, section, cfg)
    BY <1>1, <1>2, <1>4, <2>1, <2>2 DEF EditEffect, EditLocked, Edit, At
  <2> QED
    BY <2>2, <2>3
<1> QED
  BY <1>3, <1>4 DEF Edit

\* A save that has come to nothing.
FailEffect(g) ==
    /\ program = "up" /\ call[g].at \in Saving /\ call'[g].at = "idle" /\ OnlyCall(g)
    /\ UNCHANGED <<program, cfg, cfgSrc, bound, shown, saved, astray>>
    /\ (overlapped => overlapped') /\ (torn => torn')
    /\ \/ /\ call[g].section = "settings" /\ cfgMu = g /\ cfgMu' = None /\ mu' = mu
          /\ objects' = objects /\ unsaved'
       \/ /\ call[g].section \in {"subs", "nodes"}
          /\ call[g].object \in 1 .. Len(objects)
          /\ mu = g /\ mu' = None /\ cfgMu' = cfgMu
          /\ Put(call[g].object, call[g].section, call[g].undo) /\ unsaved' = unsaved

\* A save that goes on: it has read the file, or emptied it.
GoesOnEffect(g) ==
    /\ program = "up" /\ call[g].at \in Saving /\ call'[g].at \in Saving /\ OnlyCall(g)
    /\ call'[g].section = call[g].section /\ call'[g].object = call[g].object
    /\ call'[g].undo = call[g].undo
    /\ UNCHANGED <<program, mu, cfgMu, objects, cfg, cfgSrc, bound, shown, saved, unsaved, astray>>
    /\ (overlapped => overlapped') /\ (torn => torn')

\* A save that has written the file.
WriteEffect(g) ==
    /\ program = "up" /\ call[g].at = "write" /\ call'[g].at \in {"idle", "reload"} /\ OnlyCall(g)
    /\ UNCHANGED <<program, objects, cfg, cfgSrc, bound, shown, overlapped, torn, astray>>
    /\ call[g].section \in Editable /\ call[g].object \in 1 .. Len(objects)
    /\ \A s \in Editable :
           saved'[s] = IF s = call[g].section THEN objects[call[g].object][s] ELSE saved[s]
    /\ \/ /\ call[g].section = "settings" /\ cfgMu = g /\ cfgMu' = None /\ mu' = mu
          /\ ~unsaved'
       \/ /\ call[g].section \in {"subs", "nodes"} /\ mu = g /\ mu' = None /\ cfgMu' = cfgMu
          /\ (unsaved => unsaved')

\* A failing save undoes its edit in m.cfg, and leaves it in the settings.
LEMMA FailDoes ==
    ASSUME TypeInv, NEW g \in Goroutines, call[g].at \in Saving, SaveFails(g),
           UNCHANGED <<program, cfg, cfgSrc, bound, shown, saved, astray>>,
           overlapped => overlapped', torn => torn'
    PROVE  FailEffect(g)
<1>1. /\ InCall(g) /\ call \in [Goroutines -> Calls] /\ program = "up"
  BY DEF TypeInv, Shapes, Wired, Saving
<1>2. call'[g] = NoCall /\ OnlyCall(g) /\ NoCall.at = "idle"
  BY <1>1 DEF SaveFails, Return, OnlyCall, NoCall
<1>3. CASE call[g].section = "settings"
  BY <1>1, <1>2, <1>3 DEF FailEffect, SaveFails, Undo, Unlock, InCall
<1>4. CASE call[g].section # "settings"
  <2>1. call[g].section \in Editable /\ call[g].object \in 1 .. Len(objects)
    BY <1>1 DEF InCall
  <2>2. Put(call[g].object, call[g].section, call[g].undo)
    BY <1>4, <2>1, ExceptPuts DEF SaveFails, Undo
  <2> QED
    BY <1>1, <1>2, <1>4, <2>1, <2>2 DEF FailEffect, SaveFails, Undo, Unlock, InCall, Editable
<1> QED
  BY <1>3, <1>4

\* What a step of a save does.
LEMMA SaveDoes ==
    ASSUME TypeInv, NEW g \in Goroutines, SaveStep(g)
    PROVE  FailEffect(g) \/ GoesOnEffect(g) \/ WriteEffect(g)
<1>1. InCall(g) /\ call \in [Goroutines -> Calls] /\ call[g] \in Calls /\ saved \in Documents
  BY DEF TypeInv, Shapes
<1>2. call[g].at # "idle" => program = "up"
  BY DEF TypeInv, Wired
<1>3. CASE ReadFile(g)
  <2>1. CASE SaveFails(g) /\ UNCHANGED overlapped
    BY <1>3, <2>1, FailDoes DEF ReadFile, At, Saving, unchangedBySave
  <2>2. CASE ~(SaveFails(g) /\ UNCHANGED overlapped)
    <3>1. /\ call' = [call EXCEPT ![g].at = "truncate", ![g].read = Decoded(yaml)]
          /\ UNCHANGED <<mu, cfgMu, objects, unsaved>>
          /\ overlapped => overlapped'
      BY <1>3, <2>2 DEF ReadFile
    <3>2. /\ call'[g].at = "truncate" /\ OnlyCall(g)
          /\ call'[g].section = call[g].section /\ call'[g].object = call[g].object
          /\ call'[g].undo = call[g].undo
      BY <1>1, <3>1 DEF Calls, OnlyCall
    <3> QED
      BY <1>2, <1>3, <3>1, <3>2 DEF GoesOnEffect, ReadFile, At, Saving, unchangedBySave
  <2> QED
    BY <2>1, <2>2
<1>4. CASE Truncate(g)
  <2>1. CASE SaveFails(g)
    BY <1>4, <2>1, FailDoes DEF Truncate, At, Saving, unchangedBySave
  <2>2. CASE ~SaveFails(g)
    <3>1. /\ call' = [call EXCEPT ![g].at = "write"]
          /\ UNCHANGED <<mu, cfgMu, objects, unsaved>>
      BY <1>4, <2>2 DEF Truncate, Goto
    <3>2. /\ call'[g].at = "write" /\ OnlyCall(g)
          /\ call'[g].section = call[g].section /\ call'[g].object = call[g].object
          /\ call'[g].undo = call[g].undo
      BY <1>1, <3>1 DEF Calls, OnlyCall
    <3> QED
      BY <1>2, <1>4, <3>1, <3>2 DEF GoesOnEffect, Truncate, At, Saving, unchangedBySave
  <2> QED
    BY <2>1, <2>2
<1>5. CASE WriteFile(g)
  <2>1. call[g].at = "write" /\ call[g].section \in Editable /\ call[g].object \in 1 .. Len(objects)
    BY <1>1, <1>5 DEF WriteFile, At, InCall, Saving
  <2>2. call'[g].at \in {"idle", "reload"} /\ OnlyCall(g)
    BY <1>1, <1>5 DEF WriteFile, OnlyCall, NoCall
  <2>3. ASSUME NEW s \in Editable
        PROVE  saved'[s] = IF s = call[g].section THEN objects[call[g].object][s] ELSE saved[s]
    <3>1. saved' = [saved EXCEPT ![call[g].section] = Patched(g)[call[g].section]]
      BY <1>5 DEF WriteFile
    <3>2. Patched(g)[call[g].section] = objects[call[g].object][call[g].section]
      BY <1>1, <2>1 DEF Patched, Calls, Documents, Sections
    <3>3. call[g].section \in Sections /\ s \in Sections
      BY <2>1 DEF Sections
    <3> QED
      BY <1>1, <3>1, <3>2, <3>3 DEF Documents
  <2>4. \/ call[g].section = "settings" /\ cfgMu = g /\ cfgMu' = None /\ mu' = mu /\ ~unsaved'
        \/ /\ call[g].section \in {"subs", "nodes"} /\ mu = g /\ mu' = None /\ cfgMu' = cfgMu
           /\ (unsaved => unsaved')
    <3>1. CASE call[g].section = "settings"
      BY <1>1, <1>5, <2>1, <3>1 DEF WriteFile, Unlock, InCall, Saving
    <3>2. CASE call[g].section # "settings"
      BY <1>1, <1>5, <2>1, <3>2 DEF WriteFile, Unlock, InCall, Saving, Editable
    <3> QED
      BY <3>1, <3>2
  <2> QED
    BY <1>2, <1>5, <2>1, <2>2, <2>3, <2>4 DEF WriteEffect, WriteFile, unchangedBySave
<1>6. CASE WriteFails(g)
  BY <1>6, FailDoes DEF WriteFails, At, Saving, unchangedBySave
<1> QED
  BY <1>3, <1>4, <1>5, <1>6 DEF SaveStep

\* What a reload does to m.cfg, the server's object and the calls.
ReloadEffect(g) ==
    /\ program = "up" /\ OnlyCall(g)
    /\ UNCHANGED <<yaml, program, mu, cfgMu, bound, saved, overlapped, torn, unsaved>>
    /\ (astray => astray')
    /\ call[g].at \notin Saving /\ call'[g].at \notin Saving

\* A new object, at the end of the list: a copy of the one named.
CopyEffect(g, object) ==
    /\ ReloadEffect(g) /\ UNCHANGED <<cfg, cfgSrc, shown>>
    /\ object \in 1 .. Len(objects) /\ Len(objects') = Len(objects) + 1
    /\ objects'[Len(objects) + 1] = objects[object]
    /\ \A i \in 1 .. Len(objects) : objects'[i] = objects[i]
    /\ call'[g].at = "copied" /\ call'[g].object = Len(objects) + 1

BeginEffect(g) ==
    /\ ReloadEffect(g) /\ UNCHANGED <<objects, cfg, cfgSrc, shown>>
    /\ call[g].at = "copied" /\ mu = None
    /\ \/ call'[g].at = "loading" /\ call'[g].object = call[g].object /\ call'[g].old = cfg
       \/ call'[g].at = "idle"

PublishEffect(g) ==
    /\ ReloadEffect(g) /\ UNCHANGED <<objects, cfgSrc, shown>>
    /\ call[g].at = "loading" /\ mu = None
    /\ cfg' \in {call[g].object, call[g].old}
    /\ call'[g].at = "bind" /\ call'[g].object = cfg'

DieEffect(g) ==
    /\ ReloadEffect(g) /\ UNCHANGED <<objects, cfg, cfgSrc, shown>>
    /\ call'[g].at = "idle"

TellEffect(g) ==
    /\ ReloadEffect(g) /\ UNCHANGED <<objects, cfg>>
    /\ call[g].at = "bind" /\ call'[g].at = "idle" /\ cfgMu = None
    /\ call[g].object \in 1 .. Len(objects)
    /\ cfgSrc' = call[g].object /\ shown' = objects[cfgSrc']["settings"]

\* A new call of a reload, by TriggerReload or after a refresh.
LEMMA CopyDoes ==
    ASSUME TypeInv, NEW g \in Goroutines, NewReload(g)
    PROVE  \/ CopyEffect(g, cfg) /\ mu = None
           \/ CopyEffect(g, 1) /\ (~astray' => mu = None /\ objects[1] = objects[cfg])
<1>1. /\ objects \in Seq(Configs) /\ Len(objects) \in Nat /\ call \in [Goroutines -> Calls]
      /\ program = "up" /\ cfg \in 1 .. Len(objects)
  BY DEF NewReload, TypeInv, Wired, Shapes
<1>2. ASSUME NEW object \in 1 .. Len(objects), CopyObject(g, object),
             call[g].at \in {"idle", "reload"}, astray => astray',
             UNCHANGED <<yaml, program, mu, cfgMu, cfg, cfgSrc, bound, shown, saved,
                         overlapped, torn, unsaved>>
      PROVE  CopyEffect(g, object)
  <2>1. /\ Len(objects') = Len(objects) + 1
        /\ objects'[Len(objects) + 1] = objects[object]
        /\ \A i \in 1 .. Len(objects) : objects'[i] = objects[i]
    <3>1. objects[object] \in Configs /\ objects' = Append(objects, objects[object])
      BY <1>1, <1>2, ElementOfSeq DEF CopyObject
    <3> QED
      BY <1>1, <3>1, AppendProperties
  <2>2. call'[g].at = "copied" /\ call'[g].object = Len(objects) + 1 /\ OnlyCall(g)
    BY <1>1, <1>2 DEF CopyObject, OnlyCall, NoCall
  <2> QED
    BY <1>1, <1>2, <2>1, <2>2 DEF CopyEffect, ReloadEffect, Saving
<1>3. CASE TriggerReload(g)
  BY <1>1, <1>2, <1>3 DEF TriggerReload, At, history
<1>4. CASE Refresh(g)
  <2>1. 1 \in 1 .. Len(objects)
    BY <1>1
  <2>2. CopyEffect(g, 1)
    BY <1>2, <1>4, <2>1 DEF Refresh, At
  <2> QED
    BY <1>4, <2>2 DEF Refresh
<1> QED
  BY <1>3, <1>4 DEF NewReload

\* The later steps of a reload.
LEMMA ReloadDoes ==
    ASSUME TypeInv, NEW g \in Goroutines, ReloadStep(g)
    PROVE  BeginEffect(g) \/ PublishEffect(g) \/ DieEffect(g) \/ TellEffect(g)
<1>1. InCall(g) /\ call \in [Goroutines -> Calls] /\ call[g] \in Calls
  BY DEF TypeInv, Shapes
<1>2. call[g].at # "idle" => program = "up"
  BY DEF TypeInv, Wired
<1>3. CASE BeginReload(g)
  <2>1. /\ call[g].at = "copied" /\ mu = None
        /\ UNCHANGED <<yaml, program, mu, cfgMu, objects, cfg, cfgSrc, bound, shown, history>>
    BY <1>3 DEF BeginReload, At
  <2>2. CASE call' = [call EXCEPT ![g].at = "loading", ![g].old = cfg]
    <3>1. /\ call'[g].at = "loading" /\ call'[g].object = call[g].object
          /\ call'[g].old = cfg /\ OnlyCall(g)
      BY <1>1, <2>2 DEF Calls, OnlyCall
    <3> QED
      BY <1>2, <2>1, <3>1 DEF BeginEffect, ReloadEffect, history, Saving
  <2>3. CASE Return(g)
    <3>1. call'[g].at = "idle" /\ OnlyCall(g)
      BY <1>1, <2>3 DEF Return, NoCall, OnlyCall
    <3> QED
      BY <1>2, <2>1, <3>1 DEF BeginEffect, ReloadEffect, history, Saving
  <2> QED
    BY <1>3, <2>2, <2>3 DEF BeginReload
<1>4. CASE Publish(g)
  <2>1. /\ call'[g].at = "bind" /\ call'[g].object = cfg' /\ OnlyCall(g)
        /\ cfg' \in {call[g].object, call[g].old}
    BY <1>1, <1>4 DEF Publish, OnlyCall, Calls
  <2> QED
    BY <1>2, <1>4, <2>1 DEF Publish, PublishEffect, ReloadEffect, history, Saving, At
<1>5. CASE ReloadDies(g)
  <2>1. call'[g].at = "idle" /\ OnlyCall(g)
    BY <1>1, <1>5 DEF ReloadDies, Return, NoCall, OnlyCall
  <2> QED
    BY <1>2, <1>5, <2>1 DEF ReloadDies, DieEffect, ReloadEffect, history, Saving, At
<1>6. CASE TellServer(g)
  <2>1. call'[g].at = "idle" /\ OnlyCall(g)
    BY <1>1, <1>6 DEF TellServer, Return, NoCall, OnlyCall
  <2>2. call[g].at = "bind" /\ call[g].object \in 1 .. Len(objects)
    BY <1>1, <1>6 DEF TellServer, InCall, At
  <2> QED
    BY <1>2, <1>6, <2>1, <2>2
    DEF TellServer, SetConfig, TellEffect, ReloadEffect, history, Saving
<1> QED
  BY <1>3, <1>4, <1>5, <1>6 DEF ReloadStep

\* The steps of the program as a whole: it starts, dies, or idles.
RestEffect ==
    \/ program' # "up" /\ (UNCHANGED <<mu, cfgMu, call>> \/ (mu' = None /\ cfgMu' = None))
    \/ /\ program = "boot" /\ yaml \in Documents /\ \A g \in Goroutines : call'[g].at = "idle"
       /\ cfgSrc' = 0 /\ ~bound' /\ Len(objects') = 1 /\ cfg' = 1
       /\ \A s \in Editable : objects'[1][s] = yaml[s]
       /\ UNCHANGED <<mu, cfgMu, saved, overlapped, torn, unsaved, astray>>
    \/ /\ program = "up"
       /\ UNCHANGED <<program, mu, objects, cfg, call, saved, overlapped, torn, astray, cfgMu>>
       /\ \/ UNCHANGED <<cfgSrc, bound, shown, unsaved>>
          \/ /\ cfgMu = None /\ ~bound /\ bound' /\ cfgSrc' = 1 /\ unsaved' = unsaved
             /\ shown' = objects[1]["settings"]
          \/ ~bound /\ UNCHANGED <<cfgSrc, bound, unsaved>>
    \/ /\ program = "up" /\ cfgMu = None /\ unsaved'
       /\ UNCHANGED <<program, mu, cfgMu, cfg, cfgSrc, bound, shown, call, saved, overlapped,
                      torn, astray>>
       /\ cfgSrc \in 1 .. Len(objects) /\ Put(cfgSrc, "settings", edits + 2)

\* A start loads what the file holds; wiring and refused requests change one thing.
LEMMA RestDoes ==
    ASSUME TypeInv,
           \/ CreateDefault \/ WriteDefault \/ Load \/ Refuse \/ BindServer \/ Crash
           \/ program = "up" /\ (SettingsRefused \/ SettingsRejected)
           \/ UNCHANGED vars
    PROVE  RestEffect
<1>1. CASE CreateDefault \/ WriteDefault \/ Refuse \/ Crash
  BY <1>1 DEF CreateDefault, WriteDefault, Refuse, Crash, RestEffect, process
<1>2. CASE Load
  <2>1. /\ program = "boot" /\ yaml \in Documents /\ cfgSrc' = 0 /\ ~bound'
        /\ \A g \in Goroutines : call'[g].at = "idle"
        /\ UNCHANGED <<mu, cfgMu, saved, overlapped, torn, unsaved, astray>>
    BY <1>2 DEF Load, Loadable, TypeInv, Wired, history
  <2>2. Len(objects') = 1 /\ cfg' = 1 /\ \A s \in Editable : objects'[1][s] = yaml[s]
    BY <1>2, <2>1 DEF Load, Section, Decoded
  <2> QED
    BY <2>1, <2>2 DEF RestEffect
<1>3. CASE BindServer
  BY <1>3 DEF BindServer, SetConfig, RestEffect, history
<1>4. CASE program = "up" /\ SettingsRefused
  BY <1>4 DEF SettingsRefused, RestEffect, TypeInv, Wired, history
<1>5. CASE program = "up" /\ SettingsRejected
  <2>1. cfgSrc \in 1 .. Len(objects) /\ "settings" \in Editable
    BY <1>5 DEF SettingsRejected, TypeInv, Shapes, Editable
  <2>2. Put(cfgSrc, "settings", edits + 2)
    BY <1>5, <2>1, ExceptPuts DEF SettingsRejected
  <2> QED
    BY <1>5, <2>1, <2>2 DEF SettingsRejected, RestEffect
<1>6. CASE UNCHANGED vars
  BY <1>6 DEF vars, process, history, RestEffect
<1> QED
  BY <1>1, <1>2, <1>3, <1>4, <1>5, <1>6

\* Every step is one of those.
Effect ==
    \/ RestEffect
    \/ \E g \in Goroutines :
           \/ \E section \in Editable, object \in {cfg, cfgSrc} : EditEffect(g, section, object)
           \/ FailEffect(g) \/ GoesOnEffect(g) \/ WriteEffect(g)
           \/ CopyEffect(g, cfg) /\ mu = None
           \/ CopyEffect(g, 1) /\ (~astray' => mu = None /\ objects[1] = objects[cfg])
           \/ BeginEffect(g) \/ PublishEffect(g) \/ DieEffect(g) \/ TellEffect(g)

\* What the proofs below go through, case by case.
LEMMA StepDoes == TypeInv /\ [Next]_vars => Effect
<1> SUFFICES ASSUME TypeInv, [Next]_vars PROVE Effect
  OBVIOUS
<1>1. CASE \E g \in Goroutines : Edit(g) \/ SaveStep(g) \/ NewReload(g) \/ ReloadStep(g)
  BY <1>1, EditDoes, SaveDoes, CopyDoes, ReloadDoes DEF Effect
<1>2. CASE ~\E g \in Goroutines : Edit(g) \/ SaveStep(g) \/ NewReload(g) \/ ReloadStep(g)
  BY <1>2, RestDoes DEF Effect, Next, Ended
<1> QED
  BY <1>1, <1>2

-----------------------------------------------------------------------------
(* The locks *)

\* Nobody holds a mutex at the start.
LEMMA LockInit == Init => LockInv
  BY DEF Init, LockInv

\* Every step keeps LockInv: each way out of a save gives its mutex back.
LEMMA LockStep == TypeInv /\ LockInv /\ [Next]_vars => LockInv'
<1> SUFFICES ASSUME TypeInv, LockInv, Effect PROVE LockInv'
  BY StepDoes
<1>0. /\ mu \in Goroutines \cup {None} /\ cfgMu \in Goroutines \cup {None}
      /\ \A g \in Goroutines : InCall(g)
  BY DEF TypeInv, Shapes
<1>1. CASE RestEffect
  <2>1. CASE mu' = None /\ cfgMu' = None
    BY <2>1 DEF LockInv
  <2>2. CASE program = "boot"
    BY <1>0, <1>1, <2>1, <2>2 DEF RestEffect, LockInv, TypeInv, Wired, Saving
  <2>3. CASE UNCHANGED <<mu, cfgMu, call>>
    BY <2>3 DEF LockInv
  <2> QED
    BY <1>1, <2>1, <2>2, <2>3 DEF RestEffect
<1>2. ASSUME NEW g \in Goroutines, NEW section, NEW object, EditEffect(g, section, object)
      PROVE  LockInv'
  BY <1>0, <1>2 DEF EditEffect, LockInv, OnlyCall, Saving, InCall
<1>3. ASSUME NEW g \in Goroutines, FailEffect(g) \/ GoesOnEffect(g) \/ WriteEffect(g)
      PROVE  LockInv'
  BY <1>0, <1>3 DEF FailEffect, GoesOnEffect, WriteEffect, LockInv, OnlyCall, InCall, Saving
<1>4. ASSUME NEW g \in Goroutines, ReloadEffect(g) PROVE LockInv'
  BY <1>0, <1>4 DEF ReloadEffect, LockInv, OnlyCall
<1> QED
  BY <1>1, <1>2, <1>3, <1>4
  DEF Effect, CopyEffect, BeginEffect, PublishEffect, DieEffect, TellEffect

-----------------------------------------------------------------------------
(* Memory and disk *)

\* Nodes and subscriptions: what the box manager's mutex protects.
Body == {"subs", "nodes"}

\* The objects that are m.cfg, or may still become it.
Candidate(i) ==
    \/ i = cfg
    \/ \E g \in Goroutines : call[g].at \in {"copied", "loading"} /\ i = call[g].object
    \/ \E g \in Goroutines : call[g].at = "loading" /\ i = call[g].old

\* While nobody saves them, the nodes and subscriptions are the same in every
\* such object, and are those saved.  While somebody does there is no such
\* object but m.cfg, which has the saved ones but for the section in question,
\* whose saved value the saver keeps.
MemInv ==
    Undisturbed =>
    IF mu = None
    THEN \A i \in 1 .. Len(objects) : Candidate(i) => \A s \in Body : objects[i][s] = saved[s]
    ELSE /\ ~Reloading({"copied", "loading"})
         /\ call[mu].object = cfg
         /\ \A s \in Body :
                IF s = call[mu].section THEN call[mu].undo = saved[s]
                ELSE objects[cfg][s] = saved[s]

\* There is nothing in memory at the start.
LEMMA MemInit == Init => MemInv
  BY DEF Init, MemInv, Undisturbed

\* A step of the program as a whole keeps MemInv: a start finds what was saved.
LEMMA MemRest == TypeInv /\ SaveInv /\ LockInv /\ MemInv /\ RestEffect => MemInv'
<1> SUFFICES ASSUME TypeInv, SaveInv, LockInv, MemInv, RestEffect, Undisturbed'
             PROVE  MemInv'
  BY DEF MemInv
<1>0. /\ mu \in Goroutines \cup {None}
      /\ "subs" \in Editable /\ "nodes" \in Editable /\ "settings" \notin Body
  BY DEF TypeInv, Shapes, Editable, Body
<1>1. CASE program = "boot"
  <2>1. /\ yaml = saved /\ mu = None /\ mu' = None
        /\ \A g \in Goroutines : call'[g].at = "idle"
        /\ Len(objects') = 1 /\ cfg' = 1 /\ saved' = saved
        /\ \A s \in Editable : objects'[1][s] = yaml[s]
    <3>1. mu = None
      BY <1>0, <1>1 DEF TypeInv, Wired, LockInv, Saving
    <3> QED
      BY <1>1, <3>1, FileAssumption DEF RestEffect, Undisturbed, SaveInv
  <2>2. \A i : Candidate(i)' => i = 1
    BY <2>1 DEF Candidate
  <2> QED
    BY <1>0, <2>1, <2>2 DEF MemInv, Body
<1>2. CASE /\ program = "up"
           /\ UNCHANGED <<program, mu, objects, cfg, call, saved, overlapped, torn, astray>>
  BY <1>2 DEF MemInv, Undisturbed, Candidate, Reloading
<1>3. CASE /\ program = "up" /\ Put(cfgSrc, "settings", edits + 2)
           /\ UNCHANGED <<program, mu, cfg, call, saved, overlapped, torn, astray>>
  <2>1. MemInv /\ Undisturbed
    BY <1>3 DEF Undisturbed
  <2>2. cfg \in 1 .. Len(objects)
    BY <1>3 DEF TypeInv, Wired, Shapes
  <2>3. /\ Len(objects') = Len(objects)
        /\ \A i \in 1 .. Len(objects) : \A s \in Body : objects'[i][s] = objects[i][s]
    BY <1>0, <1>3 DEF Put, Body
  <2> QED
    BY <1>3, <2>1, <2>2, <2>3 DEF MemInv, Candidate, Reloading
<1> QED
  BY <1>1, <1>2, <1>3 DEF RestEffect, Undisturbed

\* A step of a save keeps MemInv: what is written is what m.cfg has, and what
\* is not written is undone.
LEMMA MemSave ==
    ASSUME TypeInv, LockInv, MemInv, NEW g \in Goroutines,
           FailEffect(g) \/ GoesOnEffect(g) \/ WriteEffect(g)
    PROVE  MemInv'
<1> SUFFICES ASSUME Undisturbed' PROVE MemInv'
  BY DEF MemInv
<1>0. /\ mu \in Goroutines \cup {None} /\ MemInv /\ Undisturbed
      /\ cfg \in 1 .. Len(objects)
      /\ "subs" \in Editable /\ "nodes" \in Editable /\ "settings" \notin Body
  BY DEF TypeInv, Shapes, Wired, Editable, Body, Undisturbed, FailEffect, GoesOnEffect, WriteEffect
<1>1. \A h \in Goroutines : call'[h] = call[h] \/ call'[h].at \notin {"copied", "loading"}
  BY DEF FailEffect, GoesOnEffect, WriteEffect, OnlyCall, Saving
<1>2. ~Reloading({"copied", "loading"}) => ~Reloading({"copied", "loading"})'
  BY <1>1 DEF Reloading
<1>3. cfg' = cfg /\ \A i : Candidate(i)' => Candidate(i)
  <2>1. cfg' = cfg
    BY DEF FailEffect, GoesOnEffect, WriteEffect
  <2> QED
    BY <1>1, <2>1 DEF Candidate
<1>4. ~Reloading({"copied", "loading"}) => \A i : Candidate(i) => i = cfg
  BY DEF Candidate, Reloading
<1>5. CASE UNCHANGED mu
  <2>1. mu # None => mu # g \/ GoesOnEffect(g)
    BY <1>5, ConfigAssumption DEF FailEffect, WriteEffect, LockInv
  <2>2. mu # None => call'[mu].object = call[mu].object /\ call'[mu].undo = call[mu].undo
                     /\ call'[mu].section = call[mu].section
    BY <1>0, <2>1 DEF FailEffect, WriteEffect, GoesOnEffect, OnlyCall
  <2>3. /\ Len(objects') = Len(objects)
        /\ \A i \in 1 .. Len(objects) : \A s \in Body : objects'[i][s] = objects[i][s]
        /\ \A s \in Body : saved'[s] = saved[s]
    BY <1>0, <1>5, ConfigAssumption DEF FailEffect, WriteEffect, GoesOnEffect, Body
  <2> QED
    BY <1>0, <1>2, <1>3, <1>5, <2>2, <2>3 DEF MemInv
<1>6. CASE mu' # mu
  <2>1. mu = g /\ mu' = None /\ g # None /\ call[g].section \in Body
    BY <1>6, ConfigAssumption DEF FailEffect, WriteEffect, GoesOnEffect, Body
  <2>2. /\ call[g].object = cfg /\ Len(objects') = Len(objects)
        /\ \A i : Candidate(i)' => i = cfg
    BY <1>0, <1>3, <1>4, <2>1 DEF MemInv, FailEffect, WriteEffect, GoesOnEffect, Put
  <2>3. ASSUME NEW s \in Body PROVE objects'[cfg][s] = saved'[s]
    <3>1. CASE FailEffect(g)
      BY <1>0, <2>1, <2>2, <3>1 DEF MemInv, FailEffect, Put, Body
    <3>2. CASE WriteEffect(g)
      BY <1>0, <2>1, <2>2, <3>2 DEF MemInv, WriteEffect, Body
    <3> QED
      BY <1>6, <3>1, <3>2 DEF GoesOnEffect
  <2> QED
    BY <2>1, <2>2, <2>3 DEF MemInv
<1> QED
  BY <1>5, <1>6

\* A step of a reload keeps MemInv: it moves m.cfg among objects that agree.
LEMMA MemReload ==
    ASSUME TypeInv, LockInv, MemInv, NEW g \in Goroutines,
           \/ CopyEffect(g, cfg) /\ mu = None
           \/ CopyEffect(g, 1) /\ (~astray' => mu = None /\ objects[1] = objects[cfg])
           \/ BeginEffect(g) \/ PublishEffect(g) \/ DieEffect(g) \/ TellEffect(g)
    PROVE  MemInv'
<1> SUFFICES ASSUME Undisturbed' PROVE MemInv'
  BY DEF MemInv
<1>0. /\ ReloadEffect(g) /\ mu \in Goroutines \cup {None} /\ Len(objects) \in Nat
      /\ mu' = mu /\ saved' = saved
  BY DEF TypeInv, Shapes, CopyEffect, BeginEffect, PublishEffect, DieEffect, TellEffect,
         ReloadEffect
<1>1. /\ MemInv /\ Undisturbed /\ cfg \in 1 .. Len(objects)
      /\ \A h \in Goroutines : InCall(h)
  BY <1>0 DEF TypeInv, Shapes, Wired, Undisturbed, ReloadEffect
<1>2. CASE \E object \in {cfg, 1} : CopyEffect(g, object)
  <2>1. /\ mu = None /\ Len(objects') = Len(objects) + 1 /\ cfg' = cfg
        /\ objects'[Len(objects) + 1] = objects[cfg]
        /\ \A i \in 1 .. Len(objects) : objects'[i] = objects[i]
        /\ call'[g].at = "copied" /\ call'[g].object = Len(objects) + 1
    BY <1>2 DEF CopyEffect, Undisturbed, BeginEffect, PublishEffect, DieEffect, TellEffect
  <2>2. \A i \in 1 .. Len(objects') : Candidate(i)' => Candidate(i) \/ i = Len(objects) + 1
    BY <1>0, <2>1 DEF Candidate, ReloadEffect, OnlyCall
  <2>3. Candidate(cfg)
    BY DEF Candidate
  <2>4. ASSUME NEW i \in 1 .. Len(objects'), Candidate(i)', NEW s \in Body
        PROVE  objects'[i][s] = saved'[s]
    <3>1. CASE i = Len(objects) + 1
      BY <1>0, <1>1, <2>1, <2>3, <3>1 DEF MemInv
    <3>2. CASE i # Len(objects) + 1
      BY <1>0, <1>1, <2>1, <2>2, <2>4, <3>2 DEF MemInv
    <3> QED
      BY <3>1, <3>2
  <2> QED
    BY <1>0, <2>1, <2>4 DEF MemInv
<1>3. CASE BeginEffect(g) \/ PublishEffect(g)
  <2>1. \A i : Candidate(i)' => Candidate(i)
    BY <1>0, <1>3 DEF Candidate, BeginEffect, PublishEffect, ReloadEffect, OnlyCall
  <2>2. mu = None /\ objects' = objects
    BY <1>3 DEF BeginEffect, PublishEffect
  <2> QED
    BY <1>0, <1>1, <2>1, <2>2 DEF MemInv
<1>4. CASE DieEffect(g) \/ TellEffect(g)
  <2>1. /\ \A h \in Goroutines : call'[h] = call[h] \/ call'[h].at = "idle"
        /\ cfg' = cfg /\ objects' = objects
    BY <1>0, <1>4 DEF DieEffect, TellEffect, ReloadEffect, OnlyCall
  <2>2. \A i : Candidate(i)' => Candidate(i)
    BY <2>1 DEF Candidate
  <2>3. Reloading({"copied", "loading"})' => Reloading({"copied", "loading"})
    BY <2>1 DEF Reloading
  <2>4. mu # None => call'[mu] = call[mu]
    BY <1>0 DEF ReloadEffect, OnlyCall, LockInv
  <2> QED
    BY <1>0, <1>1, <2>1, <2>2, <2>3, <2>4 DEF MemInv
<1> QED
  BY <1>2, <1>3, <1>4

\* Every step keeps MemInv.
LEMMA MemStep == TypeInv /\ SaveInv /\ LockInv /\ MemInv /\ [Next]_vars => MemInv'
<1> SUFFICES ASSUME TypeInv, SaveInv, LockInv, MemInv, Effect PROVE MemInv'
  BY StepDoes
<1>1. ASSUME NEW g \in Goroutines, NEW section, NEW object, EditEffect(g, section, object)
      PROVE  MemInv'
  <2> SUFFICES ASSUME Undisturbed' PROVE MemInv'
    BY DEF MemInv
  <2>01. Undisturbed
    BY <1>1 DEF Undisturbed, EditEffect
  <2>0. /\ mu \in Goroutines \cup {None} /\ Undisturbed /\ MemInv
        /\ Len(objects) \in Nat /\ cfg \in 1 .. Len(objects)
        /\ "subs" \in Editable /\ "nodes" \in Editable /\ "settings" \notin Body
    BY <2>01 DEF TypeInv, Shapes, Wired, Undisturbed, Body, Editable
  <2>1. \A h \in Goroutines : call'[h] = call[h] \/ call'[h].at = "read"
    BY <1>1 DEF EditEffect, OnlyCall
  <2>2. /\ cfg' = cfg /\ saved' = saved /\ Len(objects') = Len(objects)
        /\ \A i : Candidate(i)' => Candidate(i)
    BY <1>1, <2>1 DEF EditEffect, Candidate, Put
  <2>3. Reloading({"copied", "loading"})' => Reloading({"copied", "loading"})
    BY <2>1 DEF Reloading
  <2>4. CASE section = "settings"
    <3>1. /\ mu' = mu
          /\ \A i \in 1 .. Len(objects) : \A s \in Body : objects'[i][s] = objects[i][s]
      BY <1>1, <2>0, <2>4 DEF EditEffect, Put, Body
    <3>2. mu # None => call'[mu] = call[mu]
      BY <1>1, <2>0 DEF EditEffect, OnlyCall, LockInv, Saving
    <3> QED
      BY <2>0, <2>2, <2>3, <3>1, <3>2 DEF MemInv
  <2>5. CASE section # "settings"
    <3>1. /\ section \in Body /\ object = cfg /\ mu = None /\ mu' = g /\ g # None
          /\ call'[g].object = cfg /\ call'[g].section = section
          /\ call'[g].undo = objects[cfg][section]
      BY <1>1, <2>5, ConfigAssumption DEF EditEffect, Body
    <3>2. ~Reloading({"copied", "loading"})
      BY <1>1 DEF EditEffect, Undisturbed, Astray
    <3>3. \A s \in Body : objects[cfg][s] = saved[s]
      BY <2>0, <3>1 DEF MemInv, Candidate
    <3>4. \A s \in Body \ {section} : objects'[cfg][s] = objects[cfg][s]
      BY <1>1, <2>0, <3>1 DEF EditEffect, Put, Body
    <3> QED
      BY <2>2, <2>3, <3>1, <3>2, <3>3, <3>4 DEF MemInv
  <2> QED
    BY <2>4, <2>5
<1> QED
  BY <1>1, MemRest, MemSave, MemReload DEF Effect

\* Memory agrees with the file (Manager.UpdateSubscriptionConfig, CreateNode,
\* Reload, copyConfigLocked): with no edit of them under way, m.cfg holds the
\* subscriptions and nodes config.yaml holds, unless two saves overlapped, a
\* write failed half way, or an edit met a reload, whatever fails or crashes.
THEOREM MemoryFollowsDisk == Spec => []MemoryIsOnDisk
<1>1. TypeInv /\ SaveInv /\ MemInv => MemoryIsOnDisk
  <2> SUFFICES ASSUME TypeInv, SaveInv, MemInv, Undisturbed, mu = None,
                      \A g \in Goroutines : ~At(g, "write"), NEW s \in Body
               PROVE  objects[cfg][s] = yaml[s]
    BY DEF MemoryIsOnDisk, Undisturbed, Body
  <2>1. yaml = saved
    BY DEF SaveInv, Undisturbed, At
  <2>2. cfg \in 1 .. Len(objects) /\ Candidate(cfg)
    BY DEF TypeInv, Wired, Shapes, Undisturbed, Candidate
  <2> QED
    BY <2>1, <2>2 DEF MemInv
<1> QED
  BY <1>1, TypeInit, TypeStep, SaveInit, SaveStepInv, LockInit, LockStep, MemInit, MemStep, PTL
  DEF Spec

-----------------------------------------------------------------------------
(* The settings the server shows *)

\* The objects that are m.cfg or the server's, or may still become one of them.
InUse(i) ==
    \/ i \in {cfg, cfgSrc}
    \/ i = 1 /\ ~bound
    \/ \E g \in Goroutines : call[g].at \in {"copied", "loading", "bind"} /\ i = call[g].object
    \/ \E g \in Goroutines : call[g].at = "loading" /\ i = call[g].old

\* The settings that are in force: those saved, or those being saved.
Current == IF cfgMu = None THEN saved["settings"] ELSE objects[cfgSrc]["settings"]

\* A settings request that is saving has found the server wired, and saves its
\* object.  Unless an earlier request has failed, and for as long as another
\* one has not yet put things right, every object in use has the settings in
\* force, and the server shows them.
ShownInv ==
    Undisturbed =>
    /\ cfgMu # None => bound /\ call[cfgMu].object = cfgSrc
    /\ cfgMu # None \/ ~unsaved =>
           /\ \A i \in 1 .. Len(objects) : InUse(i) => objects[i]["settings"] = Current
           /\ bound => shown = Current

\* There is nothing in memory at the start.
LEMMA ShownInit == Init => ShownInv
  BY DEF Init, ShownInv, Undisturbed

\* A step of the program as a whole keeps ShownInv: a start finds what was
\* saved, and the wiring takes the settings of the first object.
LEMMA ShownRest == TypeInv /\ SaveInv /\ LockInv /\ ShownInv /\ RestEffect => ShownInv'
<1> SUFFICES ASSUME TypeInv, SaveInv, LockInv, ShownInv, RestEffect, Undisturbed'
             PROVE  ShownInv'
  BY DEF ShownInv
<1>0. cfgMu \in Goroutines \cup {None} /\ "settings" \in Editable
  BY DEF TypeInv, Shapes, Editable
<1>1. CASE program = "boot"
  <2>1. cfgMu = None
    BY <1>0, <1>1 DEF TypeInv, Wired, LockInv, Saving
  <2>2. /\ yaml = saved /\ cfgMu' = None
        /\ \A g \in Goroutines : call'[g].at = "idle"
        /\ ~bound' /\ Len(objects') = 1 /\ saved' = saved
        /\ \A s \in Editable : objects'[1][s] = yaml[s]
    BY <1>1, <2>1, FileAssumption DEF RestEffect, Undisturbed, SaveInv
  <2> QED
    BY <1>0, <2>2 DEF ShownInv, Current
<1>2. CASE program = "up" /\ UNCHANGED <<program, mu, objects, cfg, call, saved, overlapped,
                                         torn, astray, cfgMu>>
  <2>1. ShownInv /\ Undisturbed /\ cfg \in 1 .. Len(objects)
    BY <1>2 DEF Undisturbed, TypeInv, Wired, Shapes
  <2>2. CASE UNCHANGED <<cfgSrc, bound, shown, unsaved>>
    BY <1>2, <2>1, <2>2 DEF ShownInv, InUse, Current
  <2>3. CASE /\ cfgMu = None /\ ~bound /\ bound' /\ cfgSrc' = 1 /\ unsaved' = unsaved
             /\ shown' = objects[1]["settings"]
    <3>1. /\ \A i : InUse(i)' => InUse(i)
          /\ InUse(1) /\ 1 \in 1 .. Len(objects)
      BY <1>2, <2>1, <2>3 DEF InUse
    <3> QED
      BY <1>2, <2>1, <2>3, <3>1 DEF ShownInv, Current
  <2>4. CASE ~bound /\ UNCHANGED <<cfgSrc, bound, unsaved>>
    BY <1>2, <2>1, <2>4 DEF ShownInv, InUse, Current
  <2>5. CASE cfgMu = None /\ unsaved'
    BY <1>2, <2>5 DEF ShownInv
  <2> QED
    BY <1>2, <2>2, <2>3, <2>4, <2>5 DEF RestEffect, Undisturbed
<1>3. CASE /\ program = "up" /\ cfgMu = None /\ unsaved'
           /\ UNCHANGED <<program, mu, cfgMu, cfg, cfgSrc, bound, shown, call, saved, overlapped,
                          torn, astray>>
  BY <1>3 DEF ShownInv
<1> QED
  BY <1>1, <1>2, <1>3 DEF RestEffect, Undisturbed

\* A settings edit that does not go astray finds all objects in use to be one,
\* and an edit of another section leaves the settings alone.
LEMMA ShownEdit ==
    ASSUME TypeInv, LockInv, ShownInv, NEW g \in Goroutines, NEW section, NEW object,
           EditEffect(g, section, object)
    PROVE  ShownInv'
<1> SUFFICES ASSUME Undisturbed' PROVE ShownInv'
  BY DEF ShownInv
<1>0. /\ Undisturbed /\ ~Astray(section) /\ cfgMu \in Goroutines \cup {None}
      /\ cfg \in 1 .. Len(objects) /\ Len(objects') = Len(objects)
      /\ "settings" \in Editable /\ g # None
  <2>1. Undisturbed /\ ~Astray(section)
    BY DEF Undisturbed, EditEffect
  <2>2. Len(objects') = Len(objects) /\ g # None
    BY ConfigAssumption DEF EditEffect, Put
  <2> QED
    BY <2>1, <2>2 DEF TypeInv, Shapes, Wired, Undisturbed, Editable
<1>1. \A h \in Goroutines : call'[h] = call[h] \/ call'[h].at = "read"
  BY DEF EditEffect, OnlyCall
<1>2. \A i : InUse(i)' => InUse(i)
  <2>1. UNCHANGED <<cfg, cfgSrc, bound>>
    BY DEF EditEffect
  <2> QED
    BY <1>1, <2>1 DEF InUse
<1>3. CASE section = "settings"
  <2>1. /\ bound /\ cfgSrc = cfg /\ cfgMu' = g /\ shown' = edits + 2 /\ object = cfg
        /\ UNCHANGED <<cfg, cfgSrc, bound>> /\ call'[g].object = cfg
    BY <1>0, <1>3 DEF EditEffect, Astray
  <2>2. \A i : InUse(i)' => i = cfg
    BY <1>0, <1>1, <1>3, <2>1 DEF InUse, Astray, Reloading
  <2>3. objects'[cfg]["settings"] = edits + 2
    BY <1>0, <1>3, <2>1 DEF EditEffect, Put
  <2> QED
    BY <1>0, <2>1, <2>2, <2>3 DEF ShownInv, Current
<1>4. CASE section # "settings"
  <2>1. /\ UNCHANGED <<cfg, cfgSrc, bound, shown, saved, unsaved, cfgMu>>
        /\ \A i \in 1 .. Len(objects) : objects'[i]["settings"] = objects[i]["settings"]
    BY <1>0, <1>4 DEF EditEffect, Put
  <2>2. cfgMu # None => call'[cfgMu] = call[cfgMu]
    BY <1>0 DEF EditEffect, OnlyCall, LockInv, Saving
  <2>3. cfgMu # None => cfgSrc \in 1 .. Len(objects)
    BY <1>0 DEF ShownInv, TypeInv, Wired, Shapes, Undisturbed
  <2>4. Current' = Current
    BY <2>1, <2>3 DEF Current
  <2> QED
    BY <1>0, <1>2, <2>1, <2>2, <2>4 DEF ShownInv
<1> QED
  BY <1>3, <1>4

\* A step of a save keeps ShownInv: the settings in force become the saved ones.
LEMMA ShownSave ==
    ASSUME TypeInv, LockInv, ShownInv, NEW g \in Goroutines,
           FailEffect(g) \/ GoesOnEffect(g) \/ WriteEffect(g)
    PROVE  ShownInv'
<1> SUFFICES ASSUME Undisturbed' PROVE ShownInv'
  BY DEF ShownInv
<1>0. /\ UNCHANGED <<program, cfg, cfgSrc, bound, shown>> /\ Undisturbed /\ g # None
  BY ConfigAssumption DEF FailEffect, GoesOnEffect, WriteEffect, Undisturbed
<1>00. /\ cfgMu \in Goroutines \cup {None} /\ "settings" \in Editable
       /\ "settings" \notin {"subs", "nodes"}
  BY DEF TypeInv, Shapes, Editable
<1>1. \A h \in Goroutines : call'[h] = call[h] \/ call'[h].at \notin {"copied", "loading", "bind"}
  BY DEF FailEffect, GoesOnEffect, WriteEffect, OnlyCall, Saving
<1>2. \A i : InUse(i)' => InUse(i)
  BY <1>0, <1>1 DEF InUse
<1>3. /\ Len(objects') = Len(objects)
      /\ \A i \in 1 .. Len(objects) : objects'[i]["settings"] = objects[i]["settings"]
  BY <1>00 DEF FailEffect, GoesOnEffect, WriteEffect, Put
<1>4. cfgMu # None => bound /\ cfgSrc \in 1 .. Len(objects) /\ call[cfgMu].object = cfgSrc
  BY <1>0 DEF ShownInv, TypeInv, Wired, Shapes, Undisturbed
<1>5. CASE cfgMu' = cfgMu
  <2>1. cfgMu # None => call'[cfgMu].object = call[cfgMu].object
    <3>1. cfgMu # None /\ cfgMu = g => GoesOnEffect(g)
      BY <1>0, <1>5 DEF FailEffect, WriteEffect, LockInv
    <3> QED
      BY <1>00, <3>1 DEF FailEffect, GoesOnEffect, WriteEffect, OnlyCall
  <2>2. saved'["settings"] = saved["settings"] /\ (unsaved => unsaved')
    BY <1>0, <1>00, <1>5 DEF FailEffect, GoesOnEffect, WriteEffect
  <2>3. Current' = Current
    BY <1>0, <1>3, <1>4, <1>5, <2>2 DEF Current
  <2> QED
    BY <1>0, <1>2, <1>3, <1>4, <1>5, <2>1, <2>2, <2>3 DEF ShownInv
<1>6. CASE cfgMu' # cfgMu
  <2>1. cfgMu = g /\ cfgMu' = None /\ call[g].section = "settings"
    BY <1>6 DEF FailEffect, GoesOnEffect, WriteEffect
  <2>2. CASE FailEffect(g)
    <3>1. unsaved'
      BY <1>00, <2>1, <2>2 DEF FailEffect
    <3> QED
      BY <2>1, <3>1 DEF ShownInv
  <2>3. CASE WriteEffect(g)
    <3>1. Current = objects[cfgSrc]["settings"]
      BY <1>0, <2>1 DEF Current
    <3>2. saved'["settings"] = objects[cfgSrc]["settings"]
      BY <1>0, <1>00, <1>4, <2>1, <2>3 DEF WriteEffect
    <3>3. Current' = Current
      BY <2>1, <3>1, <3>2 DEF Current
    <3> QED
      BY <1>0, <1>2, <1>3, <2>1, <3>3 DEF ShownInv
  <2> QED
    BY <1>6, <2>2, <2>3 DEF GoesOnEffect
<1> QED
  BY <1>5, <1>6

\* A step of a reload keeps ShownInv: it moves both pointers among objects that agree.
LEMMA ShownReload ==
    ASSUME TypeInv, LockInv, ShownInv, NEW g \in Goroutines,
           \/ CopyEffect(g, cfg) /\ mu = None
           \/ CopyEffect(g, 1) /\ (~astray' => mu = None /\ objects[1] = objects[cfg])
           \/ BeginEffect(g) \/ PublishEffect(g) \/ DieEffect(g) \/ TellEffect(g)
    PROVE  ShownInv'
<1> SUFFICES ASSUME Undisturbed' PROVE ShownInv'
  BY DEF ShownInv
<1>0. ReloadEffect(g) /\ UNCHANGED <<program, cfgMu, bound, saved, unsaved>>
  BY DEF CopyEffect, BeginEffect, PublishEffect, DieEffect, TellEffect, ReloadEffect
<1>1. /\ Undisturbed /\ cfg \in 1 .. Len(objects) /\ Len(objects) \in Nat
      /\ cfgMu \in Goroutines \cup {None}
  BY <1>0 DEF TypeInv, Shapes, Wired, Undisturbed, ReloadEffect
<1>2. cfgMu # None => /\ bound /\ cfgSrc \in 1 .. Len(objects) /\ call[cfgMu].object = cfgSrc
                      /\ call'[cfgMu] = call[cfgMu]
  BY <1>0, <1>1 DEF ShownInv, TypeInv, Wired, Shapes, Undisturbed, LockInv, ReloadEffect, OnlyCall
<1>3. CASE \E object \in {cfg, 1} : CopyEffect(g, object)
  <2>1. /\ Len(objects') = Len(objects) + 1 /\ UNCHANGED <<cfg, cfgSrc, shown>>
        /\ objects'[Len(objects) + 1] = objects[cfg]
        /\ \A i \in 1 .. Len(objects) : objects'[i] = objects[i]
        /\ call'[g].at = "copied" /\ call'[g].object = Len(objects) + 1
    BY <1>3 DEF CopyEffect, Undisturbed, BeginEffect, PublishEffect, DieEffect, TellEffect
  <2>2. \A i : InUse(i)' => InUse(i) \/ i = Len(objects) + 1
    BY <1>0, <2>1 DEF InUse, ReloadEffect, OnlyCall
  <2>3. InUse(cfg)
    BY DEF InUse
  <2>4. Current' = Current
    BY <1>0, <1>2, <2>1 DEF Current
  <2>5. ASSUME cfgMu # None \/ ~unsaved, NEW i \in 1 .. Len(objects'), InUse(i)'
        PROVE  objects'[i]["settings"] = Current'
    <3>1. CASE i = Len(objects) + 1
      BY <1>1, <2>1, <2>3, <2>4, <2>5, <3>1 DEF ShownInv
    <3>2. CASE i # Len(objects) + 1
      BY <1>1, <2>1, <2>2, <2>4, <2>5, <3>2 DEF ShownInv
    <3> QED
      BY <3>1, <3>2
  <2> QED
    BY <1>0, <1>1, <1>2, <2>1, <2>4, <2>5 DEF ShownInv
<1>4. CASE BeginEffect(g) \/ PublishEffect(g) \/ DieEffect(g)
  <2>1. UNCHANGED <<objects, cfgSrc, shown>>
    BY <1>4 DEF BeginEffect, PublishEffect, DieEffect
  <2>2. \A i : InUse(i)' => InUse(i)
    BY <1>0, <1>4 DEF InUse, BeginEffect, PublishEffect, DieEffect, ReloadEffect, OnlyCall
  <2>3. Current' = Current
    BY <1>0, <2>1 DEF Current
  <2> QED
    BY <1>0, <1>1, <1>2, <2>1, <2>2, <2>3 DEF ShownInv
<1>5. CASE TellEffect(g)
  <2>1. /\ cfgMu = None /\ UNCHANGED <<objects, cfg>>
        /\ cfgSrc' \in 1 .. Len(objects) /\ InUse(cfgSrc')
        /\ shown' = objects[cfgSrc']["settings"]
    BY <1>5 DEF TellEffect, InUse
  <2>2. \A i : InUse(i)' => InUse(i)
    BY <1>0, <1>5, <2>1 DEF InUse, TellEffect, ReloadEffect, OnlyCall
  <2>3. Current' = Current
    BY <1>0, <2>1 DEF Current
  <2> QED
    BY <1>0, <1>1, <2>1, <2>2, <2>3 DEF ShownInv
<1> QED
  BY <1>3, <1>4, <1>5

\* Every step keeps ShownInv.
LEMMA ShownStep == TypeInv /\ SaveInv /\ LockInv /\ ShownInv /\ [Next]_vars => ShownInv'
  BY StepDoes, ShownRest, ShownEdit, ShownSave, ShownReload DEF Effect

\* What the page shows is what is saved (Server.updateSettings, SetConfig,
\* Manager.Reload): with no settings request under way and the server wired,
\* the settings shown, those of the server's object and those of m.cfg are the
\* ones in config.yaml, unless two saves overlapped, a write failed half way,
\* a request failed, or an edit met a reload, the start or an object left behind.
THEOREM PageFollowsDisk == Spec => []ShownIsSaved
<1>1. TypeInv /\ SaveInv /\ ShownInv => ShownIsSaved
  <2> SUFFICES ASSUME TypeInv, SaveInv, ShownInv, Undisturbed, bound, ~unsaved, cfgMu = None,
                      \A g \in Goroutines : ~At(g, "write")
               PROVE  /\ shown = yaml["settings"]
                      /\ \A object \in {cfg, cfgSrc} :
                             objects[object]["settings"] = yaml["settings"]
    BY DEF ShownIsSaved, Undisturbed
  <2>1. yaml = saved
    BY DEF SaveInv, Undisturbed, At
  <2>2. \A object \in {cfg, cfgSrc} : object \in 1 .. Len(objects) /\ InUse(object)
    BY DEF TypeInv, Wired, Shapes, Undisturbed, InUse
  <2> QED
    BY <2>1, <2>2 DEF ShownInv, Current
<1> QED
  BY <1>1, TypeInit, TypeStep, SaveInit, SaveStepInv, LockInit, LockStep, ShownInit, ShownStep, PTL
  DEF Spec
===============================================================================
