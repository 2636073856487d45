--------------------------- MODULE ConfigStoreProofs ---------------------------
(***************************************************************************)
(* Proofs about ConfigStore, for every set of handlers, every selection of *)
(* endpoints and every bound: type correctness, and that acknowledged saves *)
(* are in config.yaml.                                                     *)
(***************************************************************************)
EXTENDS ConfigStore, SequenceTheorems, TLAPS

Labels == {"idle", "read", "truncate", "write", "reload", "copied", "loading", "bind"}
Saving == {"read", "truncate", "write"}

Calls == [at : Labels, section : Editable \cup {None}, undo : Values, read : Documents,
          thenReload : BOOLEAN, object : Nat, old : Nat]

\* The sets the variables stay in.
Shapes ==
    /\ yaml \in Documents \cup {Missing, Empty, Mixed}
    /\ program \in {"boot", "default", "up", "refused"}
    /\ mu \in Goroutines \cup {None} /\ cfgMu \in Goroutines \cup {None}
    /\ objects \in Seq(Configs) /\ Len(objects) <= MaxObjects
    /\ cfg \in 0 .. Len(objects) /\ cfgSrc \in 0 .. Len(objects)
    /\ shown \in Values
    /\ call \in [Goroutines -> Calls]
    /\ saved \in Documents
    /\ edits \in 0 .. MaxEdits

\* A program that is up has a configuration, one that is not has nothing.
Wired ==
    IF program = "up"
    THEN cfg # 0 /\ (bound => cfgSrc # 0)
    ELSE /\ \A g \in Goroutines : call[g].at = "idle"
         /\ cfgSrc = 0 /\ ~bound

\* What a goroutine holds, by where it is: its lock while it saves, an object
\* while it saves or reloads, and the right to reload, which is ~running.
InCall(g) ==
    /\ call[g].at \in Saving =>
          /\ call[g].section \in Editable
          /\ call[g].object \in 1 .. Len(objects)
          /\ IF call[g].section = "settings" THEN cfgMu = g ELSE mu = g
    /\ call[g].at \in {"copied", "loading", "bind"} => call[g].object \in 1 .. Len(objects)
    /\ call[g].at = "loading" => call[g].old \in 1 .. Len(objects) /\ ~running

OneLoading ==
    \A g, h \in Goroutines : call[g].at = "loading" /\ call[h].at = "loading" => g = h

TypeInv ==
    /\ Shapes /\ Wired /\ OneLoading
    /\ \A g \in Goroutines : InCall(g)

USE ConfigAssumption, FileAssumption

-----------------------------------------------------------------------------
(* The data *)

\* The fixed values have their types.
LEMMA DocumentTypes ==
    /\ 0 \in Values /\ 1 \in Values
    /\ Given \in Documents /\ Zero \in Documents
    /\ NoCall \in Calls /\ NoCall.at = "idle"
  BY DEF Values, Given, Zero, Documents, NoCall, Calls, Labels

\* What the file decodes to is a document, and an object when it is loaded.
LEMMA SectionTypes ==
    ASSUME NEW y \in Documents \cup {Missing, Empty, Mixed}
    PROVE  Decoded(y) \in Documents /\ Section(y) \in Configs
  BY DocumentTypes DEF Decoded, Section, Documents, Configs, Editable, Sections

\* Changing one section of one object leaves a list of objects.
LEMMA ObjectsExcept ==
    ASSUME NEW os \in Seq(Configs), NEW i \in 1 .. Len(os), NEW s \in Editable, NEW v \in Values
    PROVE  /\ [os EXCEPT ![i][s] = v] \in Seq(Configs)
           /\ Len([os EXCEPT ![i][s] = v]) = Len(os)
<1>1. os[i] \in Configs
  BY ElementOfSeq
<1>2. [os[i] EXCEPT ![s] = v] \in Configs
  BY <1>1 DEF Configs
<1>3. [os EXCEPT ![i][s] = v] = [os EXCEPT ![i] = [os[i] EXCEPT ![s] = v]]
  OBVIOUS
<1> QED
  BY <1>2, <1>3, ExceptSeq

\* What a save writes is a document.
LEMMA PatchedType ==
    ASSUME NEW g \in Goroutines, call[g] \in Calls, objects \in Seq(Configs),
           call[g].section \in Editable, call[g].object \in 1 .. Len(objects)
    PROVE  Patched(g) \in Documents
<1>1. objects[call[g].object] \in Configs
  BY ElementOfSeq
<1>2. objects[call[g].object][call[g].section] \in Values /\ call[g].read \in Documents
  BY <1>1 DEF Configs, Calls
<1> QED
  BY <1>2 DEF Patched, Documents

\* The calls of the others, when one goroutine moves and takes nothing from them.
LEMMA OthersKept ==
    ASSUME TypeInv, NEW g \in Goroutines, NEW c \in Calls,
           call' = [call EXCEPT ![g] = c],
           Len(objects) <= Len(objects'), Len(objects') \in Nat,
           \A h \in Goroutines \ {g} :
               /\ mu = h => mu' = h
               /\ cfgMu = h => cfgMu' = h
               /\ call[h].at = "loading" => ~running'
    PROVE  /\ call' \in [Goroutines -> Calls]
           /\ call'[g] = c
           /\ \A h \in Goroutines \ {g} : call'[h] = call[h] /\ InCall(h)'
<1>1. /\ call' \in [Goroutines -> Calls] /\ call'[g] = c
      /\ \A h \in Goroutines \ {g} : call'[h] = call[h]
  BY DEF TypeInv, Shapes
<1>2. ASSUME NEW h \in Goroutines \ {g} PROVE InCall(h)'
  <2>1. Len(objects) \in Nat
    BY DEF TypeInv, Shapes
  <2>2. InCall(h) /\ call'[h] = call[h]
    BY <1>1 DEF TypeInv
  <2> QED
    BY <2>1, <2>2 DEF InCall
<1> QED
  BY <1>1, <1>2

\* One goroutine of a running program moves on, and the others may stay as they are.
Move(g, c) ==
    /\ program = "up" /\ program' = program /\ bound' = bound
    /\ call' = [call EXCEPT ![g] = c]
    /\ yaml' \in Documents \cup {Missing, Empty, Mixed}
    /\ mu' \in Goroutines \cup {None} /\ cfgMu' \in Goroutines \cup {None}
    /\ objects' \in Seq(Configs)
    /\ Len(objects) <= Len(objects') /\ Len(objects') <= MaxObjects
    /\ cfg' \in 1 .. Len(objects') /\ cfgSrc' \in 0 .. Len(objects')
    /\ cfgSrc # 0 => cfgSrc' # 0
    /\ shown' \in Values /\ saved' \in Documents /\ edits' \in 0 .. MaxEdits
    /\ \A h \in Goroutines \ {g} :
           /\ mu = h => mu' = h
           /\ cfgMu = h => cfgMu' = h
           /\ call[h].at = "loading" => ~running' /\ c.at # "loading"

\* Such a step keeps the invariant, when the one that moves holds what it needs.
LEMMA MoveKeepsTypes ==
    ASSUME TypeInv, NEW g \in Goroutines, NEW c \in Calls, Move(g, c), InCall(g)'
    PROVE  TypeInv'
<1>1. Len(objects') \in Nat
  BY DEF Move
<1>2. /\ call' \in [Goroutines -> Calls]
      /\ call'[g] = c
      /\ \A h \in Goroutines \ {g} : call'[h] = call[h] /\ InCall(h)'
  BY <1>1, OthersKept DEF Move
<1>3. Shapes'
  BY <1>2 DEF Shapes, TypeInv, Move
<1>4. Wired'
  BY DEF Wired, TypeInv, Move
<1>5. OneLoading'
  BY <1>2 DEF OneLoading, TypeInv, Move
<1> QED
  BY <1>2, <1>3, <1>4, <1>5 DEF TypeInv

-----------------------------------------------------------------------------
(* Type correctness *)

\* The invariant holds at the start.
LEMMA TypeInit == Init => TypeInv
<1> SUFFICES ASSUME Init PROVE TypeInv
  OBVIOUS
<1>1. objects = <<>> /\ <<>> \in Seq(Configs) /\ Len(<<>>) = 0
  BY DEF Init
<1>2. call \in [Goroutines -> Calls] /\ \A g \in Goroutines : call[g].at = "idle"
  BY DocumentTypes DEF Init
<1>3. Shapes
  BY <1>1, <1>2, DocumentTypes DEF Shapes, Init
<1>4. Wired
  BY <1>2 DEF Wired, Init
<1>5. OneLoading /\ \A g \in Goroutines : InCall(g)
  BY <1>2 DEF OneLoading, InCall, Saving
<1> QED
  BY <1>3, <1>4, <1>5 DEF TypeInv

\* Every step keeps the invariant.
LEMMA TypeStep == TypeInv /\ [Next]_vars => TypeInv'
<1> SUFFICES ASSUME TypeInv, [Next]_vars PROVE TypeInv'
  OBVIOUS
<1>0. /\ Shapes /\ Wired /\ OneLoading
      /\ \A g \in Goroutines : InCall(g) /\ call[g] \in Calls
      /\ Len(objects) \in Nat
  BY DEF TypeInv, Shapes
<1>01. ASSUME NEW g \in Goroutines, call[g].at # "idle"
      PROVE  program = "up" /\ cfg \in 1 .. Len(objects)
  BY <1>01, <1>0 DEF Wired, Shapes
<1>1. CASE CreateDefault \/ WriteDefault
  <2>1. /\ yaml' \in {Empty, Given} /\ program # "up" /\ program' \in {"boot", "default"}
        /\ UNCHANGED <<process, edits, saved>>
    BY <1>1 DEF CreateDefault, WriteDefault, history
  <2> QED
    BY <2>1, <1>0, DocumentTypes DEF TypeInv, Shapes, Wired, OneLoading, InCall, process
<1>2. CASE Load
  <2>1. Section(yaml) \in Configs
    BY <1>0, SectionTypes DEF Shapes
  <2>2. objects' \in Seq(Configs) /\ Len(objects') = 1
    BY <2>1, <1>2 DEF Load
  <2>3. shown' \in Values
    BY <2>1, <1>2 DEF Load, Configs, Editable
  <2>4. Shapes'
    BY <2>2, <2>3, <1>0, <1>2 DEF Shapes, Wired, Load, history
  <2>5. \A g \in Goroutines : call'[g].at = "idle"
    BY <1>0, <1>2 DEF Load, Wired
  <2>6. Wired'
    BY <1>0, <1>2 DEF Load, Wired
  <2> QED
    BY <2>4, <2>5, <2>6 DEF TypeInv, OneLoading, InCall, Saving
<1>3. CASE Refuse
  BY <1>3, <1>0 DEF Refuse, TypeInv, Shapes, Wired, OneLoading, InCall, process, history
<1>4. CASE BindServer
  <2>1. objects[1] \in Configs /\ 1 \in 1 .. Len(objects)
    BY <1>4, <1>0, ElementOfSeq DEF BindServer, Wired, Shapes
  <2>2. shown' \in Values
    BY <2>1, <1>4 DEF BindServer, SetConfig, Configs, Editable
  <2> QED
    BY <2>1, <2>2, <1>4, <1>0
    DEF BindServer, SetConfig, TypeInv, Shapes, Wired, OneLoading, InCall, history
<1>5. CASE Crash
  <2>1. /\ \A g \in Goroutines : call'[g] = NoCall
        /\ call' \in [Goroutines -> Calls]
    BY <1>5, DocumentTypes DEF Crash
  <2>2. Shapes'
    BY <2>1, <1>5, <1>0, DocumentTypes DEF Crash, Shapes
  <2> QED
    BY <2>1, <2>2, <1>5, DocumentTypes DEF Crash, TypeInv, Wired, OneLoading, InCall, Saving
<1>6. CASE program = "up" /\ SettingsRefused
  <2>1. edits' \in 0 .. MaxEdits /\ shown' \in Values
    BY <1>6, <1>0 DEF SettingsRefused, Shapes, Values
  <2> QED
    BY <2>1, <1>6, <1>0
    DEF SettingsRefused, TypeInv, Shapes, Wired, OneLoading, InCall, history
<1>7. CASE program = "up" /\ SettingsRejected
  <2>1. edits' \in 0 .. MaxEdits /\ edits + 2 \in Values
    BY <1>7, <1>0 DEF SettingsRejected, Shapes, Values
  <2>2. objects' \in Seq(Configs) /\ Len(objects') = Len(objects)
    BY <2>1, <1>7, <1>0, ObjectsExcept DEF SettingsRejected, Shapes, Editable
  <2> QED
    BY <2>1, <2>2, <1>7, <1>0
    DEF SettingsRejected, TypeInv, Shapes, Wired, OneLoading, InCall, history
<1>8. ASSUME NEW g \in Goroutines, NEW section \in Editable, NEW object \in 1 .. Len(objects),
             NEW again \in BOOLEAN, program = "up", At(g, "idle"),
             EditObject(g, section, object, again),
             \/ section = "settings" /\ cfgMu = None /\ cfgMu' = g /\ mu' = mu
             \/ section # "settings" /\ mu = None /\ mu' = g /\ cfgMu' = cfgMu,
             shown' \in Values, UNCHANGED <<yaml, program, cfg, cfgSrc, bound, running, saved>>
      PROVE  TypeInv'
  <2> DEFINE c == [NoCall EXCEPT !.at = "read", !.section = section,
                                 !.undo = objects[object][section],
                                 !.object = object, !.thenReload = again]
  <2>1. edits' \in 0 .. MaxEdits /\ edits + 2 \in Values
    BY <1>8, <1>0 DEF EditObject, Shapes, Values
  <2>2. objects' \in Seq(Configs) /\ Len(objects') = Len(objects)
    BY <2>1, <1>8, <1>0, ObjectsExcept DEF EditObject, Shapes
  <2>3. objects[object][section] \in Values
    <3>1. objects[object] \in Configs
      BY <1>0, ElementOfSeq DEF Shapes
    <3> QED
      BY <3>1 DEF Configs
  <2>4. /\ c \in Calls /\ c.at = "read" /\ c.section = section /\ c.object = object
        /\ call' = [call EXCEPT ![g] = c]
    <3>1. object \in Nat /\ section \in Editable \cup {None} /\ "read" \in Labels
      BY <1>0 DEF Labels
    <3>2. c \in Calls /\ c.at = "read" /\ c.section = section /\ c.object = object
      BY <2>3, <3>1, DocumentTypes DEF Calls
    <3> QED
      BY <3>2, <1>8 DEF EditObject
  <2>5. InCall(g)'
    BY <2>2, <2>4, <1>8, <1>0 DEF InCall, Saving, Shapes
  <2>6. \A h \in Goroutines \ {g} :
            /\ mu = h => mu' = h
            /\ cfgMu = h => cfgMu' = h
            /\ call[h].at = "loading" => ~running' /\ c.at # "loading"
    BY <2>4, <1>8, <1>0 DEF InCall
  <2> HIDE DEF c
  <2>7. Move(g, c)
    BY <2>1, <2>2, <2>4, <2>5, <2>6, <1>8, <1>0 DEF Move, Shapes, Wired
  <2> QED
    BY <2>7, <2>5, <2>4, MoveKeepsTypes
<1>9. CASE \E g \in Goroutines : Edit(g)
  <2> PICK g \in Goroutines : Edit(g)
    BY <1>9
  <2>1. CASE EditSettings(g)
    <3>1. PICK o \in Ops \cap {"settings", "settingsReload"} :
              EditObject(g, "settings", cfgSrc, o = "settingsReload")
      BY <2>1 DEF EditSettings
    <3>2. cfgSrc \in 1 .. Len(objects) /\ "settings" \in Editable
      BY <2>1, <1>0 DEF EditSettings, Shapes, Editable
    <3>3. edits + 2 \in Values
      BY <3>1, <1>0 DEF EditObject, Shapes, Values
    <3> QED
      BY <3>1, <3>2, <3>3, <2>1, <1>8 DEF EditSettings, Edit
  <2>2. CASE EditLocked(g)
    <3>1. PICK section \in Ops \cap {"subs", "nodes"} : EditObject(g, section, cfg, FALSE)
      BY <2>2 DEF EditLocked
    <3>2. cfg \in 1 .. Len(objects) /\ section \in Editable /\ section # "settings"
      BY <1>0 DEF Edit, Wired, Shapes, Editable
    <3> QED
      BY <3>1, <3>2, <2>2, <1>0, <1>8 DEF EditLocked, Edit, Shapes
  <2> QED
    BY <2>1, <2>2 DEF Edit
<1>10. ASSUME NEW g \in Goroutines, call[g].at \in Saving, SaveFails(g),
              UNCHANGED <<program, cfg, cfgSrc, bound, shown, running, edits, yaml, saved>>
       PROVE  TypeInv'
  <2>1. /\ call[g].section \in Editable /\ call[g].undo \in Values
        /\ call[g].object \in 1 .. Len(objects)
    BY <1>10, <1>0 DEF InCall, Calls
  <2>2. objects' \in Seq(Configs) /\ Len(objects') = Len(objects)
    BY <2>1, <1>10, <1>0, ObjectsExcept DEF SaveFails, Undo, Shapes
  <2>3. call' = [call EXCEPT ![g] = NoCall]
    BY <1>10 DEF SaveFails, Return
  <2>4. InCall(g)'
    BY <2>3, <1>0, DocumentTypes DEF InCall, Saving, Shapes
  <2>5. /\ mu' \in Goroutines \cup {None} /\ cfgMu' \in Goroutines \cup {None}
        /\ \A h \in Goroutines \ {g} : (mu = h => mu' = h) /\ (cfgMu = h => cfgMu' = h)
    BY <1>10, <1>0 DEF SaveFails, Unlock, InCall, Shapes
  <2>6. \A h \in Goroutines \ {g} :
            call[h].at = "loading" => ~running' /\ NoCall.at # "loading"
    BY <1>10, <1>0, DocumentTypes DEF InCall
  <2>7. program = "up" /\ cfg \in 1 .. Len(objects)
    BY <1>10, <1>01 DEF Saving
  <2>8. Move(g, NoCall)
    BY <2>2, <2>3, <2>4, <2>5, <2>6, <2>7, <1>10, <1>0 DEF Move, Shapes
  <2> QED
    BY <2>8, <2>4, DocumentTypes, MoveKeepsTypes
<1>11. ASSUME NEW g \in Goroutines, ReadFile(g) PROVE TypeInv'
  <2>1. CASE SaveFails(g) /\ yaml = Mixed
    BY <2>1, <1>10, <1>11 DEF ReadFile, At, Saving, unchangedBySave
  <2>2. CASE ~(SaveFails(g) /\ yaml = Mixed)
    <3> DEFINE c == [call[g] EXCEPT !.at = "truncate", !.read = Decoded(yaml)]
    <3>1. call' = [call EXCEPT ![g] = c]
      BY <2>2, <1>11, <1>0 DEF ReadFile, TypeInv, Shapes
    <3>2. /\ c \in Calls /\ c.at = "truncate"
          /\ c.section = call[g].section /\ c.object = call[g].object
      BY <1>0, SectionTypes DEF Calls, Labels, Shapes
    <3>3. /\ UNCHANGED <<mu, cfgMu, objects, yaml, program, cfg, cfgSrc, bound, shown,
                         running, edits, saved>>
          /\ call[g].at = "read"
      BY <2>2, <1>11 DEF ReadFile, unchangedBySave, At
    <3>4. InCall(g)'
      BY <3>1, <3>2, <3>3, <1>0 DEF InCall, Saving, Shapes
    <3>5. \A h \in Goroutines \ {g} : call[h].at = "loading" => ~running' /\ c.at # "loading"
      BY <3>2, <3>3, <1>0 DEF InCall
    <3> HIDE DEF c
    <3>6. Move(g, c)
      BY <3>1, <3>2, <3>3, <3>4, <3>5, <1>01, <1>0 DEF Move, Shapes
    <3> QED
      BY <3>6, <3>4, <3>2, MoveKeepsTypes
  <2> QED
    BY <2>1, <2>2
<1>12. ASSUME NEW g \in Goroutines, Truncate(g) PROVE TypeInv'
  <2>1. CASE SaveFails(g) /\ UNCHANGED yaml
    BY <2>1, <1>10, <1>12 DEF Truncate, At, Saving, unchangedBySave
  <2>2. CASE ~(SaveFails(g) /\ UNCHANGED yaml)
    <3> DEFINE c == [call[g] EXCEPT !.at = "write"]
    <3>1. call' = [call EXCEPT ![g] = c]
      BY <2>2, <1>12, <1>0 DEF Truncate, Goto, TypeInv, Shapes
    <3>2. /\ c \in Calls /\ c.at = "write"
          /\ c.section = call[g].section /\ c.object = call[g].object
      BY <1>0 DEF Calls, Labels
    <3>3. /\ UNCHANGED <<mu, cfgMu, objects, program, cfg, cfgSrc, bound, shown,
                         running, edits, saved>>
          /\ yaml' = Empty /\ call[g].at = "truncate"
      BY <2>2, <1>12 DEF Truncate, unchangedBySave, At
    <3>4. InCall(g)'
      BY <3>1, <3>2, <3>3, <1>0 DEF InCall, Saving, Shapes
    <3>5. \A h \in Goroutines \ {g} : call[h].at = "loading" => ~running' /\ c.at # "loading"
      BY <3>2, <3>3, <1>0 DEF InCall
    <3> HIDE DEF c
    <3>6. Move(g, c)
      BY <3>1, <3>2, <3>3, <3>4, <3>5, <1>01, <1>0 DEF Move, Shapes
    <3> QED
      BY <3>6, <3>4, <3>2, MoveKeepsTypes
  <2> QED
    BY <2>1, <2>2
<1>13. ASSUME NEW g \in Goroutines, WriteFile(g) PROVE TypeInv'
  <2> DEFINE c == [NoCall EXCEPT !.at = IF call[g].thenReload THEN "reload" ELSE "idle"]
  <2>1. /\ call' = [call EXCEPT ![g] = c]
        /\ c \in Calls /\ c.at \in {"reload", "idle"}
    BY <1>13, DocumentTypes DEF WriteFile, Calls, Labels, NoCall
  <2>2. /\ UNCHANGED <<objects, program, cfg, cfgSrc, bound, shown, running, edits>>
        /\ call[g].at = "write" /\ Unlock(g, TRUE)
    BY <1>13 DEF WriteFile, unchangedBySave, At
  <2>3. Patched(g) \in Documents
    BY <2>2, <1>0, PatchedType DEF InCall, Saving, Shapes
  <2>4. yaml' \in Documents \cup {Mixed} /\ saved' \in Documents
    <3>1. call[g].section \in Sections
      BY <2>2, <1>0 DEF InCall, Saving, Sections
    <3> QED
      BY <3>1, <2>3, <1>13, <1>0 DEF WriteFile, Shapes, Documents
  <2>5. InCall(g)'
    BY <2>1, <2>2, <1>0 DEF InCall, Saving, Shapes
  <2>6. /\ mu' \in Goroutines \cup {None} /\ cfgMu' \in Goroutines \cup {None}
        /\ \A h \in Goroutines \ {g} : (mu = h => mu' = h) /\ (cfgMu = h => cfgMu' = h)
    BY <2>2, <1>0 DEF Unlock, InCall, Saving, Shapes
  <2>7. \A h \in Goroutines \ {g} : call[h].at = "loading" => ~running' /\ c.at # "loading"
    BY <2>1, <2>2, <1>0 DEF InCall
  <2> HIDE DEF c
  <2>8. Move(g, c)
    BY <2>1, <2>2, <2>4, <2>5, <2>6, <2>7, <1>01, <1>0 DEF Move, Shapes
  <2> QED
    BY <2>8, <2>5, <2>1, MoveKeepsTypes
<1>14. ASSUME NEW g \in Goroutines, WriteFails(g) PROVE TypeInv'
  BY <1>14, <1>10 DEF WriteFails, At, Saving, unchangedBySave
<1>15. ASSUME NEW g \in Goroutines, NEW object \in 1 .. Len(objects), CopyObject(g, object),
              call[g].at \in {"idle", "reload"}, program = "up",
              UNCHANGED <<yaml, program, mu, cfgMu, cfg, cfgSrc, bound, shown, running,
                          edits, saved>>
       PROVE  TypeInv'
  <2> DEFINE c == [NoCall EXCEPT !.at = "copied", !.object = Len(objects) + 1]
  <2>1. /\ call' = [call EXCEPT ![g] = c]
        /\ c \in Calls /\ c.at = "copied" /\ c.object = Len(objects) + 1
    <3>1. Len(objects) + 1 \in Nat /\ "copied" \in Labels
      BY <1>0 DEF Labels
    <3>2. c \in Calls /\ c.at = "copied" /\ c.object = Len(objects) + 1
      BY <3>1, DocumentTypes DEF Calls
    <3> QED
      BY <3>2, <1>15 DEF CopyObject
  <2>2. objects[object] \in Configs
    BY <1>0, ElementOfSeq DEF Shapes
  <2>3. objects' \in Seq(Configs) /\ Len(objects') = Len(objects) + 1 /\ Len(objects') <= MaxObjects
    BY <2>2, <1>15, <1>0, AppendProperties DEF CopyObject, Shapes
  <2>4. InCall(g)'
    BY <2>1, <2>3, <1>0 DEF InCall, Saving, Shapes
  <2>5. \A h \in Goroutines \ {g} : call[h].at = "loading" => ~running' /\ c.at # "loading"
    BY <2>1, <1>15, <1>0 DEF InCall
  <2> HIDE DEF c
  <2>6. Move(g, c)
    BY <2>1, <2>3, <2>4, <2>5, <1>15, <1>0 DEF Move, Shapes, Wired
  <2> QED
    BY <2>6, <2>4, <2>1, MoveKeepsTypes
<1>16. ASSUME NEW g \in Goroutines, NewReload(g) PROVE TypeInv'
  <2>1. CASE TriggerReload(g)
    BY <2>1, <1>16, <1>15, <1>0 DEF NewReload, TriggerReload, At, history, Wired, Shapes
  <2>2. CASE Refresh(g)
    <3>1. 1 \in 1 .. Len(objects)
      BY <1>16, <1>0 DEF NewReload, Wired, Shapes
    <3> QED
      BY <3>1, <2>2, <1>16, <1>15 DEF NewReload, Refresh, At
  <2> QED
    BY <2>1, <2>2, <1>16 DEF NewReload
<1>17. ASSUME NEW g \in Goroutines, BeginReload(g) PROVE TypeInv'
  <2>1. CASE running
    <3> DEFINE c == [call[g] EXCEPT !.at = "loading", !.old = cfg]
    <3>1. /\ call' = [call EXCEPT ![g] = c] /\ ~running'
          /\ call[g].at = "copied"
          /\ UNCHANGED <<yaml, program, mu, cfgMu, objects, cfg, cfgSrc, bound, shown, edits, saved>>
      BY <2>1, <1>17, <1>0 DEF BeginReload, At, history, TypeInv, Shapes
    <3>2. /\ c \in Calls /\ c.at = "loading" /\ c.old = cfg /\ c.object = call[g].object
      <4>1. cfg \in Nat /\ "loading" \in Labels
        BY <1>0 DEF Labels, Shapes
      <4> QED
        BY <4>1, <1>0 DEF Calls
    <3>3. InCall(g)'
      BY <3>1, <3>2, <1>0, <1>01 DEF InCall, Saving, Shapes
    <3>4. \A h \in Goroutines : call[h].at # "loading"
      BY <2>1, <1>0 DEF InCall
    <3> HIDE DEF c
    <3>5. Move(g, c)
      BY <3>1, <3>2, <3>3, <3>4, <1>01, <1>0 DEF Move, Shapes
    <3> QED
      BY <3>5, <3>3, <3>2, MoveKeepsTypes
  <2>2. CASE ~running
    <3>1. /\ call' = [call EXCEPT ![g] = NoCall]
          /\ UNCHANGED <<yaml, program, mu, cfgMu, objects, cfg, cfgSrc, bound, shown,
                         running, edits, saved>>
          /\ call[g].at = "copied"
      BY <2>2, <1>17 DEF BeginReload, Return, At, history
    <3>2. InCall(g)'
      BY <3>1, <1>0, DocumentTypes DEF InCall, Saving, Shapes
    <3>3. \A h \in Goroutines \ {g} : call[h].at = "loading" => ~running' /\ NoCall.at # "loading"
      BY <3>1, <1>0, DocumentTypes DEF InCall
    <3>4. Move(g, NoCall)
      BY <3>1, <3>2, <3>3, <1>01, <1>0 DEF Move, Shapes
    <3> QED
      BY <3>4, <3>2, DocumentTypes, MoveKeepsTypes
  <2> QED
    BY <2>1, <2>2
<1>18. ASSUME NEW g \in Goroutines, Publish(g) PROVE TypeInv'
  <2>1. PICK object \in {call[g].object, call[g].old} :
            cfg' = object /\ call' = [call EXCEPT ![g].at = "bind", ![g].object = object]
    BY <1>18 DEF Publish
  <2> DEFINE c == [call[g] EXCEPT !.at = "bind", !.object = object]
  <2>2. /\ call' = [call EXCEPT ![g] = c] /\ cfg' = object
        /\ call[g].at = "loading"
        /\ UNCHANGED <<yaml, program, mu, cfgMu, objects, cfgSrc, bound, shown, edits, saved>>
    BY <2>1, <1>18, <1>0 DEF Publish, At, history, TypeInv, Shapes
  <2>3. object \in 1 .. Len(objects)
    BY <2>2, <1>0 DEF InCall
  <2>4. c \in Calls /\ c.at = "bind" /\ c.object = object
    BY <2>3, <1>0 DEF Calls, Labels
  <2>5. InCall(g)'
    BY <2>2, <2>3, <2>4, <1>0 DEF InCall, Saving, Shapes
  <2>6. \A h \in Goroutines \ {g} : call[h].at # "loading"
    BY <2>2, <1>0 DEF OneLoading
  <2> HIDE DEF c
  <2>7. Move(g, c)
    BY <2>2, <2>3, <2>6, <1>01, <1>0 DEF Move, Shapes
  <2> QED
    BY <2>7, <2>5, <2>4, MoveKeepsTypes
<1>19. ASSUME NEW g \in Goroutines, ReloadDies(g) PROVE TypeInv'
  <2>1. /\ call' = [call EXCEPT ![g] = NoCall]
        /\ call[g].at = "loading"
        /\ UNCHANGED <<yaml, program, mu, cfgMu, objects, cfg, cfgSrc, bound, shown,
                       running, edits, saved>>
    BY <1>19 DEF ReloadDies, Return, At, history
  <2>2. InCall(g)'
    BY <2>1, <1>0, DocumentTypes DEF InCall, Saving, Shapes
  <2>3. \A h \in Goroutines \ {g} : call[h].at # "loading"
    BY <2>1, <1>0 DEF OneLoading
  <2>4. Move(g, NoCall)
    BY <2>1, <2>2, <2>3, <1>01, <1>0 DEF Move, Shapes
  <2> QED
    BY <2>4, <2>2, DocumentTypes, MoveKeepsTypes
<1>20. ASSUME NEW g \in Goroutines, TellServer(g) PROVE TypeInv'
  <2>1. /\ call' = [call EXCEPT ![g] = NoCall]
        /\ call[g].at = "bind" /\ cfgSrc' = call[g].object
        /\ shown' = objects[call[g].object]["settings"]
        /\ UNCHANGED <<yaml, program, mu, cfgMu, objects, cfg, bound, running, edits, saved>>
    BY <1>20 DEF TellServer, SetConfig, Return, At, history
  <2>2. call[g].object \in 1 .. Len(objects)
    BY <2>1, <1>0 DEF InCall
  <2>3. shown' \in Values
    <3>1. objects[call[g].object] \in Configs
      BY <2>2, <1>0, ElementOfSeq DEF Shapes
    <3> QED
      BY <3>1, <2>1 DEF Configs, Editable
  <2>4. InCall(g)'
    BY <2>1, <1>0, DocumentTypes DEF InCall, Saving, Shapes
  <2>5. \A h \in Goroutines \ {g} : call[h].at = "loading" => ~running' /\ NoCall.at # "loading"
    BY <2>1, <1>0, DocumentTypes DEF InCall
  <2>6. Move(g, NoCall)
    BY <2>1, <2>2, <2>3, <2>4, <2>5, <1>01, <1>0 DEF Move, Shapes
  <2> QED
    BY <2>6, <2>4, DocumentTypes, MoveKeepsTypes
<1>21. CASE UNCHANGED vars
  BY <1>21 DEF vars, process, history, TypeInv, Shapes, Wired, OneLoading, InCall
<1> QED
  BY <1>1, <1>2, <1>3, <1>4, <1>5, <1>6, <1>7, <1>9, <1>11, <1>12, <1>13, <1>14,
     <1>16, <1>17, <1>18, <1>19, <1>20, <1>21
  DEF Next, SaveStep, ReloadStep, Ended

\* Type correctness (all of ConfigStore): every variable stays in its type, a
\* goroutine that saves has the lock of its section, and one that reloads has
\* taken the published instance.
THEOREM TypeCorrect == Spec => []TypeOK
<1>1. TypeInv => TypeOK
  BY DEF TypeInv, Shapes, Wired, InCall, TypeOK, Calls, Labels, Saving
<1> QED
  BY <1>1, TypeInit, TypeStep, PTL DEF Spec

-----------------------------------------------------------------------------
(* Acknowledged saves *)

Writing == {"truncate", "write"}

\* As long as no two saves have overlapped and no write has failed half way:
\* one goroutine at a time is past reading, and what it read is everything
\* acknowledged so far; the file is that document but for the moment it is
\* empty; and a restart finds it, an empty file, or none with nothing saved.
SaveInv ==
    ~overlapped /\ ~torn =>
    /\ \A g, h \in Goroutines : call[g].at \in Writing /\ call[h].at \in Writing => g = h
    /\ \A g \in Goroutines : call[g].at \in Writing => call[g].read = saved
    /\ \A g \in Goroutines : call[g].at = "write" => yaml = Empty
    /\ program = "up" /\ (\A g \in Goroutines : call[g].at # "write") => yaml = saved
    /\ program = "boot" => yaml \in {saved, Empty, Missing} /\ (yaml = Missing => saved = Given)
    /\ program = "default" => yaml = Empty /\ saved = Given

\* A step that leaves the file alone, and moves nobody to or from a write.
Quiet ==
    /\ UNCHANGED <<yaml, program, saved, overlapped, torn>>
    /\ \A g \in Goroutines :
           call'[g] = call[g] \/ (call[g].at # "write" /\ call'[g].at \notin Writing)

\* Such a step keeps what the saves add up to.
LEMMA QuietKeepsSave == SaveInv /\ Quiet => SaveInv'
  BY DEF SaveInv, Quiet, Writing

\* A step of one goroutine that is quiet.
LEMMA QuietMove ==
    ASSUME TypeInv, NEW g \in Goroutines, NEW c \in Calls,
           call' = [call EXCEPT ![g] = c], call[g].at # "write", c.at \notin Writing,
           UNCHANGED <<yaml, program, saved, overlapped, torn>>
    PROVE  Quiet
  BY DEF TypeInv, Shapes, Quiet

\* An edit in memory is quiet: it only goes on to read the file.
LEMMA EditIsQuiet ==
    ASSUME TypeInv, NEW g \in Goroutines, Edit(g)
    PROVE  Quiet
<1>1. PICK section, object, again : EditObject(g, section, object, again)
  BY DEF Edit, EditSettings, EditLocked
<1>2. /\ call'[g].at = "read" /\ call[g].at = "idle"
      /\ \A h \in Goroutines \ {g} : call'[h] = call[h]
  BY <1>1 DEF EditObject, Edit, At, TypeInv, Shapes, NoCall
<1>3. UNCHANGED <<yaml, program, saved, overlapped, torn>>
  BY DEF Edit, EditSettings, EditLocked
<1> QED
  BY <1>2, <1>3 DEF Quiet, Writing

\* No step of a reload touches the file.
LEMMA ReloadIsQuiet ==
    ASSUME TypeInv, NEW g \in Goroutines, NewReload(g) \/ ReloadStep(g)
    PROVE  Quiet
<1>1. /\ call[g].at # "write" /\ call'[g].at \notin Writing
      /\ \A h \in Goroutines \ {g} : call'[h] = call[h]
  <2>1. CASE NewReload(g)
    <3>1. /\ call[g].at \in {"idle", "reload"} /\ call \in [Goroutines -> Calls]
          /\ \E object \in {1, cfg} : CopyObject(g, object)
      BY <2>1 DEF NewReload, TriggerReload, Refresh, At, TypeInv, Shapes
    <3>2. call'[g].at = "copied" /\ \A h \in Goroutines \ {g} : call'[h] = call[h]
      BY <3>1 DEF CopyObject, NoCall
    <3> QED
      BY <3>1, <3>2 DEF Writing
  <2>2. CASE BeginReload(g)
    <3>1. call[g].at = "copied" /\ call \in [Goroutines -> Calls] /\ call[g] \in Calls
      BY <2>2 DEF BeginReload, At, TypeInv, Shapes
    <3>2. CASE call' = [call EXCEPT ![g].at = "loading", ![g].old = cfg]
      BY <3>1, <3>2 DEF Writing, Calls
    <3>3. CASE call' = [call EXCEPT ![g] = NoCall]
      BY <3>1, <3>3, DocumentTypes DEF Writing
    <3> QED
      BY <2>2, <3>2, <3>3 DEF BeginReload, Return
  <2>3. CASE Publish(g)
    BY <2>3 DEF Publish, At, TypeInv, Shapes, Writing
  <2>4. CASE ReloadDies(g) \/ TellServer(g)
    BY <2>4 DEF ReloadDies, TellServer, Return, At, TypeInv, Shapes, Writing, NoCall
  <2> QED
    BY <2>1, <2>2, <2>3, <2>4 DEF ReloadStep
<1>2. UNCHANGED <<yaml, program, saved, overlapped, torn>>
  BY DEF NewReload, TriggerReload, Refresh, ReloadStep, BeginReload, Publish,
         ReloadDies, TellServer, history
<1> QED
  BY <1>1, <1>2 DEF Quiet

\* Nothing has been saved at the start.
LEMMA SaveInit == Init => SaveInv
  BY DocumentTypes DEF Init, SaveInv, Writing

\* Every step, a crash in the middle of a save included, keeps SaveInv.
LEMMA SaveStepInv == TypeInv /\ SaveInv /\ [Next]_vars => SaveInv'
<1> SUFFICES ASSUME TypeInv, SaveInv, [Next]_vars PROVE SaveInv'
  OBVIOUS
<1>0. /\ Wired /\ yaml \in Documents \cup {Missing, Empty, Mixed}
      /\ call \in [Goroutines -> Calls] /\ saved \in Documents
      /\ \A g \in Goroutines : InCall(g) /\ call[g] \in Calls
  BY DEF TypeInv, Shapes
<1>1. CASE CreateDefault \/ WriteDefault
  BY <1>1, <1>0 DEF CreateDefault, WriteDefault, SaveInv, process, history, Wired, Writing
<1>2. CASE Load
  <2>1. /\ yaml \in Documents /\ program = "boot" /\ program' = "up"
        /\ UNCHANGED <<yaml, call, saved, overlapped, torn>>
    BY <1>2 DEF Load, Loadable, history
  <2>2. \A g \in Goroutines : call'[g].at = "idle"
    BY <2>1, <1>0 DEF Wired
  <2> QED
    BY <2>1, <2>2 DEF SaveInv, Writing
<1>3. CASE Refuse
  BY <1>3, <1>0 DEF Refuse, SaveInv, Wired, Writing, process, history
<1>4. CASE BindServer \/ SettingsRefused \/ SettingsRejected \/ UNCHANGED vars
  <2>1. UNCHANGED <<yaml, program, saved, overlapped, torn, call>>
    BY <1>4 DEF BindServer, SettingsRefused, SettingsRejected, vars, process, history
  <2> QED
    BY <2>1, QuietKeepsSave DEF Quiet
<1>5. CASE Crash
  <2>1. /\ \A g \in Goroutines : call'[g].at = "idle"
        /\ program' = "boot" /\ program \in {"default", "up"}
        /\ UNCHANGED <<yaml, saved, overlapped, torn>>
    BY <1>5, DocumentTypes DEF Crash
  <2> QED
    BY <2>1, <1>0 DEF SaveInv, Writing
<1>6. CASE \E g \in Goroutines : Edit(g) \/ NewReload(g) \/ ReloadStep(g)
  BY <1>6, EditIsQuiet, ReloadIsQuiet, QuietKeepsSave
<1>7. ASSUME NEW g \in Goroutines, SaveFails(g), call[g].at # "write",
             UNCHANGED <<yaml, program, saved, overlapped, torn>>
      PROVE  SaveInv'
  BY <1>7, QuietMove, QuietKeepsSave, DocumentTypes DEF SaveFails, Return, Writing
<1>8. ASSUME NEW g \in Goroutines, ReadFile(g) PROVE SaveInv'
  <2>1. CASE SaveFails(g) /\ yaml = Mixed /\ UNCHANGED overlapped
    BY <2>1, <1>7, <1>8 DEF ReadFile, At, unchangedBySave
  <2>2. CASE ~(SaveFails(g) /\ yaml = Mixed /\ UNCHANGED overlapped)
    <3>1. /\ call[g].at = "read"
          /\ call'[g].at = "truncate" /\ call'[g].read = Decoded(yaml)
          /\ \A h \in Goroutines \ {g} : call'[h] = call[h]
          /\ overlapped' = (overlapped \/ \E h \in Goroutines \ {g} : call[h].at \in Writing)
          /\ UNCHANGED <<yaml, program, saved, torn>>
      BY <2>2, <1>8, <1>0 DEF ReadFile, At, unchangedBySave, Writing, Calls
    <3> SUFFICES ASSUME ~overlapped', ~torn' PROVE SaveInv'
      BY DEF SaveInv
    <3>2. \A h \in Goroutines : call[h].at \notin Writing
      BY <3>1 DEF Writing
    <3>3. program = "up" /\ yaml = saved /\ Decoded(yaml) = saved
      BY <3>1, <3>2, <1>0 DEF SaveInv, Wired, Writing, Decoded
    <3> QED
      BY <3>1, <3>2, <3>3 DEF SaveInv, Writing
  <2> QED
    BY <2>1, <2>2
<1>9. ASSUME NEW g \in Goroutines, Truncate(g) PROVE SaveInv'
  <2>1. CASE SaveFails(g) /\ UNCHANGED yaml
    BY <2>1, <1>7, <1>9 DEF Truncate, At, unchangedBySave
  <2>2. CASE ~(SaveFails(g) /\ UNCHANGED yaml)
    <3>1. /\ call[g].at = "truncate" /\ yaml' = Empty
          /\ call'[g].at = "write" /\ call'[g].read = call[g].read
          /\ \A h \in Goroutines \ {g} : call'[h] = call[h]
          /\ UNCHANGED <<program, saved, overlapped, torn>>
      BY <2>2, <1>9, <1>0 DEF Truncate, Goto, At, unchangedBySave, Calls
    <3>2. program = "up"
      BY <3>1, <1>0 DEF Wired
    <3> QED
      BY <3>1, <3>2 DEF SaveInv, Writing
  <2> QED
    BY <2>1, <2>2
<1>10. ASSUME NEW g \in Goroutines, WriteFile(g) PROVE SaveInv'
  <2>1. /\ call[g].at = "write" /\ call'[g].at \in {"reload", "idle"}
        /\ \A h \in Goroutines \ {g} : call'[h] = call[h]
        /\ yaml' \in {Patched(g)} \cup (IF yaml = Empty THEN {} ELSE {Mixed})
        /\ saved' = [saved EXCEPT ![call[g].section] = Patched(g)[call[g].section]]
        /\ UNCHANGED <<program, overlapped, torn>>
    BY <1>10, <1>0 DEF WriteFile, At, unchangedBySave, NoCall
  <2> SUFFICES ASSUME ~overlapped, ~torn PROVE SaveInv'
    BY <2>1 DEF SaveInv
  <2>2. /\ call[g].read = saved /\ yaml = Empty /\ program = "up"
        /\ \A h \in Goroutines \ {g} : call[h].at \notin Writing
    BY <2>1, <1>0 DEF SaveInv, Writing, Wired
  <2>3. yaml' = saved'
    BY <2>1, <2>2, <1>0 DEF Patched, Documents
  <2> QED
    BY <2>1, <2>2, <2>3 DEF SaveInv, Writing
<1>11. ASSUME NEW g \in Goroutines, WriteFails(g) PROVE SaveInv'
  BY <1>11 DEF WriteFails, SaveInv
<1> QED
  BY <1>1, <1>2, <1>3, <1>4, <1>5, <1>6, <1>8, <1>9, <1>10, <1>11
  DEF Next, SaveStep, Ended

\* No acknowledged save is lost (Config.SaveSettings, SaveSubscriptionConfig,
\* SaveNodes, Load): unless two saves overlapped or a write failed half way,
\* the file of a running program that nobody is writing holds every save that
\* was answered with success, through any reloads, crashes and restarts.
THEOREM SavesAreKept == Spec => []AcknowledgedIsSaved
<1>1. SaveInv => AcknowledgedIsSaved
  BY DEF SaveInv, AcknowledgedIsSaved, At
<1> QED
  BY <1>1, TypeInit, TypeStep, SaveInit, SaveStepInv, PTL DEF Spec
===============================================================================
