------------------------------ MODULE ConfigStore ------------------------------
(***************************************************************************)
(* The configuration of easy_proxies: config.yaml, the Config objects in   *)
(* memory and the settings the monitor's HTTP server keeps beside them.    *)
(*                                                                         *)
(* config.yaml is saved by three functions of internal/config, each for a  *)
(* section of its own: SaveSettings, SaveSubscriptionConfig and SaveNodes. *)
(* Each reads the file, replaces its section and writes the file back with *)
(* os.WriteFile, which truncates it first.  The settings handlers call     *)
(* SaveSettings with the server's cfgMu held, the others are called with   *)
(* the box manager's mu held; nothing keeps the two apart.                 *)
(*                                                                         *)
(* A Config object is shared by pointers: m.cfg, which a reload replaces   *)
(* by a copy, s.cfgSrc of the server, which SetConfig moves to the new one *)
(* when the reload is over, and baseCfg of the subscription loop, which    *)
(* stays with the object the program started with.  The process may die at *)
(* any step; the next one loads what the file holds.                       *)
(***************************************************************************)
EXTENDS Naturals, Sequences

CONSTANTS
    Handlers,   \* goroutines of the monitor's HTTP server
    Loop,       \* the goroutine of the subscription loop
    Ops,        \* the endpoints that are called: a subset of Endpoints
    WritesFail, \* whether opening or writing the file may fail
    MaxEdits,   \* bound: edits
    MaxObjects, \* bound: Config objects of one process
    MaxCrashes, \* bound: crashes
    None, Missing, Empty, Mixed

\* "settingsReload" goes on to TriggerReload, as POST /api/reload does at once.
Endpoints == {"settings", "settingsReload", "badSettings", "subs", "nodes"}
Goroutines == Handlers \cup {Loop}

ASSUME ConfigAssumption ==
    /\ Loop \notin Handlers /\ None \notin Goroutines
    /\ Ops \subseteq Endpoints
    /\ WritesFail \in BOOLEAN
    /\ MaxEdits \in Nat /\ MaxObjects \in Nat \ {0} /\ MaxCrashes \in Nat

VARIABLES
    yaml,      \* config.yaml: a document, Empty, Mixed (two writes), Missing
    program,   \* "boot", "default", "up" or "refused"
    mu,        \* who holds Manager.mu over several steps, or None
    cfgMu,     \* who holds Server.cfgMu over several steps, or None
    objects,   \* the Config objects, oldest first
    cfg,       \* m.cfg, an index of objects
    cfgSrc,    \* s.cfgSrc, an index of objects or 0 for nil
    bound,     \* whether app.Run has called SetConfig
    shown,     \* the settings in s.cfg, which GET /api/settings answers
    running,   \* whether currentBox is set
    call,      \* what each goroutine is doing
    edits, crashes, \* bounded counters
    \* history
    saved,      \* the document the acknowledged saves add up to
    overlapped, \* two saves have read the file before either wrote it
    torn,       \* a write has failed after it truncated the file
    unsaved,    \* a settings request failed after it changed the object
    astray      \* an edit went to an object that is, or will be, replaced

process == <<mu, cfgMu, objects, cfg, cfgSrc, bound, shown, running, call>>
history == <<saved, overlapped, torn, unsaved, astray>>
vars    == <<yaml, program, process, edits, crashes, history>>

\* The sections a save replaces; "rest" is the mode, ports, passwords, which
\* no endpoint changes.
Editable == {"settings", "subs", "nodes"}
Sections == Editable \cup {"rest"}

\* A section's value: 0 is what decoding an empty document leaves, 1 what the
\* user (or the default file) gave, and every edit has a value of its own.
Values    == 0 .. MaxEdits + 1
Documents == [Sections -> Values]
Given     == [s \in Sections |-> 1]
Zero      == [s \in Sections |-> 0]
Configs   == [Editable -> Values]

\* What the file may hold beside a document is none.
ASSUME FileAssumption ==
    /\ Missing \notin Documents /\ Empty \notin Documents /\ Mixed \notin Documents
    /\ Empty # Missing /\ Mixed # Missing /\ Mixed # Empty

NoCall == [at |-> "idle", section |-> None, undo |-> 0, read |-> Zero,
           thenReload |-> FALSE, object |-> 0, old |-> 0]
At(g, label) == call[g].at = label
Goto(g, label) == call' = [call EXCEPT ![g].at = label]
Return(g) == call' = [call EXCEPT ![g] = NoCall]

Init ==
    /\ yaml \in {Given, Missing}
    /\ program = "boot"
    /\ mu = None /\ cfgMu = None
    /\ objects = <<>> /\ cfg = 0 /\ cfgSrc = 0
    /\ bound = FALSE /\ shown = 0 /\ running = FALSE
    /\ call = [g \in Goroutines |-> NoCall]
    /\ edits = 0 /\ crashes = 0
    /\ saved = Given
    /\ overlapped = FALSE /\ torn = FALSE /\ unsaved = FALSE /\ astray = FALSE

-----------------------------------------------------------------------------
(* Starting: EnsureConfigFile, Load, and the wiring of app.Run *)

\* A missing file is created, empty at first, then the default is written.
CreateDefault ==
    /\ program = "boot" /\ yaml = Missing
    /\ yaml' = Empty /\ program' = "default"
    /\ UNCHANGED <<process, edits, crashes, history>>

WriteDefault ==
    /\ program = "default"
    /\ yaml' = Given /\ program' = "boot"
    /\ UNCHANGED <<process, edits, crashes, history>>

\* Mutant: a configuration without nodes is accepted.
MutantLoadable(y) == y \in {Empty, Mixed} \/ y \in Documents

\* normalize refuses a configuration without nodes; subscriptions may bring some.
Loadable(y) == y \in Documents /\ (y["nodes"] # 0 \/ y["subs"] # 0)
Decoded(y) == IF y \in Documents THEN y ELSE Zero
Section(y) == [s \in Editable |-> Decoded(y)[s]]

\* Load, then Start: the server has a copy of the settings, but no object yet.
Load ==
    /\ program = "boot" /\ yaml # Missing
    /\ Loadable(yaml)
    /\ program' = "up"
    /\ objects' = <<Section(yaml)>> /\ cfg' = 1
    /\ shown' = Section(yaml)["settings"]
    /\ running' = TRUE
    /\ UNCHANGED <<yaml, mu, cfgMu, cfgSrc, bound, call, edits, crashes, history>>

Refuse ==
    /\ program = "boot" /\ yaml # Missing
    /\ ~Loadable(yaml) \/ Decoded(yaml)["nodes"] = 0
    /\ program' = "refused"
    /\ UNCHANGED <<yaml, process, edits, crashes, history>>

\* Mutant: the server keeps the settings it shows.
MutantSetConfig(object) == cfgSrc' = object /\ UNCHANGED shown

\* Server.SetConfig, with cfgMu held.
SetConfig(object) ==
    /\ cfgMu = None
    /\ cfgSrc' = object
    /\ shown' = objects[object]["settings"]

\* app.Run wires the object it loaded, after Start has waited for a healthy node.
BindServer ==
    /\ program = "up" /\ ~bound
    /\ SetConfig(1)
    /\ bound' = TRUE
    /\ UNCHANGED <<yaml, program, mu, cfgMu, objects, cfg, running, call,
                   edits, crashes, history>>

\* The process dies.  A history of its memory dies with it.
Crash ==
    /\ program \in {"default", "up"} /\ crashes < MaxCrashes
    /\ crashes' = crashes + 1
    /\ program' = "boot"
    /\ mu' = None /\ cfgMu' = None
    /\ objects' = <<>> /\ cfg' = 0 /\ cfgSrc' = 0
    /\ bound' = FALSE /\ shown' = 0 /\ running' = FALSE
    /\ call' = [g \in Goroutines |-> NoCall]
    /\ unsaved' = FALSE /\ astray' = FALSE
    /\ UNCHANGED <<yaml, edits, saved, overlapped, torn>>

-----------------------------------------------------------------------------
(* Editing a section: first in memory, then on disk *)

Reloading(labels) == \E h \in Goroutines : call[h].at \in labels

\* An edit of m.cfg is dropped by a reload that has already copied it; one of
\* the settings also when the server's object is not m.cfg, or is to change.
Astray(section) ==
    \/ Reloading({"copied", "loading"})
    \/ (section = "settings" /\ (Reloading({"bind"}) \/ ~bound \/ cfgSrc # cfg))

\* The goroutine has changed the section of the object and goes on to save it.
EditObject(g, section, object, thenReload) ==
    /\ edits < MaxEdits /\ edits' = edits + 1
    /\ objects' = [objects EXCEPT ![object][section] = edits + 2]
    /\ call' = [call EXCEPT ![g] =
                    [NoCall EXCEPT !.at = "read", !.section = section,
                                   !.undo = objects[object][section],
                                   !.object = object, !.thenReload = thenReload]]
    /\ astray' = (astray \/ Astray(section))

\* updateSettings, and PUT /api/proxy/auth, which may ask for a reload as well.
EditSettings(g) ==
    /\ cfgSrc # 0
    /\ cfgMu = None /\ cfgMu' = g
    /\ \E o \in Ops \cap {"settings", "settingsReload"} :
           EditObject(g, "settings", cfgSrc, o = "settingsReload")
    /\ shown' = edits + 2
    /\ UNCHANGED <<yaml, program, mu, cfg, cfgSrc, bound, running, crashes,
                   saved, overlapped, torn, unsaved>>

\* updateSettings before app.Run has called SetConfig: an error, but shown.
SettingsRefused ==
    /\ "settings" \in Ops
    /\ cfgSrc = 0 /\ cfgMu = None
    /\ edits < MaxEdits /\ edits' = edits + 1
    /\ shown' = edits + 2
    /\ UNCHANGED <<yaml, program, mu, cfgMu, objects, cfg, cfgSrc, bound,
                   running, call, crashes, history>>

\* PUT /api/proxy/auth whose second part is rejected after the first is applied.
SettingsRejected ==
    /\ "badSettings" \in Ops
    /\ cfgSrc # 0 /\ cfgMu = None
    /\ edits < MaxEdits /\ edits' = edits + 1
    /\ objects' = [objects EXCEPT ![cfgSrc]["settings"] = edits + 2]
    /\ unsaved' = TRUE
    /\ UNCHANGED <<yaml, program, mu, cfgMu, cfg, cfgSrc, bound, shown, running,
                   call, crashes, saved, overlapped, torn, astray>>

\* UpdateSubscriptionConfig, or an edit of the inline nodes.
EditLocked(g) ==
    /\ mu = None /\ mu' = g
    /\ \E section \in Ops \cap {"subs", "nodes"} :
           EditObject(g, section, cfg, FALSE)
    /\ UNCHANGED <<yaml, program, cfgMu, cfg, cfgSrc, bound, shown, running,
                   crashes, saved, overlapped, torn, unsaved>>

-----------------------------------------------------------------------------
(* SaveSettings, SaveSubscriptionConfig and SaveNodes *)

\* Mutant: a failed save of the proxy settings returns with cfgMu held.
MutantUnlock(g, ok) ==
    IF call[g].section = "settings"
    THEN /\ cfgMu' = IF ok THEN None ELSE cfgMu
         /\ UNCHANGED mu
    ELSE mu' = None /\ UNCHANGED cfgMu

Unlock(g, ok) ==
    IF call[g].section = "settings"
    THEN cfgMu' = None /\ UNCHANGED mu
    ELSE mu' = None /\ UNCHANGED cfgMu

\* Mutant: the edit in memory is never undone.
MutantUndo(g) == UNCHANGED objects /\ unsaved' = (unsaved \/ call[g].section = "settings")

\* A failed save is undone in m.cfg; the settings handlers leave what they set.
Undo(g) ==
    LET c == call[g] IN
    IF c.section = "settings"
    THEN UNCHANGED objects /\ unsaved' = TRUE
    ELSE /\ objects' = [objects EXCEPT ![c.object][c.section] = c.undo]
         /\ UNCHANGED unsaved

SaveFails(g) == Undo(g) /\ Unlock(g, FALSE) /\ Return(g)

unchangedBySave == <<program, cfg, cfgSrc, bound, shown, running, edits, crashes, astray>>

\* The file is read and decoded; a document mixed of two does not decode.
ReadFile(g) ==
    /\ At(g, "read")
    /\ \/ /\ yaml # Mixed
          /\ call' = [call EXCEPT ![g].at = "truncate", ![g].read = Decoded(yaml)]
          /\ overlapped' = (overlapped \/ \E h \in Goroutines \ {g} :
                                call[h].at \in {"truncate", "write"})
          /\ UNCHANGED <<mu, cfgMu, objects, unsaved>>
       \/ yaml = Mixed /\ SaveFails(g) /\ UNCHANGED overlapped
    /\ UNCHANGED <<yaml, unchangedBySave, saved, torn>>

\* os.WriteFile opens the file, which empties it.
Truncate(g) ==
    /\ At(g, "truncate")
    /\ \/ yaml' = Empty /\ Goto(g, "write") /\ UNCHANGED <<mu, cfgMu, objects, unsaved>>
       \/ WritesFail /\ SaveFails(g) /\ UNCHANGED yaml
    /\ UNCHANGED <<unchangedBySave, saved, overlapped, torn>>

\* Mutant: the save writes the whole configuration in memory.
MutantPatched(g) ==
    [s \in Sections |-> IF s = "rest" THEN call[g].read[s]
                        ELSE objects[call[g].object][s]]

\* The document read, with the section of this save replaced.
Patched(g) ==
    LET c == call[g] IN
    [c.read EXCEPT ![c.section] = objects[c.object][c.section]]

\* A write into a file another save has written meanwhile may leave its tail.
WriteFile(g) ==
    /\ At(g, "write")
    /\ yaml' \in {Patched(g)} \cup (IF yaml = Empty THEN {} ELSE {Mixed})
    /\ saved' = [saved EXCEPT ![call[g].section] = Patched(g)[call[g].section]]
    /\ unsaved' = (unsaved /\ call[g].section # "settings")
    /\ Unlock(g, TRUE)
    /\ call' = [call EXCEPT ![g] =
                    [NoCall EXCEPT !.at = IF call[g].thenReload THEN "reload" ELSE "idle"]]
    /\ UNCHANGED <<unchangedBySave, objects, overlapped, torn>>

\* The disk is full: the truncated file stays.
WriteFails(g) ==
    /\ At(g, "write") /\ WritesFail
    /\ torn' = TRUE
    /\ SaveFails(g)
    /\ UNCHANGED <<yaml, unchangedBySave, saved, overlapped>>

-----------------------------------------------------------------------------
(* Reloading: which object is m.cfg, and which the server's *)

\* A goroutine enters TriggerReload or, after a refresh, ReloadWithPortMap with
\* a new object, a copy of the one named.
CopyObject(g, object) ==
    /\ Len(objects) < MaxObjects
    /\ objects' = Append(objects, objects[object])
    /\ call' = [call EXCEPT ![g] = [NoCall EXCEPT !.at = "copied",
                                                  !.object = Len(objects) + 1]]

TriggerReload(g) ==
    /\ At(g, "reload") /\ mu = None
    /\ CopyObject(g, cfg)
    /\ UNCHANGED <<yaml, program, mu, cfgMu, cfg, cfgSrc, bound, shown, running,
                   edits, crashes, history>>

\* createNewConfig copies the object the loop was given at start, and so undoes
\* every edit of a later one; without a lock, it may copy an edit that fails.
Refresh(g) ==
    /\ g = Loop /\ At(g, "idle") /\ bound
    /\ CopyObject(g, 1)
    /\ astray' = (astray \/ mu # None \/ objects[1] # objects[cfg])
    /\ UNCHANGED <<yaml, program, mu, cfgMu, cfg, cfgSrc, bound, shown, running,
                   edits, crashes, saved, overlapped, torn, unsaved>>

\* Mutant: the old instance stays published while the reload runs.
MutantBeginReload(g) ==
    /\ At(g, "copied") /\ mu = None /\ running
    /\ call' = [call EXCEPT ![g].at = "loading", ![g].old = cfg]
    /\ UNCHANGED <<yaml, program, mu, cfgMu, objects, cfg, cfgSrc, bound, shown,
                   running, edits, crashes, history>>

BeginReload(g) ==
    /\ At(g, "copied") /\ mu = None
    /\ \/ /\ running
          /\ running' = FALSE
          /\ call' = [call EXCEPT ![g].at = "loading", ![g].old = cfg]
       \/ ~running /\ Return(g) /\ UNCHANGED running
    /\ UNCHANGED <<yaml, program, mu, cfgMu, objects, cfg, cfgSrc, bound, shown,
                   edits, crashes, history>>

\* The new instance runs, or the rollback's with the old configuration.
Publish(g) ==
    /\ At(g, "loading") /\ mu = None
    /\ \E object \in {call[g].object, call[g].old} :
           /\ cfg' = object
           /\ call' = [call EXCEPT ![g].at = "bind", ![g].object = object]
    /\ running' = TRUE
    /\ UNCHANGED <<yaml, program, mu, cfgMu, objects, cfgSrc, bound, shown,
                   edits, crashes, history>>

\* Neither starts: nothing is published, and no later reload begins.
ReloadDies(g) ==
    /\ At(g, "loading")
    /\ Return(g)
    /\ UNCHANGED <<yaml, program, mu, cfgMu, objects, cfg, cfgSrc, bound, shown,
                   running, edits, crashes, history>>

\* The server is told when m.mu has been given up.
TellServer(g) ==
    /\ At(g, "bind")
    /\ SetConfig(call[g].object)
    /\ Return(g)
    /\ UNCHANGED <<yaml, program, mu, cfgMu, objects, cfg, bound, running,
                   edits, crashes, history>>

-----------------------------------------------------------------------------
(* The specification *)

Edit(g) == program = "up" /\ g \in Handlers /\ At(g, "idle") /\ (EditSettings(g) \/ EditLocked(g))
SaveStep(g) == ReadFile(g) \/ Truncate(g) \/ WriteFile(g) \/ WriteFails(g)
ReloadStep(g) == BeginReload(g) \/ Publish(g) \/ ReloadDies(g) \/ TellServer(g)
NewReload(g) == program = "up" /\ (TriggerReload(g) \/ Refresh(g))

\* The program has refused its file, or it idles with its bounds used up.
Ended ==
    /\ program \in {"refused", "up"}
    /\ \A g \in Goroutines : call[g].at \in {"idle", "reload"}
    /\ UNCHANGED vars

Next ==
    \/ CreateDefault \/ WriteDefault \/ Load \/ Refuse \/ BindServer \/ Crash
    \/ program = "up" /\ (SettingsRefused \/ SettingsRejected)
    \/ \E g \in Goroutines : Edit(g) \/ SaveStep(g) \/ NewReload(g) \/ ReloadStep(g)
    \/ Ended

Spec == Init /\ [][Next]_vars

\* What has begun goes on: file operations return and mutexes are fair.
FairSpec ==
    /\ Spec
    /\ WF_vars(BindServer)
    /\ \A g \in Goroutines : WF_vars(SaveStep(g)) /\ SF_vars(ReloadStep(g))

-----------------------------------------------------------------------------
(* Properties *)

TypeOK ==
    /\ yaml \in Documents \cup {Missing, Empty, Mixed}
    /\ program \in {"boot", "default", "up", "refused"}
    /\ mu \in Goroutines \cup {None} /\ cfgMu \in Goroutines \cup {None}
    /\ objects \in Seq(Configs) /\ Len(objects) <= MaxObjects
    /\ cfg \in 0 .. Len(objects) /\ cfgSrc \in 0 .. Len(objects)
    /\ program = "up" => cfg # 0 /\ (bound => cfgSrc # 0)
    /\ shown \in Values
    /\ \A g \in Goroutines :
           /\ call[g].at \in {"idle", "read", "truncate", "write", "reload",
                              "copied", "loading", "bind"}
           /\ call[g].at \in {"read", "truncate", "write"} =>
                  IF call[g].section = "settings" THEN cfgMu = g ELSE mu = g
           /\ call[g].at = "loading" => ~running
    /\ saved \in Documents

\* While nobody is between the truncation of config.yaml and its write, the
\* file of a running program is the given document with every acknowledged save
\* in it, through reloads, rollbacks, crashes and restarts: a save keeps the
\* other sections, and a restart either finds them or refuses to start.  Only
\* two saves at a time, or a write that failed half way, can lose one
\* (Config.SaveSettings, SaveSubscriptionConfig, SaveNodes, Load).
AcknowledgedIsSaved ==
    program = "up" /\ ~overlapped /\ ~torn
        /\ (\A g \in Goroutines : ~At(g, "write")) =>
    yaml = saved

\* With no edit of them under way, the subscriptions and nodes of m.cfg are
\* those config.yaml holds: a failed save is undone, and a reload, a rollback
\* or a restart puts no other values in place.  The edits that are lost are
\* those a reload had already copied the object without
\* (Manager.UpdateSubscriptionConfig, CreateNode, Reload, copyConfigLocked).
MemoryIsOnDisk ==
    program = "up" /\ ~overlapped /\ ~torn /\ ~astray
        /\ mu = None /\ (\A g \in Goroutines : ~At(g, "write")) =>
    \A s \in {"subs", "nodes"} : objects[cfg][s] = yaml[s]

\* With no settings request under way and the server wired, the settings the
\* page shows, those of the server's object and those of m.cfg are the ones in
\* config.yaml, unless a request failed or an edit met a reload, the start, or
\* an object left behind (Server.updateSettings, Server.SetConfig, Manager.Reload).
ShownIsSaved ==
    program = "up" /\ bound /\ ~overlapped /\ ~torn /\ ~astray /\ ~unsaved
        /\ cfgMu = None /\ (\A g \in Goroutines : ~At(g, "write")) =>
    /\ shown = yaml["settings"]
    /\ \A object \in {cfg, cfgSrc} : objects[object]["settings"] = yaml["settings"]

\* Every request that has begun to save, and every reload that has begun,
\* comes to an end, whichever step of it fails: no path keeps a mutex
\* (Server.handleProxyAuth unlocks by hand on each of its exits).
RequestsEnd ==
    \A g \in Goroutines :
        (call[g].at \notin {"idle", "reload"}) ~> (call[g].at \in {"idle", "reload"})
===============================================================================
