---------------------------- MODULE Subscription ----------------------------
(***************************************************************************)
(* The subscription manager (internal/subscription): the refresh loop, the *)
(* HTTP handlers that ask it for a refresh and wait (RefreshNow), and the  *)
(* status they poll, which compares nodes.txt with what the last refresh   *)
(* wrote.  A step is what happens under one hold of m.mu, one access to    *)
(* the file, or one call of the box manager; what is local in between      *)
(* belongs to the step before or after it.                                 *)
(*                                                                         *)
(* A list of nodes is one value of Contents; Empty is a file cut short.    *)
(* The box manager is external: a reload succeeds or fails (BoxManager     *)
(* says what it does).                                                     *)
(***************************************************************************)
EXTENDS Naturals

CONSTANTS
    Contents,      \* the node lists a subscription or a user may provide
    Empty,         \* the content of a truncated file
    None,          \* no hash yet
    Handlers,      \* goroutines of the HTTP server
    MaxClock,      \* bound: values of the file system's clock
    MaxRefreshes,  \* bound: refreshes that are started
    MaxEdits       \* bound: writes of nodes.txt by others

ASSUME BoundsAssumption ==
    MaxClock \in Nat /\ MaxRefreshes \in Nat /\ MaxEdits \in Nat

ASSUME ContentsAssumption == Contents # {} /\ None \notin Contents

VARIABLES
    file,      \* nodes.txt: its content and modification time
    clock,     \* the time the file system stamps files with
    edits,     \* bound: writes by others so far
    status,    \* m.status: a failed last refresh, RefreshCount, IsRefreshing
    memory,    \* lastSubHash and lastNodesModTime
    manual,    \* a token is in the channel m.manualRefresh (capacity 1)
    stopped,   \* m.ctx is cancelled
    loop,      \* refreshLoop: where it is, and the nodes it has fetched
    serving,   \* external: the list last reloaded by the loop
    loads,     \* external: how many times the loop has reloaded the box
    calls      \* the handlers' calls

vars == <<file, clock, edits, status, memory, manual, stopped, loop, serving,
          loads, calls>>
managerVars == <<status, memory, stopped, serving, loads>>
fileVars == <<file, clock, edits>>

Files == [content : Contents \cup {Empty}, mod : 0..MaxClock]
Labels == {"select", "begin", "fetch", "write", "writing", "hash", "reload",
           "note", "end", "exited"}

\* Where a call is: about to request a refresh (send), in Status (status ..
\* cache), back from it (got), or waiting for the ticker (wait).
CallLabels == {"idle", "send", "status", "hash", "stat", "read", "cache", "got", "wait"}

\* Why Status was called: for the count before waiting, for a poll, for the
\* answer after a successful refresh, by the status endpoint.
Purposes == {"start", "poll", "answer", "endpoint"}

NoCall == [pc |-> "idle", why |-> "endpoint", start |-> 0, count |-> 0,
           error |-> FALSE, hash |-> None, mod |-> 0, modified |-> FALSE,
           since |-> 0]

Init ==
    \* Which list Load left there is of no consequence: nothing is compared
    \* with the file before the first refresh has written it.
    /\ file = [content |-> CHOOSE c \in Contents : TRUE, mod |-> 0]
    /\ clock = 0 /\ edits = 0
    /\ status = [error |-> FALSE, count |-> 0, isRefreshing |-> FALSE]
    /\ memory = [hash |-> None, mod |-> 0]
    /\ manual = FALSE
    /\ stopped = FALSE
    /\ loop = [pc |-> "select", nodes |-> None]
    /\ serving = None
    /\ loads = 0
    /\ calls = [h \in Handlers |-> NoCall]

-----------------------------------------------------------------------------
(* The surroundings                                                        *)

Tick ==
    /\ clock < MaxClock
    /\ clock' = clock + 1
    /\ UNCHANGED <<file, edits, manual, loop, calls, managerVars>>

\* The node endpoints save the nodes, or the user edits the file.
EditFile ==
    /\ edits < MaxEdits
    /\ edits' = edits + 1
    /\ \E c \in Contents : file' = [content |-> c, mod |-> clock]
    /\ UNCHANGED <<clock, manual, loop, calls, managerVars>>

Stop ==
    /\ ~stopped
    /\ stopped' = TRUE
    /\ UNCHANGED <<fileVars, status, memory, manual, loop, serving, loads, calls>>

-----------------------------------------------------------------------------
(* refreshLoop                                                             *)

At(label) == loop.pc = label
Goto(label) == loop' = [loop EXCEPT !.pc = label]

\* Bound: the ticker and the handlers ask for no more than this.
MayRefresh == status.count < MaxRefreshes

TickerFires ==
    /\ At("select")
    /\ MayRefresh
    /\ Goto("begin")
    /\ UNCHANGED <<fileVars, manual, calls, managerVars>>

TakeManual ==
    /\ At("select")
    /\ manual
    /\ manual' = FALSE
    /\ Goto("begin")
    /\ UNCHANGED <<fileVars, calls, managerVars>>

LoopExits ==
    /\ At("select")
    /\ stopped
    /\ Goto("exited")
    /\ UNCHANGED <<fileVars, manual, calls, managerVars>>

\* A plausible bug: the refresh is counted when it begins.
MutantBeginRefresh ==
    /\ At("begin")
    /\ status' = [status EXCEPT !.isRefreshing = TRUE, !.count = @ + 1]
    /\ Goto("fetch")
    /\ UNCHANGED <<fileVars, memory, manual, stopped, serving, loads, calls>>

\* doRefresh: refreshMu.TryLock cannot fail, the loop is its only user.
BeginRefresh ==
    /\ At("begin")
    /\ status' = [status EXCEPT !.isRefreshing = TRUE]
    /\ Goto("fetch")
    /\ UNCHANGED <<fileVars, memory, manual, stopped, serving, loads, calls>>

\* Two plausible bugs: a return that skips the deferred reset, and a failure
\* that is logged but not recorded.
MutantSkipsReset ==
    /\ loop.pc \in {"fetch", "write", "writing", "reload"}
    /\ status' = [status EXCEPT !.error = TRUE]
    /\ loop' = [pc |-> "select", nodes |-> None]
    /\ UNCHANGED <<fileVars, memory, manual, stopped, serving, loads, calls>>

MutantOnlyLogs ==
    /\ loop.pc \in {"fetch", "write", "writing", "reload"}
    /\ loop' = [pc |-> "end", nodes |-> None]
    /\ UNCHANGED <<fileVars, manual, calls, managerVars>>

\* LastError is set in a critical section of its own, before the counter.
RefreshFails ==
    /\ loop.pc \in {"fetch", "write", "writing", "reload"}
    /\ status' = [status EXCEPT !.error = TRUE]
    /\ loop' = [pc |-> "end", nodes |-> None]
    /\ UNCHANGED <<fileVars, memory, manual, stopped, serving, loads, calls>>

\* At least one subscription answers with nodes; the requests end with m.ctx.
FetchSucceeds ==
    /\ At("fetch")
    /\ ~stopped
    /\ \E c \in Contents : loop' = [pc |-> "write", nodes |-> c]
    /\ UNCHANGED <<fileVars, manual, calls, managerVars>>

\* os.WriteFile truncates the file, then writes it.
Truncate ==
    /\ At("write")
    /\ file' = [content |-> Empty, mod |-> clock]
    /\ Goto("writing")
    /\ UNCHANGED <<clock, edits, manual, calls, managerVars>>

WriteNodes ==
    /\ At("writing")
    /\ file' = [content |-> loop.nodes, mod |-> clock]
    /\ Goto("hash")
    /\ UNCHANGED <<clock, edits, manual, calls, managerVars>>

\* The hash is of what was fetched, the time of what the file is by now.
RememberFile ==
    /\ At("hash")
    /\ memory' = [hash |-> loop.nodes, mod |-> file.mod]
    /\ Goto("reload")
    /\ UNCHANGED <<fileVars, status, manual, stopped, serving, loads, calls>>

ReloadSucceeds ==
    /\ At("reload")
    /\ serving' = loop.nodes
    /\ loads' = loads + 1
    /\ Goto("note")
    /\ UNCHANGED <<fileVars, status, memory, manual, stopped, calls>>

NoteSuccess ==
    /\ At("note")
    /\ status' = [status EXCEPT !.error = FALSE]
    /\ Goto("end")
    /\ UNCHANGED <<fileVars, memory, manual, stopped, serving, loads, calls>>

\* The deferred function, whatever the outcome.
EndRefresh ==
    /\ At("end")
    /\ status' = [status EXCEPT !.isRefreshing = FALSE, !.count = @ + 1]
    /\ loop' = [pc |-> "select", nodes |-> None]
    /\ UNCHANGED <<fileVars, memory, manual, stopped, serving, loads, calls>>

LoopStep ==
    \/ TickerFires \/ TakeManual \/ LoopExits \/ BeginRefresh \/ RefreshFails
    \/ FetchSucceeds \/ Truncate \/ WriteNodes \/ RememberFile
    \/ ReloadSucceeds \/ NoteSuccess \/ EndRefresh

-----------------------------------------------------------------------------
(* Status and RefreshNow, called by handler h                              *)

CallAt(h, label) == calls[h].pc = label

\* A handler that only reads changes nothing but its own call.
ReadsOnly == UNCHANGED <<fileVars, manual, loop, managerVars>>

RefreshNow(h) ==
    /\ CallAt(h, "idle")
    /\ MayRefresh
    /\ calls' = [calls EXCEPT ![h].pc = "send", ![h].why = "start"]
    /\ ReadsOnly

\* Auxiliary: the refreshes that have loaded a list and are over.
EndedLoads ==
    IF loop.pc \in {"note", "end"} /\ loop.nodes # None
    THEN loads - 1 ELSE loads

\* Back from CheckNodesModified, whose locals are gone.
Checked(h) == [calls[h] EXCEPT !.pc = "got", !.hash = None, !.mod = 0]

\* A plausible bug: the channel has no buffer, a busy loop misses the token.
MutantSendToken(h) ==
    /\ CallAt(h, "send")
    /\ manual' = At("select")
    /\ calls' = [calls EXCEPT ![h].pc = "status", ![h].since = EndedLoads]
    /\ UNCHANGED <<fileVars, loop, managerVars>>

\* Sends the token, or finds one in the channel; then Status for the count.
SendToken(h) ==
    /\ CallAt(h, "send")
    /\ manual' = TRUE
    /\ calls' = [calls EXCEPT ![h].pc = "status", ![h].since = EndedLoads]
    /\ UNCHANGED <<fileVars, loop, managerVars>>

StatusEndpoint(h) ==
    /\ CallAt(h, "idle")
    /\ calls' = [calls EXCEPT ![h].pc = "status", ![h].why = "endpoint"]
    /\ ReadsOnly

ReadStatus(h) ==
    /\ CallAt(h, "status")
    /\ calls' = [calls EXCEPT ![h].pc = "hash", ![h].count = status.count,
                              ![h].error = status.error]
    /\ ReadsOnly

\* CheckNodesModified: no previous refresh, nothing to compare with.
ReadHash(h) ==
    /\ CallAt(h, "hash")
    /\ calls' = [calls EXCEPT ![h] =
                   IF memory.hash = None THEN Checked(h)
                   ELSE [@ EXCEPT !.pc = "stat", !.hash = memory.hash,
                                  !.mod = memory.mod]]
    /\ ReadsOnly

\* The fast path, the answer is no: a file that is not younger is not read.
StatFile(h) ==
    /\ CallAt(h, "stat")
    /\ IF file.mod > calls[h].mod
       THEN calls' = [calls EXCEPT ![h].pc = "read", ![h].mod = file.mod]
       ELSE calls' = [calls EXCEPT ![h] = Checked(h)]
    /\ ReadsOnly

ReadFile(h) ==
    /\ CallAt(h, "read")
    /\ calls' = [calls EXCEPT ![h].pc = "cache",
                              ![h].modified = file.content # calls[h].hash]
    /\ ReadsOnly

\* Remembers the time read before, whatever the file or the memory is by now.
CacheModTime(h) ==
    /\ CallAt(h, "cache")
    /\ memory' = [memory EXCEPT !.mod = calls[h].mod]
    /\ calls' = [calls EXCEPT ![h] = Checked(h)]
    /\ UNCHANGED <<fileVars, status, manual, loop, stopped, serving, loads>>

StartWaiting(h) ==
    /\ CallAt(h, "got") /\ calls[h].why = "start"
    /\ calls' = [calls EXCEPT ![h].pc = "wait", ![h].start = calls[h].count,
                              ![h].count = 0, ![h].error = FALSE,
                              ![h].modified = FALSE]
    /\ ReadsOnly

Poll(h) ==
    /\ CallAt(h, "wait")
    /\ calls' = [calls EXCEPT ![h].pc = "status", ![h].why = "poll"]
    /\ ReadsOnly

\* A plausible bug: the wait is given up when the manager stops, not before.
MutantTimeout(h) ==
    /\ CallAt(h, "wait")
    /\ stopped
    /\ calls' = [calls EXCEPT ![h] = NoCall]
    /\ ReadsOnly

\* The timeout of the call, or Stop: both end its context.
Timeout(h) ==
    /\ CallAt(h, "wait")
    /\ calls' = [calls EXCEPT ![h] = NoCall]
    /\ ReadsOnly

KeepWaiting(h) ==
    /\ CallAt(h, "got") /\ calls[h].why = "poll"
    /\ calls[h].count <= calls[h].start
    /\ calls' = [calls EXCEPT ![h].pc = "wait", ![h].count = 0,
                              ![h].error = FALSE, ![h].modified = FALSE]
    /\ ReadsOnly

Succeeds(h) == calls[h].count > calls[h].start /\ ~calls[h].error

\* nil, upon which handleSubscriptionRefresh asks for the status once more.
RefreshDone(h) ==
    /\ CallAt(h, "got") /\ calls[h].why = "poll"
    /\ Succeeds(h)
    /\ calls' = [calls EXCEPT ![h] = [NoCall EXCEPT !.pc = "status",
                                 !.why = "answer", !.since = calls[h].since]]
    /\ ReadsOnly

RefreshFailed(h) ==
    /\ CallAt(h, "got") /\ calls[h].why = "poll"
    /\ calls[h].count > calls[h].start /\ calls[h].error
    /\ calls' = [calls EXCEPT ![h] = NoCall]
    /\ ReadsOnly

Answer(h) ==
    /\ CallAt(h, "got") /\ calls[h].why \in {"answer", "endpoint"}
    /\ calls' = [calls EXCEPT ![h] = NoCall]
    /\ ReadsOnly

StatusStep(h) ==
    \/ ReadStatus(h) \/ ReadHash(h) \/ StatFile(h) \/ ReadFile(h)
    \/ CacheModTime(h)

CallStep(h) ==
    \/ SendToken(h) \/ StatusStep(h) \/ StartWaiting(h) \/ Poll(h) 
    \/ KeepWaiting(h) \/ RefreshDone(h) \/ RefreshFailed(h) \/ Answer(h)

-----------------------------------------------------------------------------
Surroundings == Tick \/ EditFile \/ Stop

Next ==
    \/ Surroundings
    \/ LoopStep
    \/ \E h \in Handlers : RefreshNow(h) \/ StatusEndpoint(h) \/ CallStep(h)
                           \/ Timeout(h)

Spec == Init /\ [][Next]_vars

\* The scheduler runs every goroutine; fetches and reloads return, they are
\* bounded by timeouts; select chooses at random among the channels that are
\* ready, hence strong fairness for a token and for an expired context.  No
\* fairness for the ticker, for Stop and for new calls.
FairSpec ==
    /\ Spec
    /\ WF_vars(LoopStep /\ loop.pc # "select")
    /\ WF_vars(LoopExits) /\ SF_vars(TakeManual)
    /\ \A h \in Handlers : WF_vars(CallStep(h)) /\ SF_vars(Timeout(h))

-----------------------------------------------------------------------------
(* Properties                                                              *)

\* Every variable has its type; beyond the types, IsRefreshing is raised
\* exactly while the loop is inside doRefresh, whichever way it leaves it.
TypeOK ==
    /\ file \in Files
    /\ clock \in 0..MaxClock /\ edits \in 0..MaxEdits
    /\ status \in [error : BOOLEAN, count : Nat,
                   isRefreshing : BOOLEAN]
    /\ memory \in [hash : Contents \cup {None}, mod : 0..MaxClock]
    /\ manual \in BOOLEAN /\ stopped \in BOOLEAN
    /\ loop \in [pc : Labels, nodes : Contents \cup {None}]
    /\ serving \in Contents \cup {None} /\ loads \in Nat
    /\ calls \in [Handlers ->
           [pc : CallLabels, why : Purposes, start : Nat,
            count : Nat, error : BOOLEAN,
            hash : Contents \cup {None}, mod : 0..MaxClock,
            modified : BOOLEAN, since : Nat]]
    /\ status.isRefreshing <=> loop.pc \notin {"select", "begin", "exited"}

\* A caller that is told the refresh succeeded was not deceived by LastError
\* and RefreshCount changing in different critical sections: a refresh that
\* was not over when it sent its request really loaded a fetched list.
SuccessIsReal ==
    \A h \in Handlers : calls[h].why = "answer" => loads > calls[h].since

\* Between refreshes, a status without error means that what the last refresh
\* wrote and hashed is what it loaded: the hash is not that of a list whose
\* reload failed.
QuietStatusIsTrue ==
    At("select") /\ ~status.error => serving = memory.hash

\* Unless the manager is stopped, a refresh begins after every request, also
\* if the request came while another refresh was under way.
RequestIsFollowed ==
    \A h \in Handlers :
        calls[h].pc = "send" ~> At("begin") \/ stopped

\* No call waits for ever: not for a refresh whose end came before the count
\* was read, and not after Stop.
CallsReturn ==
    \A h \in Handlers : calls[h].pc # "idle" ~> calls[h].pc = "idle"
=============================================================================
