-------------------------- MODULE SubscriptionProofs --------------------------
(***************************************************************************)
(* Proofs about Subscription, for every set of handlers and lists and      *)
(* every number of refreshes: type correctness, that a refresh reported as *)
(* a success is one, and that the status at rest tells what is served.     *)
(***************************************************************************)
EXTENDS Subscription, TLAPS

Calls == [pc : CallLabels, why : Purposes, start : Nat,
          count : Nat, error : BOOLEAN,
          hash : Contents \cup {None}, mod : 0..MaxClock,
          modified : BOOLEAN, since : Nat]

TypeShared ==
    /\ file \in Files /\ clock \in 0..MaxClock /\ edits \in 0..MaxEdits
    /\ status \in [error : BOOLEAN, count : Nat, isRefreshing : BOOLEAN]
    /\ memory \in [hash : Contents \cup {None}, mod : 0..MaxClock]
    /\ manual \in BOOLEAN /\ stopped \in BOOLEAN
    /\ serving \in Contents \cup {None} /\ loads \in Nat

\* The loop has what it fetched until it has loaded it; a refresh that ends
\* without an error is one that loaded a list.
TypeLoop ==
    /\ loop \in [pc : Labels, nodes : Contents \cup {None}]
    /\ status.isRefreshing <=> loop.pc \notin {"select", "begin", "exited"}
    /\ loop.pc \in {"write", "writing", "hash", "reload", "note"} => loop.nodes # None
    /\ loop.pc \in {"note", "end"} /\ loop.nodes # None => loads # 0
    /\ loop.pc = "end" => (loop.nodes = None <=> status.error)

TypeInv ==
    /\ TypeShared /\ TypeLoop
    /\ calls \in [Handlers -> Calls]

\* What was hashed is what is served, but for the time between the two, unless
\* an error is on record.
HashInv ==
    /\ loop.pc = "reload" => memory.hash = loop.nodes
    /\ loop.pc = "note" => serving = memory.hash
    /\ loop.pc \notin {"reload", "note"} /\ ~status.error => serving = memory.hash

\* The labels of a call that has read the status, and not yet used it.
AfterRead == {"hash", "stat", "read", "cache", "got"}

\* The count a call has taken as its starting point, once it has.
HasStart(c) == c.why = "poll" \/ (c.why = "start" /\ c.pc \in AfterRead \cup {"wait"})
StartOf(c) == IF c.why = "start" /\ c.pc \in AfterRead THEN c.count ELSE c.start

\* A refresh that ends after the request has loaded a list the request did not
\* count, or leaves an error, until a later one has loaded a list.
SuccessFollows(c) ==
    /\ c.why = "poll" \/ (c.why = "start" /\ c.pc # "send") => c.since <= EndedLoads
    /\ HasStart(c) => (status.count > StartOf(c) /\ ~status.error => loads > c.since)
    /\ c.why = "poll" /\ c.pc \in AfterRead =>
           (c.count > c.start /\ ~c.error => loads > c.since)
    /\ c.why = "answer" => loads > c.since

CallInv == \A h \in Handlers : SuccessFollows(calls[h])

USE BoundsAssumption, ContentsAssumption

-----------------------------------------------------------------------------
(* Type correctness *)

\* The program starts with every part of its state of its type.
LEMMA TypeInit == Init => TypeInv
<1> SUFFICES ASSUME Init PROVE TypeInv
  OBVIOUS
<1>1. TypeShared
  <2>1. (CHOOSE c \in Contents : TRUE) \in Contents
    OBVIOUS
  <2>2. file \in Files
    BY <2>1 DEF Init, Files
  <2>3. status \in [error : BOOLEAN, count : Nat, isRefreshing : BOOLEAN]
    BY DEF Init
  <2>4. memory \in [hash : Contents \cup {None}, mod : 0..MaxClock]
    BY DEF Init
  <2>5. manual \in BOOLEAN /\ stopped \in BOOLEAN
    BY DEF Init
  <2>6. /\ serving \in Contents \cup {None} /\ loads \in Nat /\ clock \in 0..MaxClock
        /\ edits \in 0..MaxEdits
    BY DEF Init
  <2> QED
    BY <2>2, <2>3, <2>4, <2>5, <2>6 DEF TypeShared
<1>2. TypeLoop
  BY DEF Init, TypeLoop, Labels
<1>3. NoCall \in Calls
  BY DEF NoCall, Calls, CallLabels, Purposes
<1> QED
  BY <1>1, <1>2, <1>3 DEF Init, TypeInv

\* The refreshes a handler has seen the end of are counted in Nat.
LEMMA EndedLoadsType == TypeInv => EndedLoads \in Nat /\ EndedLoads <= loads
  BY DEF TypeInv, TypeShared, TypeLoop, EndedLoads

\* Also after a step.
LEMMA EndedLoadsNext == TypeInv' => (EndedLoads \in Nat)'
  BY EndedLoadsType, PTL

\* The steps of the loop, of the file system and of Stop keep the types.
LEMMA LoopTypes ==
    ASSUME TypeInv, LoopStep \/ Surroundings
    PROVE  TypeInv'
<1> USE DEF TypeInv, TypeShared, TypeLoop, fileVars, managerVars, At, Goto
<1>1. UNCHANGED calls
  BY DEF LoopStep, Surroundings, Tick, EditFile, Stop, TickerFires, TakeManual, LoopExits,
         BeginRefresh, RefreshFails, FetchSucceeds, Truncate, WriteNodes, RememberFile,
         ReloadSucceeds, NoteSuccess, EndRefresh
<1>2. CASE Tick \/ Stop
  <2>1. stopped' \in BOOLEAN
    BY <1>2 DEF Tick, Stop
  <2>2. clock' \in 0..MaxClock
    BY <1>2 DEF Tick, Stop
  <2>3. UNCHANGED <<file, edits, status, memory, manual, serving, loads, loop>>
    BY <1>2 DEF Tick, Stop
  <2> QED
    BY <1>1, <2>1, <2>2, <2>3
<1>3. CASE EditFile
  <2>1. file' \in Files /\ edits' \in 0..MaxEdits
    BY <1>3 DEF EditFile, Files
  <2> QED
    BY <1>1, <1>3, <2>1 DEF EditFile
<1>4. CASE TickerFires \/ TakeManual \/ LoopExits
  BY <1>1, <1>4 DEF TickerFires, TakeManual, LoopExits, Labels
<1>5. CASE BeginRefresh
  BY <1>1, <1>5 DEF BeginRefresh, Labels
<1>6. CASE FetchSucceeds
  BY <1>1, <1>6 DEF FetchSucceeds, Labels
<1>7. CASE RefreshFails
  BY <1>1, <1>7 DEF RefreshFails, Labels
<1>8. CASE Truncate \/ WriteNodes
  BY <1>1, <1>8 DEF Truncate, WriteNodes, Labels, Files
<1>9. CASE RememberFile
  BY <1>1, <1>9 DEF RememberFile, Labels, Files
<1>10. CASE ReloadSucceeds
  BY <1>1, <1>10 DEF ReloadSucceeds, Labels
<1>11. CASE NoteSuccess
  BY <1>1, <1>11 DEF NoteSuccess, Labels
<1>12. CASE EndRefresh
  <2>1. status' \in [error : BOOLEAN, count : Nat, isRefreshing : BOOLEAN]
    <3>1. status' = [status EXCEPT !.isRefreshing = FALSE, !.count = status.count + 1]
      BY <1>12 DEF EndRefresh
    <3>2. status.count + 1 \in Nat /\ FALSE \in BOOLEAN
      OBVIOUS
    <3> QED
      BY <3>1, <3>2
  <2>2. status'.isRefreshing = FALSE
    BY <1>12 DEF EndRefresh
  <2>3. loop' \in [pc : Labels, nodes : Contents \cup {None}] /\ loop'.pc = "select"
    BY <1>12 DEF EndRefresh, Labels
  <2>4. UNCHANGED <<file, clock, edits, memory, manual, stopped, serving, loads>>
    BY <1>12 DEF EndRefresh
  <2> QED
    BY <1>1, <2>1, <2>2, <2>3, <2>4
<1> QED
  BY <1>2, <1>3, <1>4, <1>5, <1>6, <1>7, <1>8, <1>9, <1>10, <1>11, <1>12
  DEF LoopStep, Surroundings

HandlerStep(h) == RefreshNow(h) \/ StatusEndpoint(h) \/ CallStep(h) \/ Timeout(h)

\* What a handler leaves alone: all but its call, the token, and the
\* modification time that is remembered.
HandlerFrame ==
    /\ UNCHANGED <<file, clock, edits, status, stopped, loop, serving, loads>>
    /\ manual' \in BOOLEAN
    /\ memory' = memory \/ \E m \in 0..MaxClock : memory' = [memory EXCEPT !.mod = m]

\* A handler changes its own call, to a call.
LEMMA HandlerTypes ==
    ASSUME TypeInv, NEW h \in Handlers, HandlerStep(h)
    PROVE  HandlerFrame /\ \E c \in Calls : calls' = [calls EXCEPT ![h] = c]
<1>1. calls \in [Handlers -> Calls] /\ calls[h] \in Calls
  BY DEF TypeInv
<1>2. HandlerFrame
  <2>1. CASE SendToken(h)
    BY <2>1 DEF SendToken, HandlerFrame, fileVars, managerVars
  <2>2. CASE CacheModTime(h)
    <3>1. calls[h].mod \in 0..MaxClock
      BY <1>1 DEF Calls
    <3> QED
      BY <2>2, <3>1 DEF CacheModTime, HandlerFrame, fileVars, TypeInv, TypeShared
  <2>3. CASE ReadsOnly
    BY <2>3 DEF ReadsOnly, HandlerFrame, fileVars, managerVars, TypeInv, TypeShared
  <2> QED
    BY <2>1, <2>2, <2>3
    DEF HandlerStep, RefreshNow, StatusEndpoint, CallStep, StatusStep, Timeout, ReadStatus,
        ReadHash, StatFile, ReadFile, StartWaiting, Poll, KeepWaiting, RefreshDone, RefreshFailed,
        Answer
<1>3. NoCall \in Calls
  BY DEF NoCall, Calls, CallLabels, Purposes
<1>4. Checked(h) \in Calls
  <2>1. None \in Contents \cup {None} /\ 0 \in 0..MaxClock /\ "got" \in CallLabels
    BY DEF CallLabels
  <2> QED
    BY <1>1, <2>1 DEF Checked, Calls
<1>5. /\ status.count \in Nat /\ status.error \in BOOLEAN /\ file.mod \in 0..MaxClock
      /\ memory.hash \in Contents \cup {None} /\ memory.mod \in 0..MaxClock
  BY DEF TypeInv, TypeShared, Files
<1>6. EndedLoads \in Nat
  BY EndedLoadsType
<1> SUFFICES \E c \in Calls : calls' = [calls EXCEPT ![h] = c]
  BY <1>2
<1>7. CASE RefreshNow(h) \/ StatusEndpoint(h) \/ Poll(h)
  <2>1. \A why \in Purposes, pc \in CallLabels : [calls[h] EXCEPT !.pc = pc, !.why = why] \in Calls
    BY <1>1 DEF Calls
  <2>2. \E why \in Purposes, pc \in CallLabels :
            calls' = [calls EXCEPT ![h] = [calls[h] EXCEPT !.pc = pc, !.why = why]]
    <3>1. CASE RefreshNow(h)
      BY <1>1, <3>1 DEF RefreshNow, Purposes, CallLabels
    <3>2. CASE StatusEndpoint(h)
      BY <1>1, <3>2 DEF StatusEndpoint, Purposes, CallLabels
    <3>3. CASE Poll(h)
      BY <1>1, <3>3 DEF Poll, Purposes, CallLabels
    <3> QED
      BY <1>7, <3>1, <3>2, <3>3
  <2> QED
    BY <2>1, <2>2
<1>8. CASE SendToken(h)
  <2>1. [calls[h] EXCEPT !.pc = "status", !.since = EndedLoads] \in Calls
    BY <1>1, <1>6 DEF Calls, CallLabels
  <2> QED
    BY <1>1, <1>8, <2>1 DEF SendToken
<1>9. CASE ReadStatus(h)
  <2>1. [calls[h] EXCEPT !.pc = "hash", !.count = status.count, !.error = status.error] \in Calls
    BY <1>1, <1>5 DEF Calls, CallLabels
  <2> QED
    BY <1>1, <1>9, <2>1 DEF ReadStatus
<1>10. CASE ReadHash(h)
  <2>1. [calls[h] EXCEPT !.pc = "stat", !.hash = memory.hash, !.mod = memory.mod] \in Calls
    BY <1>1, <1>5 DEF Calls, CallLabels
  <2> QED
    BY <1>1, <1>4, <1>10, <2>1 DEF ReadHash
<1>11. CASE StatFile(h)
  <2>1. [calls[h] EXCEPT !.pc = "read", !.mod = file.mod] \in Calls
    BY <1>1, <1>5 DEF Calls, CallLabels
  <2> QED
    BY <1>1, <1>4, <1>11, <2>1 DEF StatFile
<1>12. CASE ReadFile(h)
  <2>1. \A b \in BOOLEAN : [calls[h] EXCEPT !.pc = "cache", !.modified = b] \in Calls
    BY <1>1 DEF Calls, CallLabels
  <2>2. (file.content # calls[h].hash) \in BOOLEAN
    OBVIOUS
  <2>3. [calls[h] EXCEPT !.pc = "cache", !.modified = (file.content # calls[h].hash)] \in Calls
    BY <2>1, <2>2
  <2> QED
    BY <1>1, <1>12, <2>3 DEF ReadFile
<1>13. CASE CacheModTime(h)
  BY <1>1, <1>4, <1>13 DEF CacheModTime
<1>14. CASE StartWaiting(h)
  <2>1. calls[h].count \in Nat
    BY <1>1 DEF Calls
  <2>2. [calls[h] EXCEPT !.pc = "wait", !.start = calls[h].count, !.count = 0, !.error = FALSE,
                         !.modified = FALSE] \in Calls
    BY <1>1, <2>1 DEF Calls, CallLabels
  <2> QED
    BY <1>1, <1>14, <2>2 DEF StartWaiting
<1>15. CASE KeepWaiting(h)
  <2>1. [calls[h] EXCEPT !.pc = "wait", !.count = 0, !.error = FALSE, !.modified = FALSE] \in Calls
    BY <1>1 DEF Calls, CallLabels
  <2> QED
    BY <1>1, <1>15, <2>1 DEF KeepWaiting
<1>16. CASE RefreshDone(h)
  <2>1. calls[h].since \in Nat
    BY <1>1 DEF Calls
  <2>2. [NoCall EXCEPT !.pc = "status", !.why = "answer", !.since = calls[h].since] \in Calls
    BY <1>3, <2>1 DEF Calls, CallLabels, Purposes
  <2> QED
    BY <1>16, <2>2 DEF RefreshDone
<1>17. CASE Timeout(h) \/ RefreshFailed(h) \/ Answer(h)
  BY <1>3, <1>17 DEF Timeout, RefreshFailed, Answer
<1> QED
  BY <1>7, <1>8, <1>9, <1>10, <1>11, <1>12, <1>13, <1>14, <1>15, <1>16, <1>17
  DEF HandlerStep, CallStep, StatusStep

\* Every step keeps the types.
LEMMA TypeStep == TypeInv /\ [Next]_vars => TypeInv'
<1> SUFFICES ASSUME TypeInv, [Next]_vars PROVE TypeInv'
  OBVIOUS
<1>1. ASSUME NEW h \in Handlers, HandlerStep(h) PROVE TypeInv'
  <2>1. HandlerFrame /\ \E c \in Calls : calls' = [calls EXCEPT ![h] = c]
    BY <1>1, HandlerTypes
  <2>2. calls' \in [Handlers -> Calls]
    BY <2>1 DEF TypeInv
  <2> QED
    BY <2>1, <2>2 DEF HandlerFrame, TypeInv, TypeShared, TypeLoop
<1>2. CASE UNCHANGED vars
  BY <1>2 DEF vars, TypeInv, TypeShared, TypeLoop
<1> QED
  BY <1>1, <1>2, LoopTypes DEF Next, HandlerStep

\* Type correctness (all of Subscription); IsRefreshing is raised exactly while
\* the loop is inside doRefresh.
THEOREM TypeCorrect == Spec => []TypeOK
<1>1. TypeInv => TypeOK
  BY DEF TypeInv, TypeShared, TypeLoop, Calls, TypeOK
<1> QED
  BY <1>1, TypeInit, TypeStep, PTL DEF Spec

-----------------------------------------------------------------------------
(* What the status tells at rest *)

\* Between refreshes, a status without error means that what the last refresh
\* wrote and hashed is what it loaded (QuietStatusIsTrue).
THEOREM QuietStatusStaysTrue == Spec => []QuietStatusIsTrue
<1>1. Init => HashInv
  BY DEF Init, HashInv
<1>2. TypeInv /\ HashInv /\ [Next]_vars => HashInv'
  <2> SUFFICES ASSUME TypeInv, HashInv, [Next]_vars PROVE HashInv'
    OBVIOUS
  <2> USE DEF HashInv, TypeInv, TypeShared, TypeLoop, At, Goto
  <2>1. ASSUME NEW h \in Handlers, HandlerStep(h) PROVE HashInv'
    <3>1. HandlerFrame
      BY <2>1, HandlerTypes
    <3> QED
      BY <3>1 DEF HandlerFrame
  <2>2. CASE Surroundings \/ TickerFires \/ TakeManual \/ LoopExits
    BY <2>2 DEF Surroundings, Tick, EditFile, Stop, TickerFires, TakeManual, LoopExits, managerVars
  <2>3. CASE BeginRefresh \/ FetchSucceeds \/ Truncate \/ WriteNodes
    BY <2>3 DEF BeginRefresh, FetchSucceeds, Truncate, WriteNodes, managerVars
  <2>4. CASE RefreshFails \/ RememberFile
    BY <2>4 DEF RefreshFails, RememberFile
  <2>5. CASE ReloadSucceeds \/ NoteSuccess
    BY <2>5 DEF ReloadSucceeds, NoteSuccess
  <2>6. CASE EndRefresh
    BY <2>6 DEF EndRefresh
  <2>7. CASE UNCHANGED vars
    BY <2>7 DEF vars
  <2> QED
    BY <2>1, <2>2, <2>3, <2>4, <2>5, <2>6, <2>7 DEF Next, LoopStep, HandlerStep
<1>3. HashInv => QuietStatusIsTrue
  BY DEF HashInv, QuietStatusIsTrue, At
<1> QED
  BY <1>1, <1>2, <1>3, TypeInit, TypeStep, PTL DEF Spec

-----------------------------------------------------------------------------
(* What a caller is told *)

\* A step of the loop forgets no load, and when it counts a refresh as over
\* without an error, or clears the error, that refresh has loaded a list that
\* was not counted before.
Progress ==
    /\ EndedLoads' >= EndedLoads /\ loads' >= loads
    /\ \/ loads' > EndedLoads
       \/ status'.error
       \/ status'.count = status.count /\ status'.error = status.error

\* Every step of the loop is of that kind, and so are the surroundings'.
LEMMA LoopProgress ==
    ASSUME TypeInv, LoopStep \/ Surroundings
    PROVE  Progress /\ UNCHANGED calls
<1> USE DEF TypeInv, TypeShared, TypeLoop, fileVars, managerVars, At, Goto, EndedLoads, Progress
<1>1. CASE Surroundings
  BY <1>1 DEF Surroundings, Tick, EditFile, Stop
<1>2. CASE TickerFires \/ TakeManual \/ LoopExits
  BY <1>2 DEF TickerFires, TakeManual, LoopExits
<1>3. CASE BeginRefresh \/ FetchSucceeds
  BY <1>3 DEF BeginRefresh, FetchSucceeds
<1>4. CASE RefreshFails
  BY <1>4 DEF RefreshFails
<1>5. CASE Truncate \/ WriteNodes \/ RememberFile
  BY <1>5 DEF Truncate, WriteNodes, RememberFile
<1>6. CASE ReloadSucceeds
  BY <1>6 DEF ReloadSucceeds
<1>7. CASE NoteSuccess
  <2>1. /\ loop.pc = "note" /\ loop'.pc = "end" /\ loop'.nodes = loop.nodes
        /\ loads' = loads /\ UNCHANGED calls
    BY <1>7 DEF NoteSuccess
  <2>2. loop.nodes # None /\ loads \in Nat /\ loads # 0
    BY <2>1
  <2>3. EndedLoads = loads - 1 /\ EndedLoads' = loads - 1
    BY <2>1, <2>2
  <2> HIDE DEF EndedLoads, TypeInv
  <2> QED
    BY <2>1, <2>2, <2>3
<1>8. CASE EndRefresh
  <2>1. /\ loop.pc = "end" /\ loop'.pc = "select" /\ loads' = loads /\ UNCHANGED calls
        /\ status'.error = status.error
    BY <1>8 DEF EndRefresh
  <2>2. EndedLoads' = loads /\ EndedLoads <= loads /\ EndedLoads \in Nat /\ loads \in Nat
    BY <2>1, EndedLoadsType
  <2>3. ~status.error => EndedLoads < loads
    BY <2>1
  <2> HIDE DEF EndedLoads, TypeInv
  <2> QED
    BY <2>1, <2>2, <2>3
<1> QED
  BY <1>1, <1>2, <1>3, <1>4, <1>5, <1>6, <1>7, <1>8 DEF LoopStep

\* Such a step keeps what is known of every call.
LEMMA ProgressKeepsCalls ==
    ASSUME TypeInv, TypeInv', CallInv, Progress, UNCHANGED calls
    PROVE  CallInv'
<1> SUFFICES ASSUME NEW h \in Handlers PROVE SuccessFollows(calls[h])'
  BY DEF CallInv
<1>1. /\ EndedLoads \in Nat /\ EndedLoads' \in Nat /\ loads \in Nat /\ loads' \in Nat
      /\ status.count \in Nat /\ calls[h] \in Calls /\ calls'[h] = calls[h]
  <2>1. EndedLoads \in Nat
    BY EndedLoadsType
  <2>2. EndedLoads' \in Nat
    BY EndedLoadsNext
  <2> QED
    BY <2>1, <2>2 DEF TypeInv, TypeShared
<1>2. calls[h].since \in Nat /\ calls[h].start \in Nat /\ calls[h].count \in Nat
  BY <1>1 DEF Calls
<1>3. SuccessFollows(calls[h])
  BY DEF CallInv
<1>4. calls[h].why = "poll" \/ (calls[h].why = "start" /\ calls[h].pc # "send") =>
          calls[h].since <= EndedLoads
  BY <1>3 DEF SuccessFollows
<1>5. HasStart(calls[h]) => calls[h].since <= EndedLoads
  BY <1>4 DEF HasStart, AfterRead
<1> HIDE DEF CallInv
<1> QED
  BY <1>1, <1>2, <1>3, <1>4, <1>5 DEF SuccessFollows, HasStart, StartOf, Progress

\* A call keeps to what is known of it: it takes its starting point after the
\* token is sent, and reads the count and the error together.
LEMMA HandlerKeepsCalls ==
    ASSUME TypeInv, CallInv, NEW h \in Handlers, HandlerStep(h)
    PROVE  CallInv'
<1>1. HandlerFrame /\ \E c \in Calls : calls' = [calls EXCEPT ![h] = c]
  BY HandlerTypes
<1>2. UNCHANGED <<status, loads, EndedLoads>> /\ calls' \in [Handlers -> Calls]
  BY <1>1 DEF HandlerFrame, EndedLoads, TypeInv
<1>3. \A g \in Handlers \ {h} : calls'[g] = calls[g]
  BY <1>1 DEF TypeInv
<1>4. ASSUME NEW g \in Handlers \ {h} PROVE SuccessFollows(calls[g])'
  <2>1. SuccessFollows(calls[g])
    BY DEF CallInv
  <2> QED
    BY <1>2, <1>3, <2>1 DEF SuccessFollows, HasStart, StartOf
<1>5. /\ calls \in [Handlers -> Calls] /\ calls[h] \in Calls /\ EndedLoads \in Nat
      /\ loads \in Nat /\ status.count \in Nat
  BY EndedLoadsType DEF TypeInv, TypeShared
<1>6. SuccessFollows(calls[h])
  BY DEF CallInv
<1>7. SuccessFollows(calls[h])'
  <2> USE DEF SuccessFollows, HasStart, StartOf, AfterRead
  <2>1. CASE RefreshNow(h) \/ StatusEndpoint(h) \/ Poll(h)
    BY <1>2, <1>5, <1>6, <2>1 DEF RefreshNow, StatusEndpoint, Poll, CallAt, Calls
  <2>2. CASE SendToken(h)
    BY <1>2, <1>5, <1>6, <2>2 DEF SendToken, CallAt, Calls
  <2>3. CASE ReadStatus(h)
    BY <1>2, <1>5, <1>6, <2>3 DEF ReadStatus, CallAt, Calls
  <2>4. CASE calls' = [calls EXCEPT ![h] = Checked(h)] /\ calls[h].pc \in AfterRead
    BY <1>2, <1>5, <1>6, <2>4 DEF Checked, Calls
  <2>5. CASE ReadHash(h)
    <3>1. CASE calls' = [calls EXCEPT ![h] = [@ EXCEPT !.pc = "stat", !.hash = memory.hash,
                                                       !.mod = memory.mod]]
      <4>1. /\ calls'[h].pc = "stat" /\ calls'[h].why = calls[h].why
            /\ calls'[h].start = calls[h].start /\ calls'[h].count = calls[h].count
            /\ calls'[h].error = calls[h].error /\ calls'[h].since = calls[h].since
        BY <1>5, <3>1 DEF Calls
      <4> QED
        BY <1>2, <1>6, <2>5, <4>1 DEF ReadHash, CallAt
    <3> QED
      BY <2>4, <2>5, <3>1 DEF ReadHash, CallAt
  <2>6. CASE CacheModTime(h)
    BY <2>4, <2>6 DEF CacheModTime, CallAt
  <2>7. CASE StatFile(h) \/ ReadFile(h)
    BY <1>2, <1>5, <1>6, <2>4, <2>7 DEF StatFile, ReadFile, CallAt, Calls
  <2>8. CASE StartWaiting(h) \/ KeepWaiting(h)
    BY <1>2, <1>5, <1>6, <2>8 DEF StartWaiting, KeepWaiting, CallAt, Calls
  <2>9. CASE RefreshDone(h)
    BY <1>2, <1>5, <1>6, <2>9 DEF RefreshDone, CallAt, Succeeds, NoCall, Calls
  <2>10. CASE Timeout(h) \/ RefreshFailed(h) \/ Answer(h)
    BY <1>2, <1>5, <2>10 DEF Timeout, RefreshFailed, Answer, NoCall
  <2> QED
    BY <2>1, <2>2, <2>3, <2>5, <2>6, <2>7, <2>8, <2>9, <2>10 DEF HandlerStep, CallStep, StatusStep
<1> QED
  BY <1>4, <1>7 DEF CallInv

\* A caller that is told its refresh succeeded was not deceived by LastError and
\* RefreshCount changing in different critical sections (SuccessIsReal).
THEOREM SuccessStaysReal == Spec => []SuccessIsReal
<1>1. Init => CallInv
  BY DEF Init, CallInv, SuccessFollows, HasStart, NoCall
<1>2. TypeInv /\ TypeInv' /\ CallInv /\ [Next]_vars => CallInv'
  <2> SUFFICES ASSUME TypeInv, TypeInv', CallInv, [Next]_vars PROVE CallInv'
    OBVIOUS
  <2>1. ASSUME NEW h \in Handlers, HandlerStep(h) PROVE CallInv'
    BY <2>1, HandlerKeepsCalls
  <2>2. CASE LoopStep \/ Surroundings
    BY <2>2, LoopProgress, ProgressKeepsCalls
  <2>3. CASE UNCHANGED vars
    BY <2>3 DEF vars, CallInv, SuccessFollows, HasStart, StartOf, EndedLoads
  <2> QED
    BY <2>1, <2>2, <2>3 DEF Next, HandlerStep
<1>3. CallInv => SuccessIsReal
  BY DEF CallInv, SuccessFollows, SuccessIsReal
<1> QED
  BY <1>1, <1>2, <1>3, TypeInit, TypeStep, PTL DEF Spec
===============================================================================
