# easy_proxies in TLA+

This directory holds a TLA+ model of easy_proxies, the TLC configurations that
check it on small instances and TLAPS proofs about it. Paths are relative to the
repository (`src/internal/...`).

## 1. The system

easy_proxies is a Go program that turns a list of upstream proxy nodes into
local proxy ports. One process, many goroutines.

| Component | State | Operations | Talks to |
|---|---|---|---|
| Pool outbound, `outbound/pool` | per pool: mutex `p.mu`, members, round-robin counter; per node, shared by all pools: failure counter, blacklist deadline, number of open connections, mutex `s.mu` | `DialContext`, `ListenPacket`, closing a connection, probes, release | one monitor entry per node, written after `s.mu` is released |
| Monitor manager, `monitor/manager.go` | an entry per node (copy of the blacklist and of the connection count, failure and success counts, latency, time line), a generation | register, snapshot, probe, release, periodic check | calls the probe and release functions the pools registered |
| Box manager, `boxmgr` | mutex `m.mu`, `currentBox`, `m.cfg`, the monitor and its server | `Start`, `Reload` with rollback, `Close`, node CRUD, `TriggerReload`, `RefreshSubscriptions` | builds sing-box instances, which create the pools; saves the configuration; called by HTTP handlers, by the subscription loop and by main |
| Subscription manager, `subscription` | `refreshMu`, status, hash of the nodes file, pointer to the configuration the program started with | periodic refresh, `RefreshNow`, `CheckNodesModified` | writes the nodes file, reloads through the box manager |
| Configuration store, `config` | `config.yaml`, `nodes.txt`, the `Config` in memory | load, normalise (ports), `SaveNodes`, `SaveSettings`, `SaveSubscriptionConfig` | used by all of the above |
| Builder, `builder` | none | nodes to sing-box options: tags, pools, inbounds | called by `createBox` |
| HTTP server, `monitor/server.go` | session token, settings it shows, pointer to a `Config`, WebSocket clients | REST handlers, probe-all, export, settings | calls monitor, box and subscription managers; saves settings |
| Application, `app`, `cmd` | none | default file, load, wiring, wait for a signal, shut down | hands the loaded `Config` to box manager, server and loop |

What is hard here:

* **Concurrency without one lock.** A dial takes `p.mu` twice, `s.mu` per node,
  and touches the monitor entry with neither. A reload runs without `m.mu`; the
  only thing that keeps a second one away is `currentBox = nil`.
* **Shared state between pools.** In hybrid mode a node's failures, blacklist
  and release are common to the shared pool and to the node's own port.
* **Failure in the middle.** The old instance is closed before the new one is
  built, so that every error of a reload needs a rollback, which can fail too.
* **Copies.** `m.cfg`, the copy a reload loads, the one it would roll back to,
  the one the subscription manager remembers and two files all hold "the nodes";
  the server has a pointer and a copy of its own for the settings.
* **What outlives an instance.** Monitor entries, probes under way and the
  functions a pool left in an entry go on after the instance is closed.
* **One file, two locks.** Three functions read, change and write `config.yaml`,
  under `m.mu` or `cfgMu`, truncating it first; the process may die in between.
* **Waiting.** Handlers wait for `m.mu`; `Close` waits for handlers.

What makes each part correct: a pool hands out a node that was usable during
the dial, and its breaker trips, expires and is released as one atomic breaker
would; counters neither leak nor go negative; locks are released on every path;
at most one instance owns the ports; what is published as running runs; the
page shows, probes and releases the nodes that run; the files say what memory
says, after a restart too; requests are answered and shutdown ends. The
places in the code where this is at risk are listed, line by line, under
`hazards` in `PROJECT.json`.

## 2. Modules

### NodePool

The pools, the shared state of the nodes and the two fields of a monitor entry
the pools write. Actors are `Dialers` (goroutines in `DialContext` or
`ListenPacket`), `Admins` (the release button) and probes.

| Model | Code |
|---|---|
| `failures`, `until`, `active` | `sharedMemberState.failures`, `blacklisted` with `blacklistedUntil` (0 when not blacklisted), `active` |
| `entryUntil`, `entryActive` | the entry's copies |
| `mu[p]`, `rrCounter[p]` | `p.mu`, `rrCounter` (wraps at `CounterSize`, 2^32 in the code) |
| `pc`, `pool`, `net`, `now`, `rescan`, `idx`, `cand`, `minActive`, `member`, `deadline` | where a goroutine is, and its locals |
| `Dial` ... `Refuse` | `pickMember`, `availableMembersLocked`, `releaseIfAllBlacklistedLocked` |
| `SelectSequential`, `SelectRandom`, `SelectBalance`/`BalanceMember`/`EndBalance` | `selectMember`; smart mode draws any candidate, all weights being positive |
| `IncShared` ... `MarkEntry` | the rest of `DialContext`: counting in, the dial, success or failure, `Close` of the tracked connection |
| `ProbeSucceeds`, `Release`/`ReleaseEntry`, `Tick` | `recordSuccess` of a probe, `releaseSharedMember`, time |

A critical section of `s.mu` is one step. Those of `p.mu` are not: their loops
go member by member, since other pools and goroutines change the shared state
while they run. The entry is written in a step of its own, because the code
writes it after the unlock. The time is read once per dial, before the lock.

**CircuitBreaker** says what all this is for: one atomic breaker per node, with
`Trip`, `CountFailure`, `Succeed`, `Release` and `Expire`. `BreakerSpec` states
that NodePool implements it (`Breaker`, an instance with an explicit mapping: the
identity on `failures`, `until` and `clock`). **NodePoolHistory** adds the history variable `seen`, the nodes
that were off the blacklist at some moment of the dial under way.

### BoxManager

`m.mu`, `currentBox`, `m.cfg`, the files, and the goroutines: `Main`,
`Handlers` of the HTTP server, `Refreshers` (the subscription loop, if any). A
configuration is its set of nodes; `Inline` nodes live in `config.yaml`, the
others in the nodes file. A step is one critical section under `m.mu` or one
call between two of them. `Close` is the only one that keeps `m.mu` while it
waits, so `mu` is either `None` or `Main`.

| Model | Code |
|---|---|
| `EnsureMonitor`, `StartBegin` | `ensureMonitor`, `Start` up to the loop |
| `CreateBox`, `StartBox`, `PortConflict`, `StartFails`, `Publish` | the retry loop and the publication, in `Start` and in `Reload` |
| `ReloadRefused`, `ReloadBegin`, `CloseOld` | `Reload` up to the loop |
| `RollbackCreate`, `RollbackStart`, `RollbackPublish` | `rollbackToOldConfig` |
| `CreateNode`, `UpdateNode`, `DeleteNode` with `Edit`, `SaveSucceeds`, `SaveFails` | the CRUD handlers, undone in memory when `SaveNodes` fails: before it writes, in the middle of a file (`os.WriteFile` truncates first), or between its two files |
| `ListFailed`, `DeleteFailedNode`, `EndDeleteFailed` | `handleDeleteFailedNodes`: a snapshot, then one lock and save per node, then a reload unless asked not to |
| `DeleteNode` from `deleteAndReload` | the delete button of a node's tag (`handleNodeAction`), which reloads when the deletion was saved |
| `TriggerReload`, `RefreshRead`, `RefreshApply` | the handlers that end in a reload |
| `Fetch`, `PortMap` | `doRefresh` of the subscription manager |
| `Signal`, `CloseBegin`, `CloseEnd` | the end of `app.Run`, `Close` around `server.Shutdown` |

`spoiled` is a history variable: the files that a failed save has written, in part or
as a whole, and no later save has. What such a file holds is any of the nodes it was
to get; a line cut short is left out, and so is that `config.yaml` may no longer
decode, which is one of the ways the next save can fail.

Pointers matter in this code. `oldIsCfg[g]` says whether the object `g` would
roll back to is still the one `m.cfg` points to, and is edited with it;
`baseCfg` is `None` while the subscription manager's configuration is that
object, and its frozen nodes once a reload has replaced `m.cfg`.

**ProxyService** says what the manager promises: a phase and a set of served
nodes, switched by one reload at a time, with "down" after a switch that failed
both ways (from which, as in the code, there is no way back short of a restart)
and a late switch that may still come up after `Close`. `Service` in BoxManager is
the refinement: the phase is computed from `currentBox`, `pc` and the instance.
`BoxAssumption` has at most one refresher, because the subscription manager runs
one loop; `NilAssumption` says that "no instance" is not an instance.

In `BoxManagerReload` and `BoxManagerLiveness` a handler refreshes by itself
while the loop exists. Once `app.Run` has wired the loop to the server a handler
asks the loop instead (Subscription); before, and without a loop, it does not,
and the server answers before it is wired.

### Subscription

The refresh loop, handlers in `RefreshNow` and `Status`, and whoever else writes
`nodes.txt`. A step is one hold of the subscription manager's mutex, one access
to the file or one call of the box manager, which is external here: a reload
succeeds or fails.

| Model | Code |
|---|---|
| `status`, `memory`, `manual` | `status` (a last error or none, the count, the flag), `lastSubHash` with `lastNodesModTime`, the channel `manualRefresh` |
| `TickerFires`, `TakeManual`, `LoopExits` | the `select` of `refreshLoop` |
| `BeginRefresh` ... `EndRefresh`, `RefreshFails` | `doRefresh`, its deferred function, its failing exits |
| `RefreshNow`, `SendToken`, `StartWaiting`, `Poll`, `KeepWaiting`, `RefreshDone`, `RefreshFailed`, `Timeout`, `Answer` | `RefreshNow` as `handleSubscriptionRefresh` calls it |
| `ReadStatus`, `ReadHash`, `StatFile`, `ReadFile`, `CacheModTime` | `Status` with `CheckNodesModified` |

`serving` and `loads` stand for the box manager; `since`, in a call, is an
auxiliary variable: how many successful refreshes were over when it was made.
`ContentsAssumption`: there are lists of nodes, and "nothing" is not one of them.
The file can be looked at and read: the error exits of `CheckNodesModified`, which
answer "not modified" without having compared anything, are left out, and
`QuietStatusIsTrue` says nothing of them.

### PortAllocation

Which port a node has, from `Load` through edits, reloads and refreshes, while
other programs take and give up ports. The passes over the nodes (`normalize`,
`NormalizeWithPortMap`, `reassignConflictingPort`) are operators, folds with
a cursor and a set of used ports; a pass is one step, a bind is another, so that
a port found free may be gone when it is bound. `FirstFree` is the loop
`for blocked(port) { port++ }` of all of them: ports are `uint16` and wrap, the
test `port > 65535` never holds, and port 0 is always free to bind. If every
port and 0 were taken the code would loop for ever. `SpaceAssumption` excludes
that: two ports for each node (a reload looks for ports beside those the old
instance still has) and those of other programs are fewer than all ports, which with
2^16 of them leaves room for some thirty thousand nodes.
The order of inbounds (`Listens`) decides which conflict is reported first. What
happens when the attempts run out is BoxManager's question, not this module's.

### Monitor

The monitor manager across reloads, with the part of the pools that registers
nodes. Instances are numbered; a shared state is the number of times the store had
been emptied when it was made (`epoch`), so that "the same object" is "the same
epoch".

| Model | Code |
|---|---|
| `entries[t]` | generation, what is shown (`available` with `initialCheckDone`), and the functions (`probe`, `release`) in the entry of tag `t`: of which instance and pool, and with which state (0: it goes by tag) |
| `inst[i]` | an instance: its nodes, its generation, the states of the members of each pool, the pools started |
| `inits` | the calls of `initializeMembersLocked` under way, each with its pool's mutex |
| `BeginReload`, `ResetSharedStateStore`, `BumpGeneration`, `CreateInstance`, `PortConflict`, `ReloadFails`, `RollbackFails`, `Publish` | `Start`, `Reload`, `rollbackToOldConfig` |
| `RegisterNode`, `SetRelease`, `SetProbe` | `newPool`, for each member |
| `StartPool`, `InitializeLate` | who calls `initializeMembersLocked`: `Start` of the pool, the first call of a by-tag probe function |
| `AcquireSharedState`, `RegisterLoads`, `RegisterWrites`, `SetMemberRelease`, `SetMemberProbe` | its steps for each member |
| `PoolStarted` | `probeAllMembersOnStartup` begins |
| `ListEntries`, `LoadGeneration`, `SkipNode`, `CheckNode`, `StartWorker`, `EndRound` | `probeAllNodes` and its ticker |
| `ManualProbe`, `ProbeEnds` | `Probe`; the end of any probe |

Nothing keeps a call of `initializeMembersLocked` and a reload apart: the mutex it
has is that of its pool, and the pool may be one of an instance that has failed. A
reload fits between any two of its steps, between the state it takes from the store
and the functions it leaves in the entry, and between the load of the generation in
`Register` and the write. `stray` is a history variable that says that this happens:
members of a pool of another instance than the newest are, or were in this
generation, being initialised. It becomes false with a new generation, if none is
under way then. A dial (`server.go:283`) may initialise members late, too; a handler's
probe plays that part.

A probe by the check or at start-up answers truly on the instance that runs; on one
that is closed or not up yet it may fail where the node would answer, and so may a
handler's on any instance, whose client may go away (`r.Context()`). A probe may
also hang for good: `httpProbe` takes no context, and a connection need not have
deadlines. Which nodes are healthy does not change, so that "settles" means
something. `Close` comes when no reload is under way (what it does to one is
BoxManager's question), and handlers probe one node at a time. `NoneAssumption`: "no
entry" is not an entry, nor is "no call" a call.

### ConfigStore

`config.yaml`, the `Config` objects and the settings the server shows, from the
first boot through edits, saves, reloads, refreshes, crashes and restarts. A
document is its sections: what `SaveSettings`, `SaveSubscriptionConfig` and
`SaveNodes` write, and the rest, each with a value that says which edit it is from.

| Model | Code |
|---|---|
| `yaml` | the file: a document, `Empty` after a truncation, `Mixed` when two writes met, `Missing` |
| `objects`, `cfg`, `cfgSrc` | the `Config` objects, and which one `m.cfg` and `s.cfgSrc` point to; object 1 is the subscription loop's `baseCfg` |
| `shown` | the settings in `s.cfg`, which the page shows |
| `CreateDefault`, `WriteDefault`, `Load`, `Refuse`, `BindServer` | `EnsureConfigFile`, `Load`, `main`, `app.Run` |
| `EditSettings`, `SettingsRefused`, `SettingsRejected` | `updateSettings`, `handleProxyAuth` |
| `EditLocked` | `UpdateSubscriptionConfig`, the node CRUD |
| `ReadFile`, `Truncate`, `WriteFile`, `WriteFails`, `Undo` | the three saves: `os.ReadFile` with the decoding, `os.WriteFile` in two steps, and what the callers undo |
| `TriggerReload`, `Refresh`, `BeginReload`, `Publish`, `ReloadDies`, `TellServer` | which object is copied, published, given to the server |
| `Crash` | the process ends at any step |

Nodes are inline here (those of `nodes.txt` are BoxManager's). `settings` stands for
both `PUT /api/settings` and `PUT /api/proxy/auth`, whose fields one function
saves. A write is durable when it returns: the order in which the kernel brings
it to the disk is not modelled, the code does not `fsync`. `saved`, `overlapped`,
`torn`, `unsaved` and `astray` are history variables: what the acknowledged saves
add up to, and the circumstances under which the code does not keep it (section 3).

### The MC modules

Constants for TLC: who is a member of which pool, the modes, the symmetry sets,
which nodes share a URI.

## 3. Runs

| Run | Question | Result |
|---|---|---|
| `NodePoolHistory` | one pool, two dials, threshold 2: `TypeOK`, `BreakerSpec`, `PickedWasUsable`, `ReleaseOnlyWhenAllBlacklisted`, `CheckSeesNoneExpired` | holds |
| `NodePoolHybrid` | two pools that share a node, balance and sequential: `LockOwnership`, `ActiveAccounting`, `BlacklistBounded`, `NoEarlyRelease` | holds |
| `NodePoolLiveness` | two dials, an administrator, one node: `PickTerminates` | holds |
| `BoxManagerReload` | two handlers and the loop, failing starts and rollbacks, shutdown: `TypeOK`, `OneInstance`, `CurrentIsLive`, `RollbackTargetIsCurrent`, `ServiceSpec` | holds |
| `BoxManagerFiles` | one handler at a time, every endpoint, inline nodes and nodes of the file, saves that fail, starts that use up their attempts: `TypeOK`, `DiskMatchesMemory`, `RequestsReturn` | holds |
| `BoxManagerLiveness` | two handlers and the loop, saves that fail: `RequestsReturn` | holds |
| `SubscriptionRefresh` | the loop, a handler, another writer: `TypeOK`, `SuccessIsReal`, `QuietStatusIsTrue`, `RequestIsFollowed`, `CallsReturn` | holds |
| `PortAllocation` | three nodes, all modes, other programs: `TypeOK`, `PoolPortIsKept`, `StartConverges`, `PortsArePreserved` | holds |
| `Monitor` | three instances of two lists of nodes, conflicts, failures, a rollback, all kinds of probes, members initialised late: `TypeOK`, `ShowsWhatIsServed`, `FunctionsReachTheInstance`, `OneSharedState`, `NodesAreChecked`, `ShownSettles` | holds |
| `ConfigStore` | two handlers, the loop, two edits, two reloads, failing writes, a crash: `TypeOK`, `AcknowledgedIsSaved`, `MemoryIsOnDisk`, `ShownIsSaved`, `RequestsEnd` | holds |
| `NodePoolRefusal` | `RefusedOnlyWhenNoneHealthy` with two dials | violated |
| `BoxManagerShutdown` | `CloseReturns` | violated |

The violated ones are disagreements between the code and what its comments or
its README say; `findings` in `PROJECT.json` quotes both. In words:

* **A dial is refused with healthy nodes** (`NodePoolRefusal`). `d1` finds both
  nodes blacklisted and unlocks; `d2` does too, releases them and goes on; `d1`
  now finds a member that is not blacklisted, does not scan again, and refuses.
* **Close can hang** (`BoxManagerShutdown`). `Close` has `m.mu` and waits for
  the handlers, a handler waits for `m.mu`. Without a shutdown every request
  returns (`BoxManagerLiveness`).
Other disagreements are visible in the models and in no run; no property claims
the contrary, and where one would, its premise names the exception:

* When all attempts of a start or a reload end in a port conflict, the closed
  instance of the last one is published: the retry loop has no error for its own
  end. `BoxManagerReload` has fewer conflicts than attempts, and there
  `CurrentIsLive` holds; with `MaxConflicts` equal to `MaxRetries` TLC finds the
  counterexample.
* A node created while another handler reloads is in the files and lost in memory
  when the reload publishes the copy it took before, and the next save drops it
  from the files: `DiskMatchesMemory` with two handlers. The same happens to
  settings and subscriptions (`astray` in ConfigStore): a `PUT /api/settings`
  during a reload is saved, and the object that replaces the edited one does not
  have it, although the README of the repository says (line 355) that changes are
  saved and take effect.
* A refresh of the loop copies the object the program started with, so that what
  was edited after the first reload is undone in memory, though the comment on
  `createNewConfig` says "preserving other settings".
* Two saves at a time (a settings save and one under `m.mu`) lose a section
  that was acknowledged, or leave a text of two (`overlapped`).
* A write that fails after the truncation leaves an empty file in a program that
  runs; the next save decodes it as zeroes and writes those (`torn`). A crash
  there, or during the first boot's write of the default file, leaves a file that
  every later start refuses.
* Settings changed by a request that fails stay in memory, and the next save or
  reload takes them up (`unsaved`). `updateSettings` shows what it refuses.
* After a reload that failed before all its pools were started, a probe function
  of its pools initialises them, across the rollback or the next reload: it puts the
  functions of a closed instance back into the entries of served nodes, with a
  state that is no longer in the store, lists nodes that are not served, or writes a
  generation it loaded before a reload, so that a served node is not listed until
  the next one (`stray` in Monitor).
* A handler's probe whose client goes away, or a probe of a closed instance that
  answers after the reload, shows a healthy node as failed until the next check;
  `ShownSettles` is about nodes that handlers leave alone from some moment on.
* A probe that hangs stops the periodic check for all nodes: the round waits for its
  workers without a limit (`wg.Wait`). `NodesAreChecked` and `ShownSettles` have
  `ChecksEnd` as a premise.
* A save that fails in the middle leaves `nodes.txt` cut short, or `nodes.txt` written
  and `config.yaml` not, while `m.cfg` is rolled back: a restart loads something else
  (`spoiled` in BoxManager).
* After a failed reload the page lists the nodes of the failed configuration as
  well, since the rollback has no generation of its own (`RolledBack`).
* The blacklist copy in an entry survives a reload while the shared state is
  fresh: the page shows a node as blacklisted that the pool would pick, until it is
  released or blacklisted anew. The comment before `ResetSharedStateStore` says
  "to ensure clean state for new config".
* When every node has failed, deleting the failed ones empties `m.cfg` in place:
  the reload cannot be built and the rollback, which has the same object, cannot
  either; the service is down and `TriggerReload` refuses from then on.
* Failed nodes are deleted by name, from a snapshot: of two nodes with one name
  the first goes, whichever failed.
* A port's own pool has one member, so that in hybrid mode a dial through the
  port releases the node the shared pool had blacklisted
  (`releaseIfAllBlacklistedLocked`).
* `SaveNodes` does not rewrite `config.yaml` when no inline node is left: the
  last one cannot be deleted. `DiskMatchesMemory` names that case.
* A rollback builds `m.cfg` with the edits made since the last reload, not what
  was served before it; after `RefreshSubscriptions` that is a list of nodes
  without ports.
* `CheckNodesModified` misses an edit made between the write and the stat of a
  refresh, and reports any other one once.
* `RefreshNow` may take the end of a refresh that was already running for its
  own; `SuccessIsReal` says how far that can mislead.
* A cursor that runs past 65535 hands out port 0 instead of an error.

### Bounds, and why they are enough

* Nodes: two. One node cannot distinguish "this one" from "all"; with two a
  pool has members in different states, and in hybrid mode one shared and one
  unshared node. Ports are the exception: with
  three, two nodes share a URI and a third is new.
* Dialers, handlers: two. The races above are between two goroutines and a
  third kind of actor (clock, administrator, loop), which are there too. In
  `NodePoolLiveness` there is one node, which makes "all blacklisted" frequent.
* `Threshold` 1 or 2: 2 tells counting from tripping, 1 makes tripping frequent
  where counting is not the question.
* `Duration` 1, `MaxClock` 2: a blacklist can expire during a dial that started
  before, and a second one begin.
* `CounterSize` 3 stands for 2^32: not a multiple of the number of candidates,
  so that the wrap changes the index, as with 2^32 and three candidates.
* `MaxRetries` 2 for 10 with `MaxConflicts` 1, below the limit, and in
  `BoxManagerFiles` 2, at the limit: the attempts are used up.
* `BoxManagerReload` has saves that succeed: an edit that is undone leaves `m.cfg` as
  one that is refused does, which is there, and the run is not about the files.
  `BoxManagerFiles` has three nodes, two of them inline.
* `SubscriptionRefresh` has one handler: its properties are about one call, and
  what other calls can do to it (leave a token in the channel, move the
  remembered time) the ticker, earlier calls that timed out and the other writer
  do as well. `MaxRefreshes` 1 bounds what is asked for: together with tokens
  left behind, several refreshes run in a row. Two clock values tell "younger"
  from "not younger".
* `PortSpace` 8 for 2^16 with `BasePort` 2 and `PoolPort` 3: the cursor meets
  the pool's port at once and can wrap to 0. Users give nodes no port, the
  pool's, or 4. One port is held by others at a time, one is taken per start.
* `Monitor`: pool mode, two nodes, a reload to a list without one of them and
  back. `MaxInstances` 3 allows a reload with a rollback, or with a conflict, or
  two reloads: a function can be two instances old, and a call of a failed instance
  can go on through a rollback, though not through a whole reload after that. With
  three instances `FunctionsReachTheInstance` needs `~stray`; that the other two need
  it takes a fourth instance, and there, in pool mode without liveness and with nobody
  watched, the invariants hold (250,000 states), as they do in hybrid mode with
  three (444,000). The proofs are for any number and mode. One slot (`Limit` 1) makes
  every worker wait; one node is probed by hand and watched.
* `ConfigStore`: `MaxEdits` 2 are two overlapping saves of different sections or
  two in a row, `MaxObjects` 3 two reloads, so that an object can be left behind
  twice, `MaxCrashes` 1 a crash at every step of either.
* Symmetry on dialers or handlers only, and only where safety is checked.

`CHECK_DEADLOCK FALSE` is in `BoxManagerShutdown` and `BoxManagerReload`, where
the program hangs in `Close`, which is what the first of them is about; in
`SubscriptionRefresh`, where a stopped loop leaves nothing to do; and in
`PortAllocation`, where a failed rollback leaves no instance.

### Fairness

`NodePool!FairSpec`: a goroutine that can take a step does (Go's scheduler),
and a `Lock` that is free again and again is obtained, because a Go mutex hands
itself to a waiter of more than a millisecond. Nothing is assumed of callers,
of the network (a dial may hang), of probes or of time. `BoxManager!FairSpec`:
the same for goroutines of the manager, whose calls into sing-box and the disk
return; requests, refreshes and the signal need not come. `Subscription!FairSpec`:
the loop and the calls go on, fetches and reloads return (they have timeouts,
`RequestsReturn`); a token in the channel and the end of a call's context are
taken if they are there again and again, since `select` draws among the channels
that are ready. Nothing is assumed of the ticker, of `Stop` or of new requests.
`Monitor!FairSpec`: the periodic check goes on, its ticker included; nothing of
reloads, of handlers, of a start or of any probe. That the probes of the check end,
which neither their context nor a deadline guarantees, is a premise of the two
properties (`ChecksEnd`). `ConfigStore!FairSpec`: a save goes on, the disk answering; the server
is wired once the start is over; a reload that has begun goes on and gets `m.mu`
and `cfgMu`, which savers hold again and again, because Go's mutexes are fair.

## 4. Proofs

`NodePoolProofs` proves, for every set of nodes, pools and goroutines, every
membership, mode, threshold and duration that satisfies `PoolAssumption` (finite
dialers, non-empty member lists, positive threshold, duration and counter size):

* `TypeCorrect`: `Spec => []TypeOK`. `TypeOK` alone is not inductive: that
  `cand[d][i]` is a node, or that `Members[pool[d]][idx[d]]` exists, depends on
  where `d` is. `Locals` says, label by label, what the locals of a goroutine
  hold (a pool once it dials, an index inside the members while it loops, a
  non-empty `cand` when it selects, a node from the choice to the end);
  `TypeInv == TypeOK /\ Locals` is inductive. `Frame` and `LocalsKept` confine
  the argument to the goroutine that moves.
* `LocksAreOwned`: `Spec => []LockOwnership`. `LockEffect` sorts the steps of a
  dialer into those that take, give up or ignore the lock of its pool.
* `PoolsImplementBreaker`: `Spec => BreakerSpec`, the refinement. Each step is a
  breaker step or stutters. An expiry needs the local clock reading not to be
  ahead of the clock (`now <= clock`), which is part of `Locals`.
* `BlacklistsAreBounded`: `Spec => []BlacklistBounded`, with the deadlines that
  goroutines carry from `recordFailure` to the entry in the induction
  (`UntilEffect` says what a step may do to a deadline).
* `CheckIsConclusive`: `Spec => []CheckSeesNoneExpired`. `Covered` says what a
  scan has established of the members it has passed, and that other goroutines
  cannot take away: a blacklist recorded later ends after `now[d]`. This is why
  `releaseIfAllBlacklistedLocked` has no expiry branch in the model.
* `CountersAreExact`: `Spec => []ActiveAccounting`. A step that moves a counter
  by one moves one goroutine in or out of the set the counter counts; the rest
  is cardinality of finite sets.
* `NothingLiftsEarly`: `Spec => NoEarlyRelease`, an action property. A goroutine that
  dials ends a blacklist only in its scan, when its clock reading says that it is
  over, or while it releases all members (`Lifts`, `LiftStep`); the reading is not
  ahead of the clock.
* `ReleaseIsTotal`: `Spec => []ReleaseOnlyWhenAllBlacklisted`, for instances with
  no node in two pools and nobody at the release button. `Checked` says what the
  second loop has established, member by member; under `p.mu` nothing but the
  button and the goroutines of other pools could undo it.
  Without the two hypotheses the property is false, as its comment says.

`NodePoolHistoryProofs` proves `PickedOnlyUsable`: `HSpec => []PickedWasUsable`.
`Picked` follows a dial from an empty buffer through the candidates collected to
the one chosen; `Remembers`, that the history of a dial only grows, makes it stable
under the steps of all others.

`ConfigStoreProofs` proves, for every set of handlers, every selection of endpoints,
any number of edits, objects and crashes, and a disk that fails or not, from
`ConfigAssumption` and `FileAssumption` (what is not a document is no document):

* `TypeCorrect`: `Spec => []TypeOK`. The induction adds what each goroutine relies
  on where it is (`InCall`: its lock, an object that exists, the claim on the
  instance), that one reload at a time is past that claim (`OneLoading`), and
  that a program that is not up holds nothing (`Wired`). `Move` collects what a
  step of one goroutine leaves to the others.
* `SavesAreKept`: `Spec => []AcknowledgedIsSaved`. `SaveInv` says what the property
  does not: at most one goroutine is past its reading, what it has read is all that
  was acknowledged, the file is empty between truncation and write, and what a
  boot may find. It has to hold while the program is down, too, or a restart could
  bring back anything. `Quiet` steps (edits, reloads) leave it alone.

`ConfigMemoryProofs` builds on these two:

* `MemoryFollowsDisk`: `Spec => []MemoryIsOnDisk`. `MemInv` is about every object
  that is `m.cfg` or may still become it (a copy under way, the target of a
  rollback): while nobody saves, all of them have the nodes and subscriptions
  acknowledged; while somebody does, `m.cfg` is the only one and the saver keeps
  the acknowledged value to undo to. That edits of a copy meet no save is what
  `~astray` and `~overlapped` are for; `LockInv` ties the mutexes to the savers.
* `PageFollowsDisk`: `Spec => []ShownIsSaved`, from `ShownInv`, the same for
  settings, with the server's object among those in use and the page itself.

`BoxManagerProofs` proves, for any sets of nodes, handlers and endpoints, and any
number of attempts and conflicts:

* `TypeCorrect`: `Spec => []TypeOK`, with the labels each kind of goroutine can be
  at and what it holds there (`Holds`).
* `RollbackTargetStaysCurrent` and `NeverTwoInstances`: `[]RollbackTargetIsCurrent`
  and `[]OneInstance`. Neither is inductive: a reload runs without `m.mu`. The
  argument is `SwitchInv`: whoever takes `currentBox` leaves nothing behind, a second
  reload finds nothing to take and is refused, so one goroutine at a time is between
  taking and publishing (`OneSwitch`), the instances it knows run only where `Alive`
  says, and `m.cfg` is not replaced meanwhile.
* `CurrentStaysLive`: `Spec => []CurrentIsLive`, and `ImplementsProxyService`:
  `Spec => ServiceSpec`, where there are fewer port conflicts than attempts. The
  hypothesis is needed: otherwise the code publishes a closed instance (section 3).
  `LiveInv`: what is about to be published has been started; `EndInv` is what the refinement needs of the
  shutdown: `Close` waits for the handlers, and only the loop can publish after it.
  The refinement is proved action by action (`ServiceStep`).
* `FilesFollowMemory`: `Spec => []DiskMatchesMemory` under `OneEditor` (one handler,
  no loop), the setting of the run `BoxManagerFiles`; with two editors it is false
  (section 3). `FileInv`: the files hold what `m.cfg` does, but for the exceptions the
  property names, in every state and not only at rest, and the copy a reload is about
  to publish is `m.cfg`.

`SubscriptionProofs` proves, for any handlers, lists and numbers of refreshes,
`TypeCorrect`; `QuietStatusStaysTrue`: `Spec => []QuietStatusIsTrue`, where `HashInv`
follows the hash through the steps of a refresh, each of which may fail; and
`SuccessStaysReal`: `Spec => []SuccessIsReal`, where `SuccessFollows` says, for each
stage of a call, what the count it started from and the one it has read imply about
the lists loaded since.

`MonitorProofs` proves, for any nodes, configurations, mode and number of instances:

* `TypeCorrect`: `Spec => []TypeOK`. `Base` is what the loading goroutine, the
  instances, the entries, the probes and the calls that initialise members say of each
  other; `CheckInv` adds the workers of the check, which are as many as the slots taken.
  What a step does to an entry, an instance or a call is said once (`EntryStep`,
  `InstStep`, `InitsStep`, `LoadStep`), and the rest of the proof is about these.
* `ShowsTheServed`, `FunctionsReach`, `SharedStateIsOne`: `[]ShowsWhatIsServed`,
  `[]FunctionsReachTheInstance`, `[]OneSharedState`. They are about the instance
  that runs, but are made true while it is being started. The induction is about the
  `Newest` instance, running or coming up, and the nodes of it that are `Linked`,
  registered and given their functions so far (`LinkedInv`). Its pools, and the calls
  that fill them, hold states of this epoch whatever else happens (`SharesEpoch`). The
  entries are open to other calls as well; `NoStray` says what `stray` is for: without
  it all calls under way are of the newest instance, and any generation they have
  loaded is the current one. `ListsInv`: who lists a node in this generation has it.

`PortAllocationProofs` proves, for any nodes, URIs, modes and ports and any number of
other programs, from `PortAssumption` and `SpaceAssumption`:

* `TypeCorrect`: `Spec => []TypeOK`. That a port found free is a port at all depends on
  there being one, so that `TypeInv` also says that names are distinct (and nodes not
  more than names) and that the running instance listens on few ports besides the pool.
* `PoolPortKept`: `Spec => []PoolPortIsKept`, inductive beside `TypeInv`.
* `StartsConverge`: `Spec => []StartConverges`. `Converging` adds to the attempts made
  the nodes that are still disputed (at a port of another program, of the pool or of
  another node): a reassignment settles one and unsettles none, another program
  unsettles at most one.
* `PortsPreserved`: `Spec => []PortsArePreserved`, with `PinsApart`: a node that has the
  port of the map shares it with no node that has not its own, and what other programs
  hold is in `held`. Without it a reassignment could take a preserved port for the sake
  of a node that came to it later.

The larger part of that module is about the operators. A fold is unfolded once for all
(`FoldExists`, `FoldPasses`: its recursion has a solution, by induction on the number of
nodes, and that is a pass node by node; the induction is stated of sets and rests on
`NatLessThanWellFounded`); then come `FirstFreeIs` (by the pigeon hole principle), and a
lemma each on what `Normalize`, `NormalizeWithPortMap`, `Reassigned`, `PortMap`,
`Listens` and the list operations return.

What TLC alone checks is liveness: `PickTerminates`, `RequestsReturn`,
`RequestIsFollowed`, `CallsReturn`, `NodesAreChecked`, `ShownSettles` and `RequestsEnd`
depend on fairness, and with it on ENABLED, which the prover does not handle. Every
invariant and every action property of the runs is proved.

## 5. What is not modelled

URI and Clash parsing, the outbounds among the sing-box options, YAML, the HTTP probe's
bytes, sessions, the WebSocket feed, the progress of probe-all, time lines and
latencies of entries, check-ip, geoip, export, and the web page: data conversion and I/O
that no property here tells apart. `gracefulSwitch` and `drainOldBox` are never
called. The latencies smart mode weighs with are abstracted to any choice.

Data races: `Reload` reads `m.monitorMgr` and the subscription manager reads
its configuration without a lock while `Close` or a CRUD handler writes. The
model reads the value before or after the write; a torn slice header is not in it.

## 6. Plan

1. NodePool, CircuitBreaker, NodePoolHistory and their proofs: done.
2. BoxManager and ProxyService: done, with proofs of all their safety properties
   and of the refinement.
3. PortAllocation and Subscription: done, with proofs; of the builder, the unique
   tags are left.
4. Monitor: done, with proofs; the counting of probe-all and the copy of the
   blacklist at rest are left.
5. ConfigStore and the proofs of its safety properties: done.
6. Proofs about PortAllocation: done. The seven liveness properties stay with TLC.
