# Verification of iysr

iysr is a service monitor: it watches systemd units over D-Bus and follows the
journal, keeps the latest state of each source, and passes every update on to
HTTP clients and to desktop notifications. This directory holds TLA+ models of
its concurrent core, the TLC configurations that check them on small instances,
and TLAPS proofs about them for every instance. Source lines below are those of
the repository; `PROJECT.json` maps every definition to its lines.

## The system

| component | state | operations | talks to |
| --- | --- | --- | --- |
| worker crate, `worker/src/lib.rs` | per thread a `WorkerShared` behind a mutex (children, parent, result, join handle, detached), a stop channel, a `work_ended` channel | `spawn`, `tick`, `await_cancel`, `wait`, `poll`, `terminate`, `detach`, `Drop`; the thread closure reports failures to its parent | every thread started through it |
| SystemMonitor, `system_monitor.rs` | `thread_state`, `listeners`, `last_state`, `subscriber_id`, the bounded event channel | `subscribe`, `Receiver::drop`, `poll_loop`, `run_loop`, `Drop` | sources send into the event channel, clients receive from bounded channels; shared behind one mutex |
| systemd watcher, `systemd.rs`, `systemd_dbus.rs`, `systemd_common.rs`, `dbus_common.rs` | `units` by path, `state` by name, the D-Bus matches | initial listing, `UnitNew`, `UnitRemoved`, `PropertiesChanged`; sends a snapshot after a change | D-Bus; blocks in `sender.send` |
| journal, `journal.rs` | the `journalctl` child, two scoped reader threads, the sender behind a mutex | follow, restart after 10 s | `filter`, `try_send` |
| filter, `filter.rs` | none | decides which journal entries pass and extends their attributes | config |
| HTTP service, `service.rs` | per request a receiver worker and a keepalive worker linked to it, a rendezvous channel | handle one request as a server-sent event stream; `main` listens until it is cancelled | SystemMonitor, worker |
| notifications, `dbus_notify.rs` | one persistent notification with the id the daemon gave it, a `StateSnapshot` of its own | show, hide, one notification per event | notification daemon, SystemMonitor (keeps it locked), worker |
| config, `config/*.rs` | `ConfigCheck`: the keys not yet consumed; the path of an error | parse, refuse keys that nobody consumed | main |
| main, `main.rs` | the reaper worker, to which the services are linked | loads the configuration, starts sources, monitor and services, waits for the reaper, exits | all |
| `errors.rs`, `util.rs`, `monitor.rs` | none | conversions, encodings, message types | all |
| `systemd_subprocess.rs`, `worker/src/main.rs` | | not part of the program (no `mod`; an example) | |

What is hard here: threads that block on each other's mutexes while they join
each other (worker); a failing child, a waiting owner, a stopping sibling and a
detach all at once (worker); a snapshot, a listener and an update in flight
(monitor); bounded channels at their limit, some with blocking and some with
dropping senders; a start that fails half way; ids that wrap; D-Bus signals
that arrive in any order with the answers to our own calls; a client that goes
away while two helper threads of its handler send; services that are attached to
a reaper for which main already waits; a parser whose checks nest and whose
errors are built from the inside outwards.

What makes each component correct:

* worker: no running work is orphaned, a result is the truth about a thread
  that has been joined once, a failure reaches the parent, every child is told
  to stop, calls come back unless one deadlocks that takes mutexes up the tree.
* SystemMonitor: clients see a source's updates in order and miss none but for
  a full queue, every client has its own entry, one watcher per source,
  watchers and handlers are not blocked for ever.
* systemd watcher: what it has sent last is the state of the units on the bus,
  once it has seen all signals.
* journal: lines are offered in order and each run of `journalctl` is read to its
  end; a dead `journalctl` is restarted, and then repeats its last line and may skip
  what came in between. Filter: first match wins, severities are valid.
* config: exactly the valid documents are accepted, an error names the place
  where the document is wrong, filters keep their order.
* HTTP service: the client gets every update of its queue, in order; a client
  that is gone is noticed; both helper threads end before the request does.
* notifications: one status on the screen, and none when the service has ended, by
  a call that failed too, as long as the code knows the id of what is shown.
* main: both services are started, or one fails to, or the start is wedged at the
  reaper's mutex; the process exits only with its threads over.

## Modules

| module | models | extends / instantiates |
| --- | --- | --- |
| `Worker` | the worker crate, whole | |
| `Scopes` | the abstract promise of the crate: structured concurrency | instantiated by `Worker` as `Promise` |
| `WorkerProofs`, `ScopeProofs` | theorems about `Worker` and `Scopes` | `Worker`, `TLAPS` |
| `Monitor` | SystemMonitor, with its sources and clients as far as it sees them | |
| `Feed` | the abstract promise of SystemMonitor about snapshots | instantiated by `Monitor` as `Abstract` |
| `SystemdDbus` | the watcher thread of systemd, with systemd and the bus | |
| `Filter` | the event filter, as operators | |
| `Journal` | the thread that follows the journal, its readers and journalctl | `Filter` |
| `Handler` | one HTTP request with its two workers, as a program over the crate | `Worker` |
| `Config` | the parser of the configuration, and what a valid document is, as operators | |
| `Iysr` | main, the reaper, the two services and the notifications, over the crate | `Worker`; `Config` as `Conf` |
| `HandlerProofs`, `IysrProofs` | theorems about `Handler` and `Iysr` | `ScopeProofs` and the module |
| `ConfigProofs` | theorems about `Config`, as `Iysr` instantiates it | `Iysr`, `TLAPS` |
| `MonitorProofs`, `SystemdProofs`, `JournalProofs` | theorems about `Monitor`, `SystemdDbus`, and `Journal` with `Filter` | the module, `TLAPS` |
| `MCWorker`, `MCMonitor`, `MCSystemdDbus`, `MCJournal`, `MCHandler`, `MCIysr` | instances for TLC | each its module |

### Worker

Every thread has a `pc`. A thread blocks only at lock acquisitions and at joins
(`SignalChild`, `Join`, `WaitChild`, `AttachLock`, ...), so these are the
steps; the code between two of them is one step. `lock[w]` is the thread that
holds the mutex of `w`'s `WorkerShared`. `wait()` runs with that mutex held and
calls itself for the children: `waiting[t]` is the stack of open frames of
thread `t` and `frame[w]` the locals of the frame open on `w` (its phase, the
index of `retain`, `state` and `low_priority_error`). `Drop` runs the same code
as `terminate` and `wait` with `dropping[t]` set. `Receiving(w)` says whether
the receiver of `w`'s stop channel still exists: it goes with the `WorkerSelf`
when the work function has returned and dropped its locals.

`WaitsFor` says which thread cannot go on before which other: the one wants a mutex that
the other holds, or joins it. `wait` takes mutexes down the tree, from a parent to its
children, and so do `poll`, `terminate`, `Drop` and a spawn through a handle. Four steps
take them upwards (`Upward`): a failing thread locks its parent (`lib.rs:362`) and then
each sibling, which with the parent's list may be itself (369); `detach` holds the
child and locks the parent (117); and a thread that links a child to itself locks its
own `WorkerShared` (410), which whoever waits for it holds. With each of these the crate
deadlocks, and the model has it; `OnlyUpwardDeadlocks` says that without them it does not.

Abstractions. `child_id` stands for the identity of a child. No code that holds
a `WorkerShared` guard can panic, so no mutex is poisoned and the branches for
that are absent. A refused `thread::Builder::spawn` and a `tick()` that answers
`Ok(())` change nothing. Handles stay with the thread that spawned them.

### Scopes

What the crate promises without mutexes, channels and frames: a work is begun
and kept by a thread that does not end its own work while it keeps one; it lets
go only of a work that is over or set free; one answer per work, after its
thread has ended, and `Ok` only if the work returned `Ok`. `Worker!Scoped` is
the refinement, with the mapping in `Promise`.

### Monitor

A client goes through `subscribe()` with the monitor locked: `SendSnapshot`,
`Attach` (or `Refuse`), `Start`, and for the first one `SubscribeSource` per
push source and `SpawnLoops`, each of which may fail. `Holders` are the clients
that keep the monitor locked while they are subscribed: `dbus_notify::run`
binds the guard for the whole of its loop, an HTTP handler only for the
statement. `run_loop` is three steps (receive, cache, fan out), `poll_loop` two
(cache, send). `lastState` and `listeners` have mutexes of their own which are
held for one step at a time. A `Watcher` source sends snapshots with a blocking
`send`; the others offer partial updates with `try_send`. An update is its
source, scope and version.

`view`, `missed` and `since` are for the properties: what a client has made of
what it received (the `StateSnapshot` of `dbus_notify.rs:179`), at first what was
cached when its channel was made, whether or not that had room for it; whose last
snapshot did not fit its queue, and what was cached when it was listed.

Abstractions. Subscriber ids wrap at `IdSpace`, as a release build does; a
debug build panics there instead. The order in which `poll_loop` takes its
sources is left open. Drop for SystemMonitor never ends, because `run_loop`
receives as long as the monitor's own `event_writable` lives; `DropMonitor` is
its one step.

### Feed

What the monitor promises about snapshots, without threads, channels, ids and locks:
sources make versions, a version is cached some time after it was made, clients join
and leave, and a member sees versions. Of an ordered source (one that only `run_loop`
caches, the push sources) the cache does not go back, a member starts from what is
cached when it joins, and sees next what is no older than what it has seen and no newer
than the cache. `NotAhead` follows: who joins later is never shown something older than
another client has seen before. It does not say that a member sees anything: that is
`Delivery`. `Monitor!Fed` is the refinement, with the mapping in `Abstract`: the members
are the clients from `SendSnapshot` on, `RunCache` publishes, `Receive` of a snapshot
sees, the other steps of the threads and of `subscribe` are stutters.

### SystemdDbus

The watcher blocks in every call to the bus and in `sender.send`, so `pc` names
the call it is in: the start (`subscribe`, `matchNew`, `matchRemoved`, `list`,
`listing` with `listStatus` per unit), then `loop`, with `addStatus` and
`checkStatus` for the status call of a signal and `emit` for the send. systemd
changes its units meanwhile; `Deliver` queues the signals that a match rule
asks for in `inbox`. An answer is the state at the time of the call and is used
at once, while older signals still wait. Any call may fail. `failed` is for the
properties: the units about which a call failed that has not been made good.

External: the bus delivers systemd's signals in order, and systemd loads a unit
that is asked for by its path (`Ask`); a unit that came and went before the
second match rule was added would otherwise be known for ever. A unit's name
and path determine each other. Messages of another form change no state and are
left out, as are the attributes of a status, which the code leaves empty. That
the send blocks at a full channel is in `Monitor`.

### Filter and Journal

`Filter` is `filter.rs` as operators on payloads, functions from keys to JSON
values. A JSON value is a type and a number; a pattern is the set of strings it
accepts. Of a number only its place in or outside 0..7 matters, which the
conversion of a u64 to i64 keeps.

`Journal` has the thread (`main`), the two scoped readers and journalctl
(`child`, `written`, `pipe`). `follow_journal` ends in an error whatever the
exit status: one reader is joined explicitly, the other by the drop of its
guard, so `Join` waits for both. A payload whose PRIORITY comes from
`attr_extend` makes `get_severity` panic (`filter.rs:29`; a JSON number of the
configuration is `U64` or `F64`, never `I64` unless negative): the reader
poisons the sender's mutex, and joining it panics the thread too. The comment
at `filter.rs:22` calls PRIORITY "guaranteed to be either absent or a valid
Severity level". The model follows the code; the properties that this ends are
stated up to it.

Left out: an I/O error while reading a pipe, and a reader thread that cannot be
spawned (a panic, as `journal.rs:116` says). `offered` is what `try_send` is
called with; what a full channel drops is in `Monitor`.

### Handler

The first program over the crate: `Handler` extends `Worker`, takes one handler
(`Main`) and two workers, and restricts the calls to what `try_handle` does. Where
`pc[t]` is `"body"` the thread runs the code of `service.rs`, and `at[t]` says
where; every other `pc` is a step of `Worker`, unchanged, so the locks, joins and
signals of `spawn`, `tick` and `Drop` are the real ones. `offers` are the threads
blocked in `send` on the rendezvous channel (`sync_channel(0)`), in the order
the standard library keeps; `Take` receives from the first. The locals of
`try_handle` are dropped in reverse order: `DropReceiver` terminates and joins
the receiver worker while the receiving end of the channel still exists. The
work function of the receiver owns the handle of the keepalive worker, which
goes when that function has returned (`DropKeepalive`).

Abstractions. An update is its number; how `WriteSSE` cuts a message into lines
(`service.rs:90-113`) is left out. A write to a connection that the client has
closed is buffered (`WriteLost`) or fails. `Publish` is the `try_send` of the
monitor's `run_loop`; an update that does not fit the queue has not been there.
The sending end of the queue is in the collection that `Receiver` itself keeps
alive (`system_monitor.rs:38-42`), so `recv()` never fails.

### Config and Iysr

`Config` translates the parser function by function. A JSON value is a record
with one field named for its type. `Then`, `RunM`, `Optional`, `Mandatory`, `Field` and
`MapJson` are the combinators of `internal.rs`, and a result is a value or a
reason with the context that grows as the error is returned (`Annotate`). The reason
of a mismatch is the type that was found, as in the message (`Mismatch`); the type
that was expected is wording.
`Consume` is `ConfigCheck`: an object is accepted if no key is left. The second
half of the module says what a valid document is without reading it, and where a
path leads; it is not the code's and only properties use it.

Abstractions. Of a string only its equality, whether it is a bad glob or regex
(`BadPatterns`), and for an interval its leading number and what follows it (`Split`)
matter. The vector of sources is a function on the positions that their ids have in
`Ids`, the order of `BTreeMap`. `I64Max` and `Half`
stand for 2^63 - 1 and 2^31; TLC's integers are smaller, and the run scales them
down so that both are passed. Not the model's but the code's: `backlog` and
`poll.interval` are parsed and used nowhere, and systemd's filters are parsed
and dropped (`mod.rs:196-202`). An interval above what chrono can hold panics
(`mod.rs:303`); that counts as a refusal.

`Iysr` is the second program over the crate. `Load` reads one of the documents
and ends the program if the parser refuses it. `Run` spawns the reaper, and
`WaitReaper`, `DropReaper` and `Exit` are the rest of main. The reaper spawns
the two services linked to itself and waits to be cancelled; `services` is
dropped from its first element on. The notification service is whole:
`shown` is what the daemon has on the screen, `id` the id the code replaces, and
a call can fail before or after the daemon has seen it, or be answered by
something without an id. `trouble` says that a status is on the screen whose id the
code was not told (its first call failed late or was answered so), or that the daemon
refused to close one; a failed replacement is no trouble, as the id stays. The user may
close a notification at any time. When main has exited no thread takes a step.

When the reaper's closure ends it drops its reference to the monitor. Should that be
the last one, Drop for SystemMonitor joins threads that never end, and the reaper stays
there for good (`DropMonitor`, `at` is `"held"`); whether it is the last depends on what
hyper still holds, so the model leaves both open.

Abstractions. The monitor is the queue of the notification service here
(`Publish`), and the lock it keeps is in `Monitor`. Neither sources nor the
monitor fail to be constructed, as in the code. hyper listens and the HTTP
worker is spawned, or neither. A death by a signal, after which no Drop runs, is not
modelled. `test()` of `dbus_notify.rs` is called by nobody.

## Runs

Deadlock is not checked in any run: a program whose threads have all ended has
no next step, and the code does have deadlocks; which ones is a matter of properties here.
All bounds are in the `.cfg` files.

| run | instance | shows |
| --- | --- | --- |
| `worker_pair` | a worker, and a child spawned by it or through its handle; all calls, all outcomes | `TypeOK`, `ResultAfterJoin`, `NoOrphans`, `FailureReachesParent`, `JoinedOnce`, `OnlyUpwardDeadlocks`; `Scoped`, the refinement |
| `worker_tree` | a worker with two children or a child and a grandchild; detach and the wait of `Drop` | `ListedOrTold`, `OnlyUpwardDeadlocks` |
| `worker_root` | two workers without links | `CallsReturn`, under fairness |
| `monitor_flow` | two handlers that come and go, systemd and a polled source, queues of 2, 3 ids, starts that fail | `TypeOK`, `OwnListener`, `WatchedOnce`, `InOrder`, `Delivery`, `Fed` |
| `monitor_live` | a handler, the notification service, queues of 1, 4 updates, starts that fail | `SendsReturn`, `HandlersServed`, under fairness |
| `monitor_latest` | two handlers | violates `NewSubscriberSeesLatest` |
| `systemd_track` | two units and one of an ignored type, any initial states, 4 changes, any failures | `TypeOK`, `Tracks`, `SentIsTrue` |
| `systemd_new` | two units, 2 changes | violates `SentIsLatest` |
| `journal_follow` | 5 kinds of entries, 4 configurations, 2 entries, 3 starts of journalctl | `TypeOK`, `InOrder`, `ReadToTheEnd`, `NothingHidden`, `SevereEnough`; `FollowedAgain` under fairness |
| `handler_serve` | one request, a queue of 2, 3 updates, a client that may go, spawns that may fail | `HandlerTypeOK`, `NothingLost`, `NoHelperLeft`; `Delivered`, `DisconnectNoticed` under fairness |
| `handler_pipe` | the same | violates `PipeErrorReturns` |
| `iysr_start` | 1,941 documents, both services, a queue of 2, 3 updates | `IysrTypeOK`, `AcceptsValid`, `ErrorPathResolves`, `OrderKept`, `OneStatus`, `CleanExit`, `HiddenAtEnd`; `StartsOrWedged` under fairness |

Why the bounds suffice. Workers interact with their parent, their siblings and
their children: the pair has the first with all calls, the tree two siblings
and the recursion of `wait()`. Nothing in the crate counts beyond the index of
`retain`. In the monitor the interesting cases are a full queue, an update
between two steps of `subscribe`, and a wrapped id: queues of one or two, four
updates and three ids have them all. Four changes take a unit through a
removal, a return and a change while another is in a call. Two entries and
three starts have an entry that comes again, one that is skipped and a
start that fails. A queue of two and three updates have one update in each of
the handler's, the receiver's and the queue's hands, and a status that is shown
again after an event. The documents of `iysr_start` are built in `MCIysr`: every
kind of value where each key stands, alone and in every place filters may have,
142 of them accepted, and each of the reasons of the parser among the others. `MaxVersion`,
`MaxEvents`, `MaxEntries`, `MaxSpawns` and `MaxUpdates` are bounds that the code
does not have; they stop the environment, not the program. The code's own
limits are smaller in the runs: queues of 10 are of 1 or 2, ids are 3 instead of 2^32.

### Fairness

`Worker!FairSpec`: the operating system runs every thread (weak fairness of
`Proceed`, of `Epilogue` and of the drops of a work function's locals). Strong
fairness of `ObserveCancel`, and of the end of a work function that has seen
its cancellation, is what `lib.rs:578-584` asks of work functions. No fairness
for calls of user code.

`Monitor!FairSpec`: weak fairness of `run_loop`, of the poll's send and of the
steps of `subscribe`; strong fairness of the monitor's mutex and of a blocked
`send`, whose waiters the standard library keeps in a queue. Clients need not
receive and sources need not change.

`Journal!FairSpec`: weak fairness of the three threads. journalctl need neither
write nor end.

`Handler!FairHandlerSpec`: weak fairness of the handler and of both workers, in
the crate and outside, and strong fairness of `WriteFails`: a write to a closed
connection fails in the end, however many are buffered. No fairness of
`Subscribe`, which needs the monitor's mutex; the notification service may keep it.

`Iysr!FairIysrSpec`: weak fairness of every thread once the configuration is
read. Neither the user nor the monitor has to do anything.

### What the violations show

* `NewSubscriberSeesLatest`: the snapshot is read before the listener is added.
* `SentIsLatest`: a unit announced by `UnitNew` is recorded and not sent; it
  reaches the clients with the next change or removal of another unit.
* `PipeErrorReturns`: a handler that leaves after a failed write joins its
  receiver worker while that is blocked in a send to the handler, which nobody
  receives any more. The other way to the same end: the keepalive worker fails and
  wants the mutex of the receiver worker, which the joining handler holds.

Other behaviour that the models have and a maintainer should know of:

* A linked child that fails must lock its parent to signal it. Whoever waits for
  the parent holds that lock until the parent ends, so the parent is never
  cancelled and all three threads are stuck (`lib.rs:362`, 456). The reaper in
  `main.rs:91` waits like this: a service that fails then does not end the program.
* The same lock may stop the start: if main comes to its `wait()` before the
  reaper has attached its services, the reaper blocks in the spawn of the next
  one (`main.rs:83-91`). `StartsOrWedged` excepts this state.
* A second `poll` after success answers `Aborted` (`lib.rs:477`): the channel it
  asks is gone with the thread.
* A failed start of the monitor joins watchers that never end
  (`system_monitor.rs:305`), so `subscribe` does not return its error and keeps the
  monitor locked: from then on (`Stuck`) no other client is served, and without a
  `run_loop` the watchers block once the event channel is full. `SendsReturn` and
  `HandlersServed` claim nothing after that.
* `expire_timeout` is always 0 (`dbus_notify.rs:127`), which tells the daemon never to
  close an event's notification, while its `Drop` leaves it there to expire.
* `dbus_notify.rs:174` keeps the guard of the monitor while it receives, so no
  handler is served until the notification service ends. `HandlersServed` says that
  they are served then, and excepts a service that never ends (`Held`).
* A `Worker` that links a child to itself while somebody waits for it, a `detach`
  and a failing sibling deadlock with that wait, see `OnlyUpwardDeadlocks`.
* `terminate` gives up when its send fails (`lib.rs:502-507`), and `Drop` then
  returns while the thread still runs its epilogue.
* `wait()` reports `Aborted` when a child had ended already (`lib.rs:150-155`).
* `poll_loop` and `run_loop` both write the cache (`system_monitor.rs:214`,
  231), so that of a polled source can go back to an older snapshot.
* A unit whose status cannot be got stays out of date until its next signal;
  during the first listing such a failure ends the watcher for good.
* A panic at PRIORITY ends the journal source, see above.

## Proofs

The theorems hold for every value of the constants: every set of workers and
relation `Spawns`, every subset of calls and outcomes, every queue length and
number of updates, every set of clients, sources, units and entries, every set of
configuration files. They assume
`WorkerAssumption` (`Main` and `NoOne` are distinct and no workers, the sets have
their types), for the two programs `HandlerAssumption` and
`IysrAssumption`, which say who spawns whom in them, and of the others that the
constants have their types: `MonitorAssumption` (finitely many pull sources, no
source twice, `NoClient` is neither client nor source, at least two ids),
`SystemdAssumption`, `FilterAssumption` (`NoOption` is no severity) and
`JournalAssumption`. `DocumentAssumption` says what a JSON value is
(`JsonValues`: one type, and its parts are values again), that two elements of an
array have different keys (`Index` is TLC's `ToString`, of which the prover knows
nothing; TLC evaluates the assumption), and that `Ids` has the ids of all sources;
nothing is said of which documents there are.

| theorem | module | states |
| --- | --- | --- |
| `TypeCorrect` | `WorkerProofs` | `Spec => []TypeOK` |
| `ResultsAreTrue` | `WorkerProofs` | `Spec => []ResultAfterJoin` |
| `JoinsOnce` | `WorkerProofs` | `Spec => []JoinedOnce` |
| `KeepsThePromise` | `ScopeProofs` | `Spec => Scoped`: `Worker` implements `Scopes` |
| `Structured` | `ScopeProofs` | `Spec => []NoOrphans` |
| `FailuresReach` | `ScopeProofs` | `Spec => []FailureReachesParent` |
| `ChildrenTold` | `ScopeProofs` | `Spec => []ListedOrTold` |
| `HandlerTypes` | `HandlerProofs` | `HandlerSpec => []HandlerTypeOK` |
| `NoHelperRemains` | `HandlerProofs` | `HandlerSpec => []NoHelperLeft` |
| `UpdatesArrive` | `HandlerProofs` | `HandlerSpec => []NothingLost` |
| `IysrTypes` | `IysrProofs` | `IysrSpec => []IysrTypeOK` |
| `OneStatusShown` | `IysrProofs` | `IysrSpec => []OneStatus` |
| `ExitsClean` | `IysrProofs` | `IysrSpec => []CleanExit` |
| `StatusHidden` | `IysrProofs` | `IysrSpec => []HiddenAtEnd` |
| `ExactlyValid` | `ConfigProofs` | `IysrSpec => []AcceptsValid` |
| `DocumentOrderKept` | `ConfigProofs` | `IysrSpec => []OrderKept` |
| `ErrorsLead` | `ConfigProofs` | `IysrSpec => []ErrorPathResolves` |
| `MonitorTypes` | `MonitorProofs` | `Spec => []TypeOK` |
| `ListenersOwned` | `MonitorProofs` | `Spec => []OwnListener` |
| `WatchersSingle` | `MonitorProofs` | `Spec => []WatchedOnce` |
| `UpdatesInOrder` | `MonitorProofs` | `Spec => []InOrder` |
| `NothingLost` | `MonitorProofs` | `Spec => []Delivery` |
| `MonitorFeeds` | `MonitorProofs` | `Spec => Fed`: `Monitor` implements `Feed` |
| `NobodyAhead` | `MonitorProofs` | `Spec => []Abstract!NotAhead` |
| `SystemdTypes` | `SystemdProofs` | `Spec => []TypeOK` |
| `WatcherTracks` | `SystemdProofs` | `Spec => []Tracks` |
| `SnapshotsTrue` | `SystemdProofs` | `Spec => []SentIsTrue` |
| `JournalTypes` | `JournalProofs` | `Spec => []TypeOK` |
| `HiddenStays` | `JournalProofs` | `Spec => []NothingHidden` |
| `LevelsKept` | `JournalProofs` | `Spec => []SevereEnough` |
| `AllRead` | `JournalProofs` | `Spec => []ReadToTheEnd` |
| `EventsInOrder` | `JournalProofs` | `Spec => []InOrder` |

### The crate

The inductive invariant of the refinement has six parts, each with one lemma that every action
keeps it. `TypeOK` is not inductive by itself: a step of a call uses `arg[t]`
as a worker, so `CallInv` says that a thread inside a call has one, owns its
handle, and has frames open only while it waits. `BornInv` says that what is in
a list, a frame or a handle has been spawned. `ResultInv` ties a frame's phase
to the thread it joined and a stored `Ok` to the outcome. `WorkInv` places a
thread whose work function has returned, `OpenInv` says that an open frame's
worker has no result yet. With them every step of `Worker` is a step of
`Scopes` or a stutter (`StepImplements`), which gives `KeepsThePromise`;
`PromiseNests` proves of `Scopes` alone that live works nest, and `Structured`
carries that back to the code.

Who blocks whom needs two more. `HeldInv` says both ways who holds what: `lock[w] = t` exactly when `t` is
where the code holds the mutex of `w` (`Holds`), and a thread has at most one frame on
a worker, or closing one would release the mutex under the other. `JoinInv` adds that
an open frame belongs to the thread that holds the mutex, and that a thread that has
been joined left a result or a frame that is past the join: so who opens a frame after
finding no result finds a thread to join (`JoinsOnce`).

`ListedOrTold` is about the lists. `wait()` pops children that its `retain` has
signalled, and `retain` removes from the list while it walks along it; `SignalledInv`
says that every child before the index, and every child once the frame drains, has been
told. It holds because nobody else changes a list while a frame is open on its worker:
that is `JoinInv`, by which who takes the mutex finds the frame idle. That what a child
was told stays true (`ToldGrows`) comes from the refinement: in `Scopes` a work that is
over is not taken up again, and what is free stays free. `ListedKeeps` is the rule that
each action then meets: it takes from a list only what is detached or told, and starts
no linked child that it does not go on to attach.

### The programs

The programs are then shown to be users of the crate: every step of `Handler` and
of `Iysr` is a step of `Worker` or leaves its variables alone (`StepIsWorkers`,
`ProgramOfWorkers`), so all theorems of the crate hold in them. What is left is
to say who keeps which handle until when (`KeptInv`): `CallProgress` of `ScopeProofs` says that
a step inside the crate keeps a call where it is, returns, or lets go of one handle
(`CallProgress`). `NoHelperRemains` and `ExitsClean` follow from that and from
`Structured`: a handle that was let go belongs to a work that is over.
`UpdatesArrive` needs two facts more: nothing was queued before `subscribe` returned
(`LostInv`), and a listener that is gone does not come back. Each step that moves an
update is then an equation between concatenations (`QueuedLast`, `TakenFirst`,
`HandedOn`, `Written`). The proofs of `OneStatus` and `HiddenAtEnd` add `ScreenInv`: unless a status
is there whose id the code was not told, or could not be closed, a status on the screen
has the id that the code replaces, and ids are given once.

### The monitor and the sources

`Monitor`. `OwnListener` is inductive once types are known. `WatchedOnce` needs
`WatchInv`: while a start is under way no loop runs, and no source beyond those
subscribed to so far has a watcher, so a retry finds them all ended. That there is one
start at a time is `LockInv`: inside `subscribe()` a client has the monitor locked, and
a `Holder` keeps it. `InOrder` compares the queue of a client with its view, but a
step can break it only through the update that comes next, so `OrderInv` follows a push source's
updates back to where they are made: `AtMost(s, v)` says that nothing of `s` on its way
is older than `v`, and it holds of what is cached, what is queued and what is viewed.
For `Delivery` the moment between `RunCache` and `RunFan` must be excepted
(`Fanning`), and the proof follows the last snapshot of a source in a queue (`Shots`)
through each append, each receive and each truncated first snapshot. That `Shows` is a
relation between a queue and a version, and not a recursive scan of the queue, is what
makes the proof possible.

For the refinement of `Feed` two invariants are added. `DatedInv` says that nothing in
a channel, in the cache or in a queue is newer than what its source has made.
`WithinInv` is the upper bound that `OrderInv` does not give: no snapshot of a push source in
a client's queue or view is newer than the cache. It rests on `run_loop` caching before
it sends (`DeliveryInv`: while it is `Fanning`, the cache has what is passed on) and on
the cache never going back (`CacheGrows`). Each step of the monitor then is one action
of the feed (`MakesIsMake`, `CacheIsPublish`, `SnapshotIsJoin`, `OverIsLeave`,
`ReceiveIsSee`) or is out of its sight. `FeedKeeps` proves `NotAhead` of `Feed` alone,
and `NobodyAhead` carries it back.

`SystemdDbus`. `Tracks` speaks of an empty inbox only. `Corrected(u)` says of every
state what is under way about `u`: if the watcher believes in a unit that is gone, the
`UnitRemoved` is waiting; if it does not know one that is there, a `UnitNew` is
waiting, or the unit is still to be listed or being asked for; if it has an old state, a
`PropertiesChanged` or a `UnitRemoved` is waiting or a check is under way; and a removal
in the inbox of a unit that is back is followed by a `UnitNew` (`Revived`).
`RulesInv` and `KnownInv` say that the match rules are there before the calls whose
answers they complete.

`Journal`. `ReadToTheEnd` follows from `RestInv`: who reads when nobody runs. `InOrder`
needs `AheadInv`: what is in the pipe is increasing and beyond all that has been offered
since the last report. About `Filter` the lemmas are stated of the operators: no hidden
key passes `Filtered`, whatever filters extend (`FilteredHides`), and what passes met
a filter whose level it satisfies; `ProperInv` carries them to what is offered.

### The configuration

A document may be anything, and still no induction is needed, because the parser does
not recurse: a document has at most eight levels that are read. For each function
there is a lemma that says for every JSON value that it succeeds exactly if the value is
valid, and what it then gives (`Matcher`, `Matchers`, `FilterRead`, `FilterListRead`,
`ModuleRead`, `SourceRead`, `PollRead`, `SourcesRead`, `DocumentRead`); a function's
lemma uses those of the functions that it calls. `RunAll` says of `RunM` that it
yields all the values or some error; that there is a least failing index is the
well-foundedness of the naturals (`FirstBad`). `Consuming` is `ConfigCheck`: the keys
that were read and the keys that are there. `ParseSource` removes `module` before it
passes the rest on, and `ParseModule` puts the fields of a filter between two others; where
that shifts indices the lemma says so. `AcceptsValid` is `DocumentRead`, and for
`OrderKept` `PatternsKept` and `OrderRead` follow a pattern to the place it came from.

Of an error there is to show where its path leads, and `ValueAt` follows a path of any
length. It is a recursive function on `0..Len(path)`; that there is exactly one such
function follows from the least number at which there would be none, or two would
differ (`LeastNumber`, `Followed`, `FollowedOnce`), so no induction scheme is cited. By
`Shifts` a path leads where its rest leads from the child of its first key, and
`Deeper` says with it that `annotate_error!` takes an error that is explained one level
down to one that is explained here. `Explained` then goes up through the parser, with
one lemma for each function, as for `AcceptsValid`. "missing" is the one reason given
of a key that is not there; it is given only one level below an object, and nothing
above mistakes such an error for one of its own.

### Only model-checked

Every invariant that a run checks is a theorem but `OnlyUpwardDeadlocks`, and so are both
refinements. It needs the history of who spawned whom, to say that handles and links
form a tree at every moment, and is checked on two and three workers. What else stays
with TLC is liveness (`CallsReturn`, `SendsReturn`, `HandlersServed`, `FollowedAgain`,
`Delivered`, `DisconnectNoticed`, `StartsOrWedged`): the prover does not reason about
fairness and `ENABLED`.

## Not modelled

JSON syntax and encoding and the types that are only encoded (`monitor.rs`, parts
of `service.rs`), error conversions and helpers (`errors.rs`, `util.rs`), the
lines of a server-sent event, which strings are globs or regular expressions.
`systemd_subprocess.rs`, which no `mod` includes and the compiler never sees, the
four lines of the example `worker/src/main.rs`, and `dbus_notify::test`.

## Plan

1. An abstract source that `SystemdDbus` and `Journal` implement and from which
   `Monitor` takes its sources; the refinements proved.
2. That the programs meet what `Monitor` assumes of its clients: a handler and the
   notification service receive, or give up their `Receiver`.
3. Liveness of the systemd watcher once the bus is quiet.
