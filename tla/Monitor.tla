-------------------------------- MODULE Monitor -------------------------------
(***************************************************************************)
(* SystemMonitor (src/system_monitor.rs): it takes updates from sources,   *)
(* keeps the latest snapshot of each source and passes every update on to  *)
(* its listeners.  Push sources run a watcher thread each; pull sources    *)
(* are polled by poll_loop; run_loop caches and fans out.  The threads are  *)
(* started by the first subscribe().  The clients are the HTTP handlers    *)
(* (src/service.rs) and the notification service (src/dbus_notify.rs),     *)
(* which share the monitor behind a mutex.                                 *)
(*                                                                         *)
(* A thread blocks at the monitor's mutex, at a full or empty channel and  *)
(* at joins.  last_state and listeners have mutexes too, held for one step *)
(* at a time.  An update is its source, its scope and a version: the       *)
(* number of updates the source has made.                                  *)
(***************************************************************************)
EXTENDS Naturals, Sequences, FiniteSets, SequencesExt

CONSTANTS
  Clients,      \* threads that subscribe
  Holders,      \* clients that keep the monitor locked while subscribed: dbus_notify
  NoClient,     \* no client
  PushSources,  \* push_sources, in order
  Watchers,     \* push sources that send snapshots and block: systemd; the
                \* others offer partial updates and do not block: journal
  PullSources,  \* pull_sources
  SpawnFails,   \* at which thread spawn of subscribe() the system may refuse
  IdSpace,      \* the number of values of a subscriber id, 2^32
  EventCap,     \* event_buffer
  QueueCap,     \* the capacity of a listener's channel, 10
  MaxVersion    \* bound: how many updates each source makes

Pushed == {PushSources[i] : i \in 1..Len(PushSources)}
Sources == Pushed \cup PullSources

ASSUME MonitorAssumption ==
  /\ Holders \subseteq Clients
  /\ NoClient \notin Clients \cup Sources
  /\ PushSources \in Seq(Pushed)
  /\ IsInjective(PushSources)
  /\ Watchers \subseteq Pushed
  /\ Pushed \cap PullSources = {} /\ IsFiniteSet(PullSources)
  /\ SpawnFails \subseteq 1..(Len(PushSources) + 1)
  /\ IdSpace \in Nat \ {0, 1}
  /\ {EventCap, QueueCap} \subseteq Nat \ {0}
  /\ MaxVersion \in [Sources -> Nat]

VARIABLES
  monitorLock,  \* the client that has the SystemMonitor locked
  threadState,  \* thread_state
  subscribed,   \* how many push sources subscribe() has subscribed to
  dropped,      \* the SystemMonitor is being dropped
  pc,           \* where each client is
  id,           \* Receiver.id
  listeners,    \* subscriber id -> client, NoClient if the entry is vacant
  subscriberId, \* subscriber_id
  queue,        \* the channel of each client's Receiver
  view,         \* per client and source, the version of the last snapshot taken,
                \* at first the one that was cached when its channel was made
  missed,       \* per client, the sources whose last snapshot was dropped for it
  since,        \* per client and source, what was cached when it was listed
  made,         \* per source, how many updates it has made
  watcher,      \* the thread of each push source
  events,       \* the event channel
  lastState,    \* per source, the version in last_state, 0 if there is none
  poller,       \* the pull source poll_loop has an update of, or NoClient
  runner,       \* where run_loop is
  current       \* the update run_loop works on

clientVars == <<pc, id, queue, view, missed, since>>
monitorVars == <<monitorLock, threadState, subscribed, dropped, subscriberId>>
sourceVars == <<made, watcher, poller>>
runVars == <<runner, current>>
vars == <<clientVars, monitorVars, listeners, sourceVars, events, lastState, runVars>>

Ids == 0..(IdSpace - 1)
Update(s, v, scope) == [source |-> s, version |-> v, scope |-> scope]
Nothing == [s \in Sources |-> 0]
NoUpdate == [source |-> NoClient, version |-> 0, scope |-> "Partial"]

Init ==
  /\ monitorLock = NoClient
  /\ threadState = "NotRunning"
  /\ subscribed = 0
  /\ dropped = FALSE
  /\ pc = [c \in Clients |-> "out"]
  /\ id = [c \in Clients |-> 0]
  /\ listeners = [i \in Ids |-> NoClient]
  /\ subscriberId = 0
  /\ queue = [c \in Clients |-> <<>>]
  /\ view = [c \in Clients |-> Nothing]
  /\ missed = [c \in Clients |-> {}]
  /\ since = [c \in Clients |-> Nothing]
  /\ made = Nothing
  /\ watcher = [s \in Pushed |-> "off"]
  /\ events = <<>>
  /\ lastState = Nothing
  /\ poller = NoClient
  /\ runner = "off"
  /\ current = NoUpdate

-----------------------------------------------------------------------------
(* Clients.                                                                *)

\* The client has an entry in listeners.
Listed(c) == pc[c] \in {"start", "spawn", "join", "ready", "open"}

\* The subscription is over and nothing is left of it, nor of the thread of the
\* notification service.
Over(c) ==
  /\ pc' = [pc EXCEPT ![c] = IF c \in Holders THEN "gone" ELSE "out"]
  /\ id' = [id EXCEPT ![c] = 0]
  /\ queue' = [queue EXCEPT ![c] = <<>>]
  /\ view' = [view EXCEPT ![c] = Nothing]
  /\ missed' = [missed EXCEPT ![c] = {}]
  /\ since' = [since EXCEPT ![c] = Nothing]

\* Mutant of Subscribed: every client keeps the lock, as dbus_notify does.
SubscribedLocked(c) ==
  /\ pc' = [pc EXCEPT ![c] = "ready"]
  /\ monitorLock' = c

\* subscribe() returns Ok: a handler unlocks, the notification service does not.
Subscribed(c) ==
  /\ pc' = [pc EXCEPT ![c] = "ready"]
  /\ monitorLock' = IF c \in Holders THEN c ELSE NoClient

\* Drop for Receiver.
Unlist(c) == listeners' = [listeners EXCEPT ![id[c]] = NoClient]

\* An HTTP request arrives, or the notification service starts.
Request(c) ==
  /\ pc[c] = "out"
  /\ ~dropped
  /\ pc' = [pc EXCEPT ![c] = "lock"]
  /\ UNCHANGED <<id, queue, view, missed, since, monitorVars, listeners, sourceVars,
                 events, lastState, runVars>>

\* monitor.lock()
LockMonitor(c) ==
  /\ pc[c] = "lock"
  /\ monitorLock = NoClient
  /\ monitorLock' = c
  /\ pc' = [pc EXCEPT ![c] = "snapshot"]
  /\ UNCHANGED <<id, queue, view, missed, since, threadState, subscribed, dropped,
                 subscriberId, listeners, sourceVars, events, lastState, runVars>>

\* A new channel gets the cached snapshots, in the order of a HashMap, as far
\* as it has room.
SendSnapshot(c) ==
  LET cached == {Update(s, lastState[s], "Snapshot") : s \in {r \in Sources : lastState[r] > 0}}
      room == IF Cardinality(cached) < QueueCap THEN Cardinality(cached) ELSE QueueCap
  IN
  /\ pc[c] = "snapshot"
  /\ \E order \in SetToSeqs(cached) :
       /\ queue' = [queue EXCEPT ![c] = SubSeq(order, 1, room)]
       /\ missed' = [missed EXCEPT ![c] =
                       {order[i].source : i \in (room + 1)..Cardinality(cached)}]
  /\ view' = [view EXCEPT ![c] = lastState]
  /\ pc' = [pc EXCEPT ![c] = "attach"]
  /\ UNCHANGED <<id, since, monitorVars, listeners, sourceVars, events, lastState, runVars>>

\* The next subscriber id, which wraps.
Following(i) == (i + 1) % IdSpace

\* Mutant of Attach: whether the entry is vacant is not looked at.
AttachAnyway(c) ==
  /\ pc[c] = "attach"
  /\ Cardinality({i \in Ids : listeners[i] # NoClient}) <= (IdSpace - 1) \div 2
  /\ listeners' = [listeners EXCEPT ![subscriberId] = c]
  /\ id' = [id EXCEPT ![c] = subscriberId]
  /\ subscriberId' = Following(subscriberId)
  /\ since' = [since EXCEPT ![c] = lastState]
  /\ pc' = [pc EXCEPT ![c] = "start"]
  /\ UNCHANGED <<queue, view, missed, monitorLock, threadState, subscribed, dropped,
                 sourceVars, events, lastState, runVars>>

\* The listener gets the next id that is vacant.
Attach(c) ==
  /\ pc[c] = "attach"
  /\ Cardinality({i \in Ids : listeners[i] # NoClient}) <= (IdSpace - 1) \div 2
  /\ \E k \in Ids :
       LET i == (subscriberId + k) % IdSpace IN
       /\ listeners[i] = NoClient
       /\ \A j \in 0..(k - 1) : listeners[(subscriberId + j) % IdSpace] # NoClient
       /\ listeners' = [listeners EXCEPT ![i] = c]
       /\ id' = [id EXCEPT ![c] = i]
       /\ subscriberId' = Following(i)
  /\ since' = [since EXCEPT ![c] = lastState]
  /\ pc' = [pc EXCEPT ![c] = "start"]
  /\ UNCHANGED <<queue, view, missed, monitorLock, threadState, subscribed, dropped,
                 sourceVars, events, lastState, runVars>>

\* "Too many listeners"
Refuse(c) ==
  /\ pc[c] = "attach"
  /\ Cardinality({i \in Ids : listeners[i] # NoClient}) > (IdSpace - 1) \div 2
  /\ subscriberId' = Following(subscriberId)
  /\ monitorLock' = NoClient
  /\ Over(c)
  /\ UNCHANGED <<threadState, subscribed, dropped, listeners, sourceVars, events, lastState, runVars>>

\* The threads run already, or they have to be started: try_bind takes
\* thread_state out and leaves Ended.
Start(c) ==
  /\ pc[c] = "start"
  /\ \/ /\ threadState = "Running"
        /\ Subscribed(c)
        /\ UNCHANGED <<threadState, subscribed>>
     \/ /\ threadState = "NotRunning"
        /\ threadState' = "Ended"
        /\ subscribed' = 0
        /\ pc' = [pc EXCEPT ![c] = "spawn"]
        /\ UNCHANGED monitorLock
  /\ UNCHANGED <<id, queue, view, missed, since, dropped, subscriberId, listeners,
                 sourceVars, events, lastState, runVars>>

\* source.subscribe() for the next push source: it spawns a watcher thread.
SubscribeSource(c) ==
  /\ pc[c] = "spawn"
  /\ subscribed < Len(PushSources)
  /\ watcher' = [watcher EXCEPT ![PushSources[subscribed + 1]] = "watching"]
  /\ subscribed' = subscribed + 1
  /\ UNCHANGED <<clientVars, monitorLock, threadState, dropped, subscriberId, listeners,
                 made, poller, events, lastState, runVars>>

\* poll_loop and run_loop are spawned.
SpawnLoops(c) ==
  /\ pc[c] = "spawn"
  /\ subscribed = Len(PushSources)
  /\ threadState' = "Running"
  /\ runner' = "recv"
  /\ Subscribed(c)
  /\ UNCHANGED <<id, queue, view, missed, since, subscribed, dropped, subscriberId,
                 listeners, sourceVars, events, lastState, current>>

\* A thread cannot be spawned.
SpawnFailure(c) ==
  /\ pc[c] = "spawn"
  /\ subscribed + 1 \in SpawnFails
  /\ pc' = [pc EXCEPT ![c] = "join"]
  /\ UNCHANGED <<id, queue, view, missed, since, monitorVars, listeners, sourceVars,
                 events, lastState, runVars>>

\* Mutant of JoinSubscriptions: the subscriptions are dropped without a join.
DropSubscriptions(c) ==
  /\ pc[c] = "join"
  /\ threadState' = "NotRunning"
  /\ subscribed' = 0
  /\ Unlist(c)
  /\ monitorLock' = NoClient
  /\ Over(c)
  /\ UNCHANGED <<dropped, subscriberId, sourceVars, events, lastState, runVars>>

\* The subscriptions made so far are dropped, which joins their watchers; only
\* then is thread_state NotRunning again, the Receiver dropped and the error
\* returned.
JoinSubscriptions(c) ==
  /\ pc[c] = "join"
  /\ \A i \in 1..subscribed : watcher[PushSources[i]] = "ended"
  /\ threadState' = "NotRunning"
  /\ subscribed' = 0
  /\ Unlist(c)
  /\ monitorLock' = NoClient
  /\ Over(c)
  /\ UNCHANGED <<dropped, subscriberId, sourceVars,
                 events, lastState, runVars>>

\* The client's own threads and connections are there: it starts to receive.
Open(c) ==
  /\ pc[c] = "ready"
  /\ pc' = [pc EXCEPT ![c] = "open"]
  /\ UNCHANGED <<id, queue, view, missed, since, monitorVars, listeners, sourceVars,
                 events, lastState, runVars>>

\* receiver.recv(); a snapshot replaces the client's view of its source.
Receive(c) ==
  LET u == Head(queue[c]) IN
  /\ pc[c] = "open"
  /\ queue[c] # <<>>
  /\ queue' = [queue EXCEPT ![c] = Tail(@)]
  /\ view' = IF u.scope = "Snapshot" THEN [view EXCEPT ![c][u.source] = u.version] ELSE view
  /\ UNCHANGED <<pc, id, missed, since, monitorVars, listeners, sourceVars, events,
                 lastState, runVars>>

\* The Receiver is dropped, and with it the lock of the notification service:
\* the client's threads or connection could not be made, or it gives up when
\* it has received an update.
Leave(c) ==
  /\ pc[c] = "ready" \/ (pc[c] = "open" /\ queue[c] # <<>>)
  /\ Unlist(c)
  /\ Over(c)
  /\ monitorLock' = IF c \in Holders THEN NoClient ELSE monitorLock
  /\ UNCHANGED <<threadState, subscribed, dropped, subscriberId,
                 sourceVars, events, lastState, runVars>>

\* Drop for SystemMonitor, once no client has a reference.  It never joins
\* run_loop, which receives as long as the monitor's own event_writable lives.
DropMonitor ==
  /\ ~dropped
  /\ \A c \in Clients : pc[c] \in {"out", "gone"}
  /\ dropped' = TRUE
  /\ threadState' = IF threadState = "Running" THEN "Ended" ELSE threadState
  /\ UNCHANGED <<clientVars, monitorLock, subscribed, subscriberId, listeners, sourceVars,
                 events, lastState, runVars>>

-----------------------------------------------------------------------------
(* Sources.                                                                *)

\* try_send into the event channel drops what does not fit.
Offer(u) == events' = IF Len(events) < EventCap THEN Append(events, u) ELSE events

\* Something happens that the source reports.
Makes(s) ==
  /\ made[s] < MaxVersion[s]
  /\ made' = [made EXCEPT ![s] = @ + 1]

\* Mutant of Change: the source caches its state, as poll_loop does.
ChangeAndCache(s) ==
  /\ watcher[s] = "watching"
  /\ Makes(s)
  /\ lastState' = [lastState EXCEPT ![s] = made[s] + 1]
  /\ watcher' = [watcher EXCEPT ![s] = "sending"]
  /\ UNCHANGED <<clientVars, monitorVars, listeners, poller, events, runVars>>

\* systemd: the state changes and is to be sent.
Change(s) ==
  /\ watcher[s] = "watching"
  /\ Makes(s)
  /\ watcher' = [watcher EXCEPT ![s] = "sending"]
  /\ UNCHANGED <<clientVars, monitorVars, listeners, poller, events, lastState, runVars>>

\* Mutant of Send: the event channel is unbounded.
SendAnyway(s) ==
  /\ watcher[s] = "sending"
  /\ events' = Append(events, Update(s, made[s], "Snapshot"))
  /\ watcher' = [watcher EXCEPT ![s] = "watching"]
  /\ UNCHANGED <<clientVars, monitorVars, listeners, made, poller, lastState, runVars>>

\* sender.send(), which waits for room.
Send(s) ==
  /\ watcher[s] = "sending"
  /\ Len(events) < EventCap
  /\ events' = Append(events, Update(s, made[s], "Snapshot"))
  /\ watcher' = [watcher EXCEPT ![s] = "watching"]
  /\ UNCHANGED <<clientVars, monitorVars, listeners, made, poller, lastState, runVars>>

\* systemd: the connection fails; the watcher reports that and ends.
Die(s) ==
  /\ watcher[s] = "watching"
  /\ Makes(s)
  /\ Offer(Update(s, made[s] + 1, "Partial"))
  /\ watcher' = [watcher EXCEPT ![s] = "ended"]
  /\ UNCHANGED <<clientVars, monitorVars, listeners, poller, lastState, runVars>>

\* A line of the journal, or an error that a watcher reports and survives.
Line(s) ==
  /\ watcher[s] = "watching"
  /\ Makes(s)
  /\ Offer(Update(s, made[s] + 1, "Partial"))
  /\ UNCHANGED <<clientVars, monitorVars, listeners, watcher, poller, lastState, runVars>>

\* poll_loop: the next source is polled and its answer cached.
Poll(s) ==
  /\ runner # "off"
  /\ poller = NoClient
  /\ Makes(s)
  /\ lastState' = [lastState EXCEPT ![s] = made[s] + 1]
  /\ poller' = s
  /\ UNCHANGED <<clientVars, monitorVars, listeners, watcher, events, runVars>>

\* poll_loop: the answer is sent too.
SendPoll ==
  /\ poller # NoClient
  /\ Offer(Update(poller, made[poller], "Snapshot"))
  /\ poller' = NoClient
  /\ UNCHANGED <<clientVars, monitorVars, listeners, made, watcher, lastState, runVars>>

-----------------------------------------------------------------------------
(* run_loop.                                                               *)

RunReceive ==
  /\ runner = "recv"
  /\ events # <<>>
  /\ current' = Head(events)
  /\ events' = Tail(events)
  /\ runner' = "cache"
  /\ UNCHANGED <<clientVars, monitorVars, listeners, sourceVars, lastState>>

\* Mutant of RunCache: partial updates are cached too.
RunCacheAll ==
  /\ runner = "cache"
  /\ lastState' = [lastState EXCEPT ![current.source] = current.version]
  /\ runner' = "fan"
  /\ UNCHANGED <<clientVars, monitorVars, listeners, sourceVars, events, current>>

\* Mutant of RunCache: what is cached already is not replaced.
RunCacheOnce ==
  /\ runner = "cache"
  /\ lastState' = IF current.scope = "Snapshot" /\ lastState[current.source] = 0
                  THEN [lastState EXCEPT ![current.source] = current.version]
                  ELSE lastState
  /\ runner' = "fan"
  /\ UNCHANGED <<clientVars, monitorVars, listeners, sourceVars, events, current>>

\* last_state.update()
RunCache ==
  /\ runner = "cache"
  /\ lastState' = IF current.scope = "Snapshot"
                  THEN [lastState EXCEPT ![current.source] = current.version]
                  ELSE lastState
  /\ runner' = "fan"
  /\ UNCHANGED <<clientVars, monitorVars, listeners, sourceVars, events, current>>

\* Mutant of RunFan: it waits until every listener has room.
RunFanWaiting ==
  LET on == {c \in Clients : \E i \in Ids : listeners[i] = c} IN
  /\ runner = "fan"
  /\ \A c \in on : Len(queue[c]) < QueueCap
  /\ queue' = [c \in Clients |-> IF c \in on THEN Append(queue[c], current) ELSE queue[c]]
  /\ runner' = "recv"
  /\ UNCHANGED <<pc, id, view, missed, since, monitorVars, listeners, sourceVars, events,
                 lastState, current>>

\* try_send to each listener, with listeners locked.
RunFan ==
  LET on == {c \in Clients : \E i \in Ids : listeners[i] = c}
      fits == {c \in on : Len(queue[c]) < QueueCap}
  IN
  /\ runner = "fan"
  /\ queue' = [c \in Clients |-> IF c \in fits THEN Append(queue[c], current) ELSE queue[c]]
  /\ missed' = IF current.scope = "Partial" THEN missed
               ELSE [c \in Clients |->
                       CASE c \in fits      -> missed[c] \ {current.source}
                         [] c \in on \ fits -> missed[c] \cup {current.source}
                         [] OTHER           -> missed[c]]
  /\ runner' = "recv"
  /\ UNCHANGED <<pc, id, view, since, monitorVars, listeners, sourceVars, events,
                 lastState, current>>

-----------------------------------------------------------------------------
\* subscribe() from the lock to its return.
Subscribe(c) ==
  \/ SendSnapshot(c) \/ Attach(c) \/ Refuse(c) \/ Start(c)
  \/ SubscribeSource(c) \/ SpawnLoops(c) \/ SpawnFailure(c) \/ JoinSubscriptions(c)

Run == RunReceive \/ RunCache \/ RunFan

Next ==
  \/ \E c \in Clients :
       Request(c) \/ LockMonitor(c) \/ Subscribe(c) \/ Open(c) \/ Receive(c) \/ Leave(c)
  \/ \E s \in Watchers : Change(s) \/ Send(s) \/ Die(s)
  \/ \E s \in Pushed : Line(s)
  \/ \E s \in PullSources : Poll(s)
  \/ SendPoll
  \/ Run
  \/ DropMonitor

Spec == Init /\ [][Next]_vars

\* The operating system runs every thread, and a mutex or a full channel for
\* which a thread waits is eventually granted when it becomes free again and
\* again.  Nothing obliges a client to receive or a source to change.
Fairness ==
  /\ WF_vars(Run)
  /\ WF_vars(SendPoll)
  /\ \A c \in Clients : WF_vars(Subscribe(c)) /\ SF_vars(LockMonitor(c))
  /\ \A s \in Watchers : SF_vars(Send(s))

FairSpec == Spec /\ Fairness

-----------------------------------------------------------------------------
(* Properties.                                                             *)

Updates == [source: Sources, version: Nat \ {0}, scope: {"Snapshot", "Partial"}]

\* Every variable has its type, and no channel holds more than its capacity.
TypeOK ==
  /\ monitorLock \in Clients \cup {NoClient}
  /\ threadState \in {"NotRunning", "Running", "Ended"}
  /\ subscribed \in 0..Len(PushSources)
  /\ dropped \in BOOLEAN
  /\ pc \in [Clients -> {"out", "lock", "snapshot", "attach", "start", "spawn", "join",
                         "ready", "open", "gone"}]
  /\ id \in [Clients -> Ids]
  /\ listeners \in [Ids -> Clients \cup {NoClient}]
  /\ subscriberId \in Ids
  /\ queue \in [Clients -> Seq(Updates)] /\ \A c \in Clients : Len(queue[c]) <= QueueCap
  /\ view \in [Clients -> [Sources -> Nat]]
  /\ missed \in [Clients -> SUBSET Sources]
  /\ since \in [Clients -> [Sources -> Nat]]
  /\ made \in [Sources -> Nat]
  /\ watcher \in [Pushed -> {"off", "watching", "sending", "ended"}]
  /\ events \in Seq(Updates) /\ Len(events) <= EventCap
  /\ lastState \in [Sources -> Nat]
  /\ poller \in PullSources \cup {NoClient}
  /\ runner \in {"off", "recv", "cache", "fan"}
  /\ current \in Updates \cup {NoUpdate}

\* Each Receiver has the entry of its id and there is no other entry, however
\* often the ids have wrapped: nobody gets or removes another's channel, and
\* no channel outlives its Receiver.
OwnListener ==
  /\ \A c \in Clients : Listed(c) => listeners[id[c]] = c
  /\ \A i \in Ids : listeners[i] # NoClient => Listed(listeners[i]) /\ id[listeners[i]] = i

\* A source is never watched by two threads: a retry after a failed start
\* subscribes to it only when the first watcher is over.
WatchedOnce ==
  \A c \in Clients :
    pc[c] = "spawn" /\ subscribed < Len(PushSources)
      => watcher[PushSources[subscribed + 1]] \in {"off", "ended"}

\* A client sees the updates of a push source in the order in which the source
\* made them, from the cached snapshot on: its view never goes backwards.
InOrder ==
  \A c \in Clients, s \in Pushed :
    LET own == {i \in 1..Len(queue[c]) : queue[c][i].source = s} IN
    /\ \A i \in own : view[c][s] <= queue[c][i].version
    /\ \A i, j \in own : i < j => queue[c][i].version <= queue[c][j].version

\* A client whose view of s is old sees version v of s when it has received q.
Shows(q, old, s, v) ==
  LET shots == {i \in 1..Len(q) : q[i].source = s /\ q[i].scope = "Snapshot"}
  IN \/ shots = {} /\ old = v
     \/ \E i \in shots : (\A j \in shots : j <= i) /\ q[i].version = v

\* No lost update: while run_loop waits for the next event, a client that has
\* missed none for a full queue is up to date with the cache, or nothing has
\* been cached since it was listed.
Delivery ==
  \A c \in Clients, s \in Watchers :
    /\ Listed(c)
    /\ runner = "recv"
    /\ s \notin missed[c]
    => Shows(queue[c], view[c][s], s, lastState[s]) \/ lastState[s] = since[c][s]

\* A client is a member of the feed from when it gets the cached snapshots.
Members == {c \in Clients : Listed(c) \/ pc[c] = "attach"}

Abstract == INSTANCE Feed WITH
              Ordered <- Pushed, cache <- lastState, members <- Members

\* The monitor is a feed: with queues that drop updates and threads at any speed, no
\* snapshot of a push source that a client sees is older than one it has seen, than
\* what was cached when it subscribed, or than what another client saw before that.
Fed == Abstract!Spec

\* A failed start waits, with the monitor locked, for a watcher that goes on
\* (system_monitor.rs:305).
Stuck ==
  \E c \in Clients :
    pc[c] = "join" /\ \E i \in 1..subscribed : watcher[PushSources[i]] # "ended"

\* The notification service is subscribed and keeps the monitor locked.
Held == \E c \in Holders : pc[c] \in {"ready", "open"}

\* A client that does not receive never blocks a watcher for ever: every send
\* returns, unless a failed start is stuck, after which nobody runs run_loop.
SendsReturn ==
  \A s \in Watchers :
    (watcher[s] = "sending" ~> watcher[s] = "watching") \/ <>[]Stuck

\* subscribe() comes back for every client, with a Receiver or an error, however
\* many clients come and however often a start fails or the notification service
\* had the monitor before; unless the service never lets go of the monitor,
\* or a failed start is stuck with it.
HandlersServed ==
  \A c \in Clients :
    \/ pc[c] = "lock" ~> pc[c] \notin {"lock", "snapshot", "attach", "start", "spawn", "join"}
    \/ <>[]Held
    \/ <>[]Stuck

\* A snapshot is "the entire latest state (will be cached and sent to new
\* subscribers)" (monitor.rs:255-256): a new subscriber is up to date.
NewSubscriberSeesLatest ==
  \A c \in Clients, s \in Watchers :
    Listed(c) /\ runner = "recv" /\ s \notin missed[c]
      => Shows(queue[c], view[c][s], s, lastState[s])

=============================================================================
