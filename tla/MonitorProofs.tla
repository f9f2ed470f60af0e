----------------------------- MODULE MonitorProofs ----------------------------
(***************************************************************************)
(* Proofs about Monitor, for any clients and sources, any capacities of    *)
(* the channels and any number of subscriber ids and updates.              *)
(***************************************************************************)
EXTENDS Monitor, FiniteSetTheorems, SequenceTheorems, TLAPS

\* An update that is about to be sent has a version.
MadeInv ==
  /\ poller # NoClient => made[poller] > 0
  /\ \A s \in Pushed : watcher[s] = "sending" => made[s] > 0
  /\ runner \in {"cache", "fan"} => current \in Updates

\* Inside subscribe() a client has the monitor locked; the notification service
\* keeps it locked.
Locks(c) ==
  \/ pc[c] \in {"snapshot", "attach", "start", "spawn", "join"}
  \/ c \in Holders /\ pc[c] \in {"ready", "open"}

LockInv == \A c \in Clients : Locks(c) => monitorLock = c

\* Only started threads run, and while they are started only those of the
\* sources that have been subscribed to.
Unwatched(s) == watcher[s] \in {"off", "ended"}

WatchInv ==
  /\ threadState = "NotRunning" => runner = "off" /\ \A s \in Pushed : Unwatched(s)
  /\ \A c \in Clients : pc[c] \in {"spawn", "join"} =>
       /\ threadState # "NotRunning" /\ runner = "off"
       /\ \A j \in 1..Len(PushSources) : j > subscribed => Unwatched(PushSources[j])

\* Whatever comes of the source s from now on has at least version v.
AtMost(s, v) ==
  /\ v <= made[s]
  /\ \A i \in 1..Len(events) : events[i].source = s => v <= events[i].version
  /\ runner \in {"cache", "fan"} /\ current.source = s => v <= current.version

\* The updates of a push source are on their way in the order of their versions.
OnTheWay ==
  \A s \in Pushed :
    /\ \A i, j \in 1..Len(events) :
         i < j /\ events[i].source = s /\ events[j].source = s => events[i].version <= events[j].version
    /\ \A i \in 1..Len(events) : events[i].source = s => events[i].version <= made[s]
    /\ runner \in {"cache", "fan"} /\ current.source = s => AtMost(s, current.version)

\* What is cached and what clients have or will receive is no newer than what is
\* on its way.
OrderInv ==
  /\ OnTheWay
  /\ \A s \in Pushed : AtMost(s, lastState[s])
  /\ \A c \in Clients, s \in Pushed :
       /\ AtMost(s, view[c][s])
       /\ \A i \in 1..Len(queue[c]) : queue[c][i].source = s => AtMost(s, queue[c][i].version)

\* run_loop is about to pass on the snapshot of s that it has cached.
Fanning(s) == runner = "fan" /\ current.source = s /\ current.scope = "Snapshot"

DeliveryInv ==
  /\ \A s \in Pushed : Fanning(s) => lastState[s] = current.version
  /\ \A c \in Clients, s \in Pushed :
       Listed(c) /\ s \notin missed[c] /\ ~Fanning(s)
         => Shows(queue[c], view[c][s], s, lastState[s]) \/ lastState[s] = since[c][s]

-----------------------------------------------------------------------------
(* Types.                                                                  *)

\* There are finitely many sources, so cached snapshots can be listed.
LEMMA SourcesFinite == IsFiniteSet(Sources)
<1> USE MonitorAssumption
<1>1. Len(PushSources) \in Nat
  OBVIOUS
<1>2. IsFiniteSet(1..Len(PushSources))
  BY <1>1, FS_Interval
<1>3. IsFiniteSet(Pushed)
  <2>1. PushSources \in Surjection(1..Len(PushSources), Pushed)
    BY DEF Pushed, Surjection
  <2> QED
    BY <1>2, <2>1, FS_Surjection
<1> QED
  BY <1>3, FS_Union DEF Sources

\* What a new channel gets: a part of the cache, at most one update of a source.
Cached == {Update(s, lastState[s], "Snapshot") : s \in {r \in Sources : lastState[r] > 0}}
Room == IF Cardinality(Cached) < QueueCap THEN Cardinality(Cached) ELSE QueueCap

LEMMA UpdateFields ==
  ASSUME NEW s, NEW v, NEW scope
  PROVE  Update(s, v, scope).source = s /\ Update(s, v, scope).version = v /\ Update(s, v, scope).scope = scope
BY DEF Update

LEMMA UpdateType ==
  ASSUME NEW s \in Sources, NEW v \in Nat \ {0}, NEW scope \in {"Snapshot", "Partial"}
  PROVE  Update(s, v, scope) \in Updates
BY DEF Update, Updates

LEMMA CachedFacts ==
  ASSUME TypeOK
  PROVE  /\ Cached \subseteq Updates
         /\ \A u \in Cached : u.scope = "Snapshot" /\ u.version = lastState[u.source]
         /\ Cardinality(Cached) \in Nat
         /\ Room \in 0..QueueCap /\ Room <= Cardinality(Cached)
<1> USE MonitorAssumption
<1>1. \A u \in Cached : u \in Updates /\ u.scope = "Snapshot" /\ u.version = lastState[u.source]
  <2> SUFFICES ASSUME NEW s \in Sources, lastState[s] > 0
               PROVE  LET u == Update(s, lastState[s], "Snapshot")
                      IN u \in Updates /\ u.scope = "Snapshot" /\ u.version = lastState[u.source]
    BY DEF Cached
  <2>1. lastState[s] \in Nat \ {0}
    BY DEF TypeOK
  <2> QED
    BY <2>1, UpdateFields, UpdateType
<1>2. Cardinality(Cached) \in Nat
  <2>1. IsFiniteSet({r \in Sources : lastState[r] > 0})
    BY SourcesFinite, FS_Subset
  <2>2. IsFiniteSet(Cached)
    <3> DEFINE R == {r \in Sources : lastState[r] > 0}
               f == [r \in R |-> Update(r, lastState[r], "Snapshot")]
    <3>1. f \in Surjection(R, Cached)
      BY DEF Surjection, Cached
    <3> HIDE DEF f
    <3> QED
      BY <2>1, <3>1, FS_Surjection
  <2> QED
    BY <2>2, FS_CardinalityType
<1>3. Room \in 0..QueueCap /\ Room <= Cardinality(Cached)
  BY <1>2 DEF Room
<1> QED
  BY <1>1, <1>2, <1>3

\* The channel after SendSnapshot.
LEMMA SnapshotQueue ==
  ASSUME TypeOK, NEW order \in SetToSeqs(Cached), NEW q, q = SubSeq(order, 1, Room)
  PROVE  /\ q \in Seq(Updates) /\ Len(q) = Room
         /\ \A i \in 1..Len(q) : q[i] \in Cached
<1>1. order \in [1..Cardinality(Cached) -> Cached]
  BY DEF SetToSeqs
<1>2. Cardinality(Cached) \in Nat /\ Room \in Nat /\ Room <= Cardinality(Cached) /\ Cached \subseteq Updates
  BY CachedFacts, MonitorAssumption
<1>3. \A i \in 1..Room : order[i] \in Cached
  BY <1>1, <1>2
<1> HIDE DEF Room, Cached
<1>4. /\ q \in Seq(Cached)
      /\ Len(q) = IF 1 <= Room THEN Room - 1 + 1 ELSE 0
  BY <1>2, <1>3, SubSeqProperties
<1>5. Len(q) = Room
  BY <1>2, <1>4
<1>6. q \in Seq(Updates)
  BY <1>2, <1>4, SeqMonotonic
<1> QED
  BY <1>4, <1>5, <1>6

\* A client's step out of the subscription keeps the types of what Over sets.
LEMMA OverType ==
  ASSUME TypeOK, NEW c \in Clients, Over(c)
  PROVE  /\ pc' \in [Clients -> {"out", "lock", "snapshot", "attach", "start", "spawn", "join",
                                 "ready", "open", "gone"}]
         /\ id' \in [Clients -> Ids]
         /\ queue' \in [Clients -> Seq(Updates)] /\ \A d \in Clients : Len(queue'[d]) <= QueueCap
         /\ view' \in [Clients -> [Sources -> Nat]]
         /\ missed' \in [Clients -> SUBSET Sources]
         /\ since' \in [Clients -> [Sources -> Nat]]
<1> USE MonitorAssumption
<1>1. 0 \in Ids
  BY DEF Ids
<1>2. Nothing \in [Sources -> Nat]
  BY DEF Nothing
<1>3. <<>> \in Seq(Updates) /\ Len(<<>>) = 0
  OBVIOUS
<1>4. id' \in [Clients -> Ids]
  BY <1>1 DEF Over, TypeOK
<1>5. queue' \in [Clients -> Seq(Updates)] /\ \A d \in Clients : Len(queue'[d]) <= QueueCap
  BY <1>3 DEF Over, TypeOK
<1>6. view' \in [Clients -> [Sources -> Nat]] /\ since' \in [Clients -> [Sources -> Nat]]
  BY <1>2 DEF Over, TypeOK
<1>7. /\ pc' \in [Clients -> {"out", "lock", "snapshot", "attach", "start", "spawn", "join",
                              "ready", "open", "gone"}]
      /\ missed' \in [Clients -> SUBSET Sources]
  BY DEF Over, TypeOK
<1> QED
  BY <1>4, <1>5, <1>6, <1>7

\* try_send never overfills the event channel.
LEMMA OfferType ==
  ASSUME TypeOK, NEW u \in Updates, Offer(u)
  PROVE  events' \in Seq(Updates) /\ Len(events') <= EventCap
<1>1. CASE Len(events) < EventCap
  BY <1>1, MonitorAssumption DEF Offer, TypeOK
<1>2. CASE ~(Len(events) < EventCap)
  BY <1>2 DEF Offer, TypeOK
<1> QED
  BY <1>1, <1>2

LEMMA TypeStep == TypeOK /\ MadeInv /\ [Next]_vars => TypeOK'
<1> SUFFICES ASSUME TypeOK, MadeInv, [Next]_vars
             PROVE  TypeOK'
  OBVIOUS
<1> USE MonitorAssumption
<1>0. Len(PushSources) \in Nat /\ Pushed \subseteq Sources /\ PullSources \subseteq Sources
  BY DEF Sources
<1>1. CASE UNCHANGED vars
  BY <1>1 DEF TypeOK, vars, clientVars, monitorVars, sourceVars, runVars
<1>2. ASSUME NEW c \in Clients, Request(c) \/ LockMonitor(c) \/ SpawnFailure(c) \/ Open(c)
      PROVE  TypeOK'
  BY <1>2 DEF TypeOK, Request, LockMonitor, SpawnFailure, Open, monitorVars, sourceVars, runVars
<1>3. ASSUME NEW c \in Clients, SendSnapshot(c)
      PROVE  TypeOK'
  <2>1. PICK order \in SetToSeqs(Cached) :
             /\ queue' = [queue EXCEPT ![c] = SubSeq(order, 1, Room)]
             /\ missed' = [missed EXCEPT ![c] =
                             {order[i].source : i \in (Room + 1)..Cardinality(Cached)}]
    BY <1>3 DEF SendSnapshot, Cached, Room
  <2>2. queue' \in [Clients -> Seq(Updates)] /\ \A d \in Clients : Len(queue'[d]) <= QueueCap
    <3> DEFINE q == SubSeq(order, 1, Room)
    <3>0. q = SubSeq(order, 1, Room) /\ queue' = [queue EXCEPT ![c] = q]
      BY <2>1
    <3> HIDE DEF q
    <3>1. q \in Seq(Updates) /\ Len(q) = Room
      BY <3>0, SnapshotQueue
    <3>2. Len(q) <= QueueCap
      BY <3>1, CachedFacts
    <3> QED
      BY <3>0, <3>1, <3>2 DEF TypeOK
  <2>3. missed' \in [Clients -> SUBSET Sources]
    <3> DEFINE m == {order[i].source : i \in (Room + 1)..Cardinality(Cached)}
    <3>1. \A i \in (Room + 1)..Cardinality(Cached) : order[i] \in Updates
      BY CachedFacts DEF SetToSeqs
    <3>2. m \in SUBSET Sources
      BY <3>1 DEF Updates
    <3> HIDE DEF m
    <3>3. missed' = [missed EXCEPT ![c] = m]
      BY <2>1 DEF m
    <3> QED
      BY <3>2, <3>3 DEF TypeOK
  <2> QED
    BY <1>3, <2>2, <2>3 DEF SendSnapshot, TypeOK, monitorVars, sourceVars, runVars
<1>4. ASSUME NEW c \in Clients, Attach(c)
      PROVE  TypeOK'
  <2>1. \A i \in Int : i % IdSpace \in Ids
    BY DEF Ids
  <2>2. PICK k \in Ids :
             LET i == (subscriberId + k) % IdSpace IN
             /\ listeners' = [listeners EXCEPT ![i] = c]
             /\ id' = [id EXCEPT ![c] = i]
             /\ subscriberId' = Following(i)
    BY <1>4 DEF Attach
  <2> DEFINE i == (subscriberId + k) % IdSpace
  <2>3. i \in Ids
    <3>1. subscriberId \in Int /\ k \in Int
      BY DEF TypeOK, Ids
    <3>2. subscriberId + k \in Int
      BY <3>1
    <3> QED
      BY <2>1, <3>2
  <2>4. Following(i) \in Ids
    <3>1. i \in Int
      BY <2>3 DEF Ids
    <3> HIDE DEF i
    <3>2. i + 1 \in Int
      BY <3>1
    <3> QED
      BY <2>1, <3>2 DEF Following
  <2> QED
    BY <1>4, <2>2, <2>3, <2>4 DEF Attach, TypeOK, sourceVars, runVars
<1>5. ASSUME NEW c \in Clients, Refuse(c)
      PROVE  TypeOK'
  <2>1. Following(subscriberId) \in Ids
    BY DEF TypeOK, Ids, Following
  <2> QED
    BY <1>5, <2>1, OverType DEF Refuse, TypeOK, sourceVars, runVars
<1>6. ASSUME NEW c \in Clients, Start(c)
      PROVE  TypeOK'
  <2>1. /\ threadState' \in {"NotRunning", "Running", "Ended"}
        /\ subscribed' \in 0..Len(PushSources)
        /\ monitorLock' \in Clients \cup {NoClient}
    BY <1>0, <1>6 DEF Start, Subscribed, TypeOK
  <2>2. pc' = [pc EXCEPT ![c] = "ready"] \/ pc' = [pc EXCEPT ![c] = "spawn"]
    BY <1>6 DEF Start, Subscribed
  <2> QED
    BY <1>6, <2>1, <2>2 DEF Start, TypeOK, sourceVars, runVars
<1>7. ASSUME NEW c \in Clients, SubscribeSource(c)
      PROVE  TypeOK'
  <2>1. subscribed' \in 0..Len(PushSources)
    BY <1>0, <1>7 DEF SubscribeSource, TypeOK
  <2>2. watcher' \in [Pushed -> {"off", "watching", "sending", "ended"}]
    BY <1>7 DEF SubscribeSource, TypeOK
  <2> QED
    BY <1>7, <2>1, <2>2 DEF SubscribeSource, TypeOK, clientVars, runVars
<1>8. ASSUME NEW c \in Clients, SpawnLoops(c)
      PROVE  TypeOK'
  BY <1>8 DEF SpawnLoops, Subscribed, TypeOK, sourceVars
<1>9. ASSUME NEW c \in Clients, JoinSubscriptions(c) \/ Leave(c)
      PROVE  TypeOK'
  <2>1. /\ Over(c) /\ Unlist(c)
        /\ monitorLock' \in {monitorLock, NoClient} /\ threadState' \in {threadState, "NotRunning"}
        /\ subscribed' \in {subscribed, 0}
        /\ UNCHANGED <<dropped, subscriberId, made, watcher, poller, events, lastState, runner, current>>
    BY <1>9 DEF JoinSubscriptions, Leave, sourceVars, runVars
  <2>2. listeners' \in [Ids -> Clients \cup {NoClient}]
    BY <2>1 DEF Unlist, TypeOK
  <2>3. /\ monitorLock' \in Clients \cup {NoClient}
        /\ threadState' \in {"NotRunning", "Running", "Ended"}
        /\ subscribed' \in 0..Len(PushSources)
    <3>1. monitorLock' = monitorLock \/ monitorLock' = NoClient
      BY <2>1
    <3>2. threadState' = threadState \/ threadState' = "NotRunning"
      BY <2>1
    <3>3. subscribed' = subscribed \/ subscribed' = 0
      BY <2>1
    <3> QED
      BY <1>0, <3>1, <3>2, <3>3 DEF TypeOK
  <2> QED
    BY <2>1, <2>2, <2>3, OverType DEF TypeOK
<1>10. ASSUME NEW c \in Clients, Receive(c)
       PROVE  TypeOK'
  <2> DEFINE u == Head(queue[c])
  <2>1. u \in Updates /\ Tail(queue[c]) \in Seq(Updates) /\ Len(Tail(queue[c])) <= QueueCap
    <3>1. queue[c] \in Seq(Updates) /\ Len(queue[c]) <= QueueCap
      BY DEF TypeOK
    <3>2. queue[c] # <<>>
      BY <1>10 DEF Receive
    <3> QED
      BY <3>1, <3>2
  <2>2. view' \in [Clients -> [Sources -> Nat]]
    <3>1. u.source \in Sources /\ u.version \in Nat
      BY <2>1 DEF Updates
    <3>2. view' = view \/ view' = [view EXCEPT ![c][u.source] = u.version]
      BY <1>10 DEF Receive
    <3> HIDE DEF u
    <3>3. view \in [Clients -> [Sources -> Nat]]
      BY DEF TypeOK
    <3>4. CASE view' = [view EXCEPT ![c][u.source] = u.version]
      <4>1. view' = [view EXCEPT ![c] = [view[c] EXCEPT ![u.source] = u.version]]
        BY <3>4
      <4>2. [view[c] EXCEPT ![u.source] = u.version] \in [Sources -> Nat]
        BY <3>1, <3>3
      <4> QED
        BY <3>3, <4>1, <4>2
    <3> QED
      BY <3>2, <3>3, <3>4
  <2>3. queue' \in [Clients -> Seq(Updates)] /\ \A d \in Clients : Len(queue'[d]) <= QueueCap
    <3> DEFINE q == Tail(queue[c])
    <3>1. queue' = [queue EXCEPT ![c] = q]
      BY <1>10 DEF Receive
    <3>2. q \in Seq(Updates) /\ Len(q) <= QueueCap
      BY <2>1
    <3> HIDE DEF q, u
    <3> QED
      BY <3>1, <3>2 DEF TypeOK
  <2> QED
    BY <1>10, <2>2, <2>3 DEF Receive, TypeOK, monitorVars, sourceVars, runVars
<1>11. CASE DropMonitor
  BY <1>11 DEF DropMonitor, TypeOK, clientVars, sourceVars, runVars
<1>12. ASSUME NEW s \in Pushed, Change(s)
       PROVE  TypeOK'
  <2>1. s \in Sources /\ made \in [Sources -> Nat]
    BY <1>0 DEF TypeOK
  <2>2. made' \in [Sources -> Nat]
    BY <1>12, <2>1 DEF Change, Makes
  <2> QED
    BY <1>12, <2>2 DEF Change, TypeOK, clientVars, monitorVars, runVars
<1>13. ASSUME NEW s \in Pushed, Send(s)
       PROVE  TypeOK'
  <2>1. Update(s, made[s], "Snapshot") \in Updates
    BY <1>0, <1>13, UpdateType DEF Send, MadeInv, TypeOK
  <2>2. events' \in Seq(Updates) /\ Len(events') <= EventCap
    BY <1>13, <2>1 DEF Send, TypeOK
  <2> QED
    BY <1>13, <2>2 DEF Send, TypeOK, clientVars, monitorVars, runVars
<1>14. ASSUME NEW s \in Pushed, Die(s) \/ Line(s)
       PROVE  TypeOK'
  <2>1. Update(s, made[s] + 1, "Partial") \in Updates
    BY <1>0, UpdateType DEF TypeOK
  <2>2. events' \in Seq(Updates) /\ Len(events') <= EventCap
    BY <1>14, <2>1, OfferType DEF Die, Line
  <2>3. made' \in [Sources -> Nat]
    <3>1. s \in Sources /\ made \in [Sources -> Nat]
      BY <1>0 DEF TypeOK
    <3> QED
      BY <1>14, <3>1 DEF Die, Line, Makes
  <2>4. watcher' \in [Pushed -> {"off", "watching", "sending", "ended"}]
    BY <1>14 DEF Die, Line, TypeOK
  <2> QED
    BY <1>14, <2>2, <2>3, <2>4 DEF Die, Line, TypeOK, clientVars, monitorVars, runVars
<1>15. ASSUME NEW s \in PullSources, Poll(s)
       PROVE  TypeOK'
  BY <1>0, <1>15 DEF Poll, Makes, TypeOK, clientVars, monitorVars, runVars
<1>16. CASE SendPoll
  <2>1. Update(poller, made[poller], "Snapshot") \in Updates
    BY <1>0, <1>16, UpdateType DEF SendPoll, MadeInv, TypeOK
  <2>2. events' \in Seq(Updates) /\ Len(events') <= EventCap
    BY <1>16, <2>1, OfferType DEF SendPoll
  <2> QED
    BY <1>16, <2>2 DEF SendPoll, TypeOK, clientVars, monitorVars, runVars
<1>17. CASE RunReceive
  <2>1. events # <<>> /\ events \in Seq(Updates) /\ Len(events) <= EventCap
    BY <1>17 DEF RunReceive, TypeOK
  <2>2. Head(events) \in Updates /\ Tail(events) \in Seq(Updates) /\ Len(Tail(events)) <= EventCap
    BY <2>1
  <2> QED
    BY <1>17, <2>2 DEF RunReceive, TypeOK, clientVars, monitorVars, sourceVars
<1>18. CASE RunCache
  <2>1. current.source \in Sources /\ current.version \in Nat
    BY <1>18 DEF RunCache, MadeInv, Updates
  <2> QED
    BY <1>18, <2>1 DEF RunCache, TypeOK, clientVars, monitorVars, sourceVars
<1>19. CASE RunFan
  <2>1. current \in Updates
    BY <1>19 DEF RunFan, MadeInv
  <2>2. queue' \in [Clients -> Seq(Updates)] /\ \A c \in Clients : Len(queue'[c]) <= QueueCap
    <3> DEFINE fits == {c \in {d \in Clients : \E i \in Ids : listeners[i] = d} : Len(queue[c]) < QueueCap}
    <3>1. queue' = [c \in Clients |-> IF c \in fits THEN Append(queue[c], current) ELSE queue[c]]
      BY <1>19 DEF RunFan
    <3>2. ASSUME NEW c \in Clients
          PROVE  queue'[c] \in Seq(Updates) /\ Len(queue'[c]) <= QueueCap
      BY <2>1, <3>1 DEF TypeOK
    <3> QED
      BY <3>1, <3>2
  <2>3. missed' \in [Clients -> SUBSET Sources]
    <3>1. current.source \in Sources
      BY <2>1 DEF Updates
    <3> DEFINE on == {d \in Clients : \E i \in Ids : listeners[i] = d}
               fits == {c \in on : Len(queue[c]) < QueueCap}
    <3>2. missed' = missed \/
            missed' = [c \in Clients |-> CASE c \in fits      -> missed[c] \ {current.source}
                                           [] c \in on \ fits -> missed[c] \cup {current.source}
                                           [] OTHER           -> missed[c]]
      BY <1>19 DEF RunFan
    <3> HIDE DEF on, fits
    <3>3. ASSUME NEW c \in Clients
          PROVE  (CASE c \in fits      -> missed[c] \ {current.source}
                    [] c \in on \ fits -> missed[c] \cup {current.source}
                    [] OTHER           -> missed[c]) \in SUBSET Sources
      <4>1. missed[c] \in SUBSET Sources
        BY DEF TypeOK
      <4>2. CASE c \in fits
        <5>1. ~(c \in on \ fits)
          BY <4>2
        <5> QED
          BY <3>1, <4>1, <4>2, <5>1
      <4>3. CASE c \in on \ fits
        <5>1. ~(c \in fits)
          BY <4>3
        <5> QED
          BY <3>1, <4>1, <4>3, <5>1
      <4>4. CASE ~(c \in fits) /\ ~(c \in on \ fits)
        BY <4>1, <4>4
      <4> QED
        BY <4>2, <4>3, <4>4
    <3> QED
      BY <3>2, <3>3 DEF TypeOK
  <2> QED
    BY <1>19, <2>2, <2>3 DEF RunFan, TypeOK, monitorVars, sourceVars
<1> QED
  BY <1>1, <1>2, <1>3, <1>4, <1>5, <1>6, <1>7, <1>8, <1>9, <1>10, <1>11, <1>12, <1>13, <1>14,
     <1>15, <1>16, <1>17, <1>18, <1>19 DEF Next, Subscribe, Run

\* A source never takes back an update.
LEMMA MadeGrows ==
  ASSUME TypeOK, [Next]_vars, NEW s \in Sources
  PROVE  made[s] \in Nat /\ made'[s] \in Nat /\ made[s] <= made'[s]
<1>1. made \in [Sources -> Nat]
  BY DEF TypeOK
<1>2. ASSUME NEW r \in Sources, Makes(r)
      PROVE  made[s] <= made'[s] /\ made'[s] \in Nat
  BY <1>1, <1>2 DEF Makes
<1>3. (\E r \in Sources : Makes(r)) \/ made' = made
  BY MonitorAssumption
     DEF Next, Subscribe, Run, vars, clientVars, monitorVars, sourceVars, runVars, Sources,
         Request, LockMonitor, SendSnapshot, Attach, Refuse, Start, SubscribeSource, SpawnLoops,
         SpawnFailure, JoinSubscriptions, Open, Receive, Leave, DropMonitor,
         Change, Send, Die, Line, Poll, SendPoll, RunReceive, RunCache, RunFan
<1> QED
  BY <1>1, <1>2, <1>3

LEMMA MadeStep == TypeOK /\ MadeInv /\ [Next]_vars => MadeInv'
<1> SUFFICES ASSUME TypeOK, MadeInv, [Next]_vars
             PROVE  MadeInv'
  OBVIOUS
<1>0. \A s \in Sources : made[s] \in Nat /\ made'[s] \in Nat /\ made[s] <= made'[s]
  BY MadeGrows
<1>1. (poller # NoClient => made[poller] > 0)'
  <2>1. CASE poller' = poller
    <3>1. poller # NoClient => poller \in Sources
      BY DEF TypeOK, Sources
    <3> QED
      BY <1>0, <2>1, <3>1 DEF MadeInv
  <2>2. CASE \E s \in PullSources : Poll(s)
    BY <1>0, <2>2 DEF Poll, Makes, TypeOK, Sources
  <2>3. poller' = poller \/ poller' = NoClient \/ \E s \in PullSources : Poll(s)
    BY DEF Next, Subscribe, Run, vars, clientVars, monitorVars, sourceVars, runVars,
           Request, LockMonitor, SendSnapshot, Attach, Refuse, Start, SubscribeSource, SpawnLoops,
           SpawnFailure, JoinSubscriptions, Open, Receive, Leave, DropMonitor,
           Change, Send, Die, Line, SendPoll, RunReceive, RunCache, RunFan
  <2> QED
    BY <2>1, <2>2, <2>3
<1>2. ASSUME NEW s \in Pushed
      PROVE  (watcher[s] = "sending" => made[s] > 0)'
  <2>1. s \in Sources
    BY DEF Sources
  <2>2. CASE \E r \in Watchers : Change(r)
    <3>1. PICK r \in Watchers : Change(r)
      BY <2>2
    <3>2. CASE r = s
      BY <1>0, <2>1, <3>1, <3>2 DEF Change, Makes, TypeOK
    <3>3. CASE r # s
      BY <1>0, <2>1, <3>1, <3>3 DEF Change, TypeOK, MadeInv
    <3> QED
      BY <3>2, <3>3
  <2>3. (\E r \in Watchers : Change(r)) \/ (watcher'[s] = "sending" => watcher[s] = "sending")
    BY MonitorAssumption
       DEF Next, Subscribe, Run, vars, clientVars, monitorVars, sourceVars, runVars, TypeOK,
           Request, LockMonitor, SendSnapshot, Attach, Refuse, Start, SubscribeSource, SpawnLoops,
           SpawnFailure, JoinSubscriptions, Open, Receive, Leave, DropMonitor,
           Send, Die, Line, Poll, SendPoll, RunReceive, RunCache, RunFan
  <2> QED
    BY <1>0, <2>1, <2>2, <2>3 DEF MadeInv
<1>3. (runner \in {"cache", "fan"} => current \in Updates)'
  <2>1. CASE RunReceive
    BY <2>1 DEF RunReceive, TypeOK
  <2>2. RunReceive \/ (runner' \in {"cache", "fan"} => runner \in {"cache", "fan"} /\ current' = current)
    BY DEF Next, Subscribe, Run, vars, clientVars, monitorVars, sourceVars, runVars,
           Request, LockMonitor, SendSnapshot, Attach, Refuse, Start, SubscribeSource, SpawnLoops,
           SpawnFailure, JoinSubscriptions, Open, Receive, Leave, DropMonitor,
           Change, Send, Die, Line, Poll, SendPoll, RunCache, RunFan
  <2> QED
    BY <2>1, <2>2 DEF MadeInv
<1> QED
  BY <1>1, <1>2, <1>3 DEF MadeInv

\* Every variable has its type and no channel ever holds more than its
\* capacity: the event channel event_buffer updates, a listener's channel 10.
THEOREM MonitorTypes == Spec => []TypeOK
<1>1. Init => TypeOK /\ MadeInv
  <2> USE MonitorAssumption
  <2>1. Nothing \in [Sources -> Nat]
    BY DEF Nothing
  <2>2. 0 \in Ids
    BY DEF Ids
  <2>3. <<>> \in Seq(Updates) /\ Len(<<>>) = 0
    OBVIOUS
  <2>4. Init => MadeInv
    BY DEF Init, MadeInv
  <2>5. Init => subscribed \in 0..Len(PushSources)
    BY DEF Init
  <2>6. Init => /\ queue \in [Clients -> Seq(Updates)] /\ \A c \in Clients : Len(queue[c]) <= QueueCap
                /\ events \in Seq(Updates) /\ Len(events) <= EventCap
    BY <2>3 DEF Init
  <2>7. Init => /\ view \in [Clients -> [Sources -> Nat]]
                /\ since \in [Clients -> [Sources -> Nat]]
                /\ made \in [Sources -> Nat] /\ lastState \in [Sources -> Nat]
    BY <2>1 DEF Init
  <2>8. Init => /\ id \in [Clients -> Ids] /\ subscriberId \in Ids
                /\ listeners \in [Ids -> Clients \cup {NoClient}]
    BY <2>2 DEF Init
  <2>9. Init => /\ pc \in [Clients -> {"out", "lock", "snapshot", "attach", "start", "spawn",
                                        "join", "ready", "open", "gone"}]
                /\ missed \in [Clients -> SUBSET Sources]
                /\ watcher \in [Pushed -> {"off", "watching", "sending", "ended"}]
    BY DEF Init
  <2> QED
    BY <2>4, <2>5, <2>6, <2>7, <2>8, <2>9 DEF Init, TypeOK
<1> QED
  BY <1>1, TypeStep, MadeStep, PTL DEF Spec

-----------------------------------------------------------------------------
(* Listeners.                                                              *)

\* A subscription that ends gives its id free.
LEMMA EndsOwn ==
  ASSUME TypeOK, OwnListener, NEW c \in Clients, Listed(c), Unlist(c), Over(c)
  PROVE  OwnListener'
<1> USE MonitorAssumption
<1>1. pc'[c] \in {"gone", "out"} /\ \A d \in Clients \ {c} : pc'[d] = pc[d] /\ id'[d] = id[d]
  BY DEF Over, TypeOK
<1>2. ~Listed(c)' /\ \A d \in Clients \ {c} : (Listed(d)' <=> Listed(d))
  BY <1>1 DEF Listed
<1>3. /\ id[c] \in Ids /\ listeners'[id[c]] = NoClient
      /\ \A i \in Ids \ {id[c]} : listeners'[i] = listeners[i]
  BY DEF Unlist, TypeOK
<1>4. listeners[id[c]] = c
  BY DEF OwnListener
<1>5. ASSUME NEW d \in Clients, Listed(d)'
      PROVE  listeners'[id'[d]] = d
  <2>1. d # c /\ Listed(d) /\ id'[d] = id[d]
    BY <1>1, <1>2, <1>5
  <2>2. listeners[id[d]] = d /\ id[d] \in Ids
    BY <2>1 DEF OwnListener, TypeOK
  <2>3. id[d] # id[c]
    BY <2>1, <2>2, <1>4
  <2> QED
    BY <1>3, <2>1, <2>2, <2>3
<1>6. ASSUME NEW i \in Ids, listeners'[i] # NoClient
      PROVE  (Listed(listeners[i]) /\ id[listeners[i]] = i)'
  <2>1. i # id[c] /\ listeners'[i] = listeners[i]
    BY <1>3, <1>6
  <2>2. PICK d \in Clients : d = listeners[i] /\ Listed(d) /\ id[d] = i
    BY <1>6, <2>1 DEF OwnListener, TypeOK
  <2>3. d # c
    BY <2>1, <2>2
  <2>4. Listed(d)' /\ id'[d] = i
    BY <1>1, <1>2, <2>2, <2>3
  <2> QED
    BY <2>1, <2>2, <2>4 DEF Listed
<1> QED
  BY <1>5, <1>6 DEF OwnListener

\* A subscription takes an id that is vacant.
LEMMA AttachOwn ==
  ASSUME TypeOK, OwnListener, NEW c \in Clients, Attach(c)
  PROVE  OwnListener'
<1> USE MonitorAssumption
<1>1. PICK k \in Ids : /\ listeners[(subscriberId + k) % IdSpace] = NoClient
                       /\ listeners' = [listeners EXCEPT ![(subscriberId + k) % IdSpace] = c]
                       /\ id' = [id EXCEPT ![c] = (subscriberId + k) % IdSpace]
  BY DEF Attach
<1> DEFINE n == (subscriberId + k) % IdSpace
<1>2. n \in Ids
  <2>1. subscriberId \in Int /\ k \in Int
    BY DEF TypeOK, Ids
  <2>2. subscriberId + k \in Int
    BY <2>1
  <2> QED
    BY <2>2 DEF Ids
<1> HIDE DEF n
<1>3. /\ listeners[n] = NoClient /\ listeners'[n] = c /\ id'[c] = n
      /\ \A i \in Ids \ {n} : listeners'[i] = listeners[i]
      /\ \A d \in Clients \ {c} : id'[d] = id[d]
  BY <1>1, <1>2 DEF n, TypeOK
<1>4. ~Listed(c) /\ Listed(c)' /\ \A d \in Clients \ {c} : (Listed(d)' <=> Listed(d))
  BY DEF Attach, Listed, TypeOK
<1>5. ASSUME NEW d \in Clients, Listed(d)'
      PROVE  listeners'[id'[d]] = d
  <2>1. CASE d = c
    BY <1>3, <2>1
  <2>2. CASE d # c
    <3>1. listeners[id[d]] = d /\ id[d] \in Ids
      BY <1>4, <1>5, <2>2 DEF OwnListener, TypeOK
    <3>2. id[d] # n
      BY <1>3, <3>1
    <3> QED
      BY <1>3, <2>2, <3>1, <3>2
  <2> QED
    BY <2>1, <2>2
<1>6. ASSUME NEW i \in Ids, listeners'[i] # NoClient
      PROVE  (Listed(listeners[i]) /\ id[listeners[i]] = i)'
  <2>1. CASE i = n
    BY <1>3, <1>4, <2>1 DEF Listed
  <2>2. CASE i # n
    <3>1. listeners'[i] = listeners[i]
      BY <1>3, <2>2
    <3>2. PICK d \in Clients : d = listeners[i] /\ Listed(d) /\ id[d] = i
      BY <1>6, <3>1 DEF OwnListener, TypeOK
    <3>3. d # c
      BY <1>4, <3>2
    <3>4. Listed(d)' /\ id'[d] = i
      BY <1>3, <1>4, <3>2, <3>3
    <3> QED
      BY <3>1, <3>2, <3>4 DEF Listed
  <2> QED
    BY <2>1, <2>2
<1> QED
  BY <1>5, <1>6 DEF OwnListener

\* Nobody's subscription begins or ends.
LEMMA KeepsOwn ==
  ASSUME OwnListener, TypeOK, UNCHANGED listeners,
         \A c \in Clients : (Listed(c)' <=> Listed(c)) /\ (Listed(c) => id'[c] = id[c])
  PROVE  OwnListener'
<1>1. ASSUME NEW i \in Ids, listeners'[i] # NoClient
      PROVE  (Listed(listeners[i]) /\ id[listeners[i]] = i)'
  <2>1. PICK d \in Clients : d = listeners[i] /\ Listed(d) /\ id[d] = i
    BY <1>1 DEF OwnListener, TypeOK
  <2>2. Listed(d)' /\ id'[d] = i
    BY <2>1
  <2> QED
    BY <2>1, <2>2 DEF Listed
<1>2. \A c \in Clients : Listed(c)' => listeners'[id'[c]] = c
  BY DEF OwnListener
<1> QED
  BY <1>1, <1>2 DEF OwnListener

LEMMA OwnStep == TypeOK /\ OwnListener /\ [Next]_vars => OwnListener'
<1> SUFFICES ASSUME TypeOK, OwnListener, [Next]_vars
             PROVE  OwnListener'
  OBVIOUS
<1>1. ASSUME NEW c \in Clients, Attach(c)
      PROVE  OwnListener'
  BY <1>1, AttachOwn
<1>2. ASSUME NEW c \in Clients, JoinSubscriptions(c) \/ Leave(c)
      PROVE  OwnListener'
  <2>1. Listed(c) /\ Unlist(c) /\ Over(c)
    BY <1>2 DEF JoinSubscriptions, Leave, Listed
  <2> QED
    BY <2>1, EndsOwn
<1>3. ASSUME NEW c \in Clients, Request(c) \/ LockMonitor(c) \/ SendSnapshot(c) \/ Refuse(c)
      PROVE  OwnListener'
  <2>1. ~Listed(c) /\ ~Listed(c)' /\ UNCHANGED listeners
        /\ \A d \in Clients \ {c} : pc'[d] = pc[d] /\ id'[d] = id[d]
    BY <1>3 DEF Request, LockMonitor, SendSnapshot, Refuse, Over, Listed, TypeOK
  <2>2. \A d \in Clients : (Listed(d)' <=> Listed(d)) /\ (Listed(d) => id'[d] = id[d])
    BY <2>1 DEF Listed
  <2> QED
    BY <2>1, <2>2, KeepsOwn
<1>4. ASSUME NEW c \in Clients, Start(c) \/ SpawnLoops(c) \/ SpawnFailure(c) \/ Open(c)
      PROVE  OwnListener'
  <2>1. Listed(c) /\ Listed(c)' /\ UNCHANGED <<id, listeners>>
        /\ \A d \in Clients \ {c} : pc'[d] = pc[d]
    BY <1>4 DEF Start, SpawnLoops, SpawnFailure, Open, Subscribed, Listed, TypeOK
  <2>2. \A d \in Clients : (Listed(d)' <=> Listed(d)) /\ (Listed(d) => id'[d] = id[d])
    BY <2>1 DEF Listed
  <2> QED
    BY <2>1, <2>2, KeepsOwn
<1>5. CASE UNCHANGED <<pc, id, listeners>>
  BY <1>5, KeepsOwn DEF Listed
<1> QED
  BY <1>1, <1>2, <1>3, <1>4, <1>5
     DEF Next, Subscribe, Run, vars, clientVars, SubscribeSource, Receive, DropMonitor,
         Change, Send, Die, Line, Poll, SendPoll, RunReceive, RunCache, RunFan

\* However often subscriber ids wrap, a client that is subscribed has the entry
\* of its own id and every entry is that of a client which is subscribed: no
\* Receiver gets or removes another's channel and none leaves one behind.
THEOREM ListenersOwned == Spec => []OwnListener
<1>1. Init => OwnListener
  BY DEF Init, OwnListener, Listed
<1> QED
  BY <1>1, MonitorTypes, OwnStep, PTL DEF Spec

-----------------------------------------------------------------------------
(* The lock and the watchers.                                              *)

LEMMA LockStep == TypeOK /\ LockInv /\ [Next]_vars => LockInv'
<1> SUFFICES ASSUME TypeOK, LockInv, [Next]_vars
             PROVE  LockInv'
  OBVIOUS
<1> USE MonitorAssumption
<1>1. ASSUME NEW c \in Clients, Locks(c), \A d \in Clients \ {c} : pc'[d] = pc[d],
             Locks(c)' => monitorLock' = c
      PROVE  LockInv'
  <2> SUFFICES ASSUME NEW d \in Clients, Locks(d)'
               PROVE  monitorLock' = d
    BY DEF LockInv
  <2>1. CASE d = c
    BY <1>1, <2>1
  <2>2. CASE d # c
    <3>1. Locks(d)
      BY <1>1, <2>2 DEF Locks
    <3>2. monitorLock = d /\ monitorLock = c
      BY <1>1, <3>1 DEF LockInv
    <3> QED
      BY <2>2, <3>2
  <2> QED
    BY <2>1, <2>2
<1>2. ASSUME NEW c \in Clients, ~Locks(c), ~Locks(c)', UNCHANGED monitorLock,
             \A d \in Clients \ {c} : pc'[d] = pc[d]
      PROVE  LockInv'
  <2> SUFFICES ASSUME NEW d \in Clients, Locks(d)'
               PROVE  monitorLock' = d
    BY DEF LockInv
  <2>1. d # c /\ Locks(d)
    BY <1>2 DEF Locks
  <2> QED
    BY <1>2, <2>1 DEF LockInv
<1>3. ASSUME NEW c \in Clients, LockMonitor(c)
      PROVE  LockInv'
  <2> SUFFICES ASSUME NEW d \in Clients, d # c, Locks(d)'
               PROVE  FALSE
    BY <1>3 DEF LockInv, LockMonitor
  <2>1. Locks(d)
    BY <1>3 DEF LockMonitor, Locks, TypeOK
  <2>2. monitorLock = d /\ monitorLock = NoClient
    BY <1>3, <2>1 DEF LockInv, LockMonitor
  <2> QED
    BY <2>2
<1>4. ASSUME NEW c \in Clients, Request(c)
      PROVE  LockInv'
  <2>1. ~Locks(c) /\ ~Locks(c)'
    BY <1>4 DEF Request, Locks, TypeOK
  <2> QED
    BY <1>2, <1>4, <2>1 DEF Request, TypeOK, monitorVars
<1>5. ASSUME NEW c \in Clients, SendSnapshot(c) \/ Attach(c) \/ SpawnFailure(c)
      PROVE  LockInv'
  <2>1. Locks(c) /\ monitorLock' = monitorLock /\ \A d \in Clients \ {c} : pc'[d] = pc[d]
    BY <1>5 DEF SendSnapshot, Attach, SpawnFailure, Locks, TypeOK, monitorVars
  <2>2. monitorLock' = c
    BY <2>1 DEF LockInv
  <2> QED
    BY <1>1, <2>1, <2>2
<1>6. ASSUME NEW c \in Clients, Refuse(c) \/ JoinSubscriptions(c)
      PROVE  LockInv'
  <2>1. Locks(c) /\ ~Locks(c)' /\ \A d \in Clients \ {c} : pc'[d] = pc[d]
    BY <1>6 DEF Refuse, JoinSubscriptions, Over, Locks, TypeOK
  <2> QED
    BY <1>1, <2>1
<1>7. ASSUME NEW c \in Clients, Start(c) \/ SpawnLoops(c)
      PROVE  LockInv'
  <2>1. Locks(c) /\ \A d \in Clients \ {c} : pc'[d] = pc[d]
    BY <1>7 DEF Start, SpawnLoops, Subscribed, Locks, TypeOK
  <2>2. monitorLock = c
    BY <2>1 DEF LockInv
  <2>3. Locks(c)' => monitorLock' = c
    BY <1>7, <2>2 DEF Start, SpawnLoops, Subscribed, Locks, TypeOK
  <2> QED
    BY <1>1, <2>1, <2>3
<1>8. ASSUME NEW c \in Clients, Open(c)
      PROVE  LockInv'
  <2>1. (Locks(c)' <=> Locks(c)) /\ monitorLock' = monitorLock /\ \A d \in Clients \ {c} : pc'[d] = pc[d]
    BY <1>8 DEF Open, Locks, TypeOK, monitorVars
  <2> QED
    BY <1>1, <1>2, <2>1 DEF LockInv
<1>9. ASSUME NEW c \in Clients, Leave(c)
      PROVE  LockInv'
  <2>1. ~Locks(c)' /\ \A d \in Clients \ {c} : pc'[d] = pc[d]
    BY <1>9 DEF Leave, Over, Locks, TypeOK
  <2>2. IF c \in Holders THEN Locks(c) ELSE ~Locks(c) /\ monitorLock' = monitorLock
    BY <1>9 DEF Leave, Locks
  <2> QED
    BY <1>1, <1>2, <2>1, <2>2
<1>10. CASE UNCHANGED <<pc, monitorLock>>
  BY <1>10 DEF LockInv, Locks
<1> QED
  BY <1>3, <1>4, <1>5, <1>6, <1>7, <1>8, <1>9, <1>10
     DEF Next, Subscribe, Run, vars, clientVars, monitorVars, SubscribeSource, Receive, DropMonitor,
         Change, Send, Die, Line, Poll, SendPoll, RunReceive, RunCache, RunFan

\* Two clients are never both inside subscribe().
LEMMA OneLocks ==
  ASSUME LockInv, NEW c \in Clients, NEW d \in Clients, Locks(c), Locks(d)
  PROVE  c = d
BY DEF LockInv

LEMMA WatchStep == TypeOK /\ LockInv /\ WatchInv /\ [Next]_vars => WatchInv'
<1> SUFFICES ASSUME TypeOK, LockInv, WatchInv, [Next]_vars
             PROVE  WatchInv'
  OBVIOUS
<1> USE MonitorAssumption
<1>0. Len(PushSources) \in Nat /\ \A i \in 1..Len(PushSources) : PushSources[i] \in Pushed
  BY DEF Pushed
<1>1. ASSUME NEW c \in Clients, SubscribeSource(c)
      PROVE  WatchInv'
  <2>1. /\ pc[c] = "spawn" /\ subscribed < Len(PushSources) /\ subscribed' = subscribed + 1
        /\ watcher' = [watcher EXCEPT ![PushSources[subscribed + 1]] = "watching"]
        /\ UNCHANGED <<pc, threadState, runner>>
    BY <1>1 DEF SubscribeSource, clientVars, runVars
  <2>2. threadState' # "NotRunning" /\ runner' = "off"
    BY <2>1 DEF WatchInv
  <2>3. subscribed \in Nat
    BY <1>0 DEF TypeOK
  <2>4. ASSUME NEW j \in 1..Len(PushSources), j > subscribed'
        PROVE  Unwatched(PushSources[j])'
    <3>1. subscribed + 1 \in 1..Len(PushSources) /\ j # subscribed + 1 /\ j > subscribed
      BY <1>0, <2>1, <2>3, <2>4
    <3>2. PushSources[j] # PushSources[subscribed + 1]
      BY <3>1 DEF IsInjective
    <3>3. Unwatched(PushSources[j])
      BY <2>1, <3>1 DEF WatchInv
    <3> QED
      BY <1>0, <2>1, <3>2, <3>3 DEF Unwatched, TypeOK
  <2> QED
    BY <2>2, <2>4 DEF WatchInv
<1>2. ASSUME NEW c \in Clients, Start(c)
      PROVE  WatchInv'
  <2>1. CASE threadState = "NotRunning"
    <3>1. \A s \in Pushed : Unwatched(s)'
      BY <1>2, <2>1 DEF Start, WatchInv, Unwatched, sourceVars
    <3>2. threadState' = "Ended" /\ runner' = "off"
      BY <1>2, <2>1 DEF Start, WatchInv, runVars
    <3> QED
      BY <1>0, <3>1, <3>2 DEF WatchInv
  <2>2. CASE threadState = "Running"
    <3>1. /\ UNCHANGED <<threadState, subscribed, watcher, runner>>
          /\ pc' = [pc EXCEPT ![c] = "ready"]
      BY <1>2, <2>2 DEF Start, Subscribed, sourceVars, runVars
    <3> QED
      BY <2>2, <3>1 DEF WatchInv, Unwatched, TypeOK
  <2> QED
    BY <1>2, <2>1, <2>2 DEF Start
<1>3. ASSUME NEW c \in Clients, SpawnFailure(c)
      PROVE  WatchInv'
  BY <1>3 DEF SpawnFailure, WatchInv, Unwatched, TypeOK, monitorVars, sourceVars, runVars
<1>4. ASSUME NEW c \in Clients, SpawnLoops(c)
      PROVE  WatchInv'
  <2>1. threadState' = "Running" /\ pc' = [pc EXCEPT ![c] = "ready"]
    BY <1>4 DEF SpawnLoops, Subscribed
  <2>2. ASSUME NEW d \in Clients, pc'[d] \in {"spawn", "join"}
        PROVE  FALSE
    <3>1. d # c /\ pc[d] \in {"spawn", "join"} /\ pc[c] = "spawn"
      BY <1>4, <2>1, <2>2 DEF SpawnLoops, TypeOK
    <3> QED
      BY <3>1, OneLocks DEF Locks
  <2> QED
    BY <2>1, <2>2 DEF WatchInv
<1>5. ASSUME NEW c \in Clients, JoinSubscriptions(c)
      PROVE  WatchInv'
  <2>1. \A s \in Pushed : Unwatched(s)'
    <3> SUFFICES ASSUME NEW i \in 1..Len(PushSources)
                 PROVE  Unwatched(PushSources[i])
      BY <1>5 DEF JoinSubscriptions, sourceVars, Pushed, Unwatched
    <3>1. i > subscribed => Unwatched(PushSources[i])
      BY <1>5 DEF JoinSubscriptions, WatchInv
    <3>2. i \in 1..subscribed \/ i > subscribed
      BY <1>0 DEF TypeOK
    <3>3. i \in 1..subscribed => Unwatched(PushSources[i])
      BY <1>5 DEF JoinSubscriptions, Unwatched
    <3> QED
      BY <3>1, <3>2, <3>3
  <2>2. ASSUME NEW d \in Clients, pc'[d] \in {"spawn", "join"}
        PROVE  FALSE
    <3>1. d # c /\ pc'[d] = pc[d]
      BY <1>5, <2>2 DEF JoinSubscriptions, Over, TypeOK
    <3> QED
      BY <1>5, <2>2, <3>1, OneLocks DEF JoinSubscriptions, Locks
  <2>3. runner' = "off"
    BY <1>5 DEF JoinSubscriptions, WatchInv, runVars
  <2> QED
    BY <2>1, <2>2, <2>3 DEF WatchInv
<1>6. ASSUME NEW c \in Clients,
             Request(c) \/ LockMonitor(c) \/ SendSnapshot(c) \/ Attach(c) \/ Refuse(c)
               \/ Open(c) \/ Receive(c) \/ Leave(c)
      PROVE  WatchInv'
  <2>1. /\ UNCHANGED <<threadState, subscribed, watcher, runner>>
        /\ \A d \in Clients : pc'[d] \in {"spawn", "join"} => pc[d] \in {"spawn", "join"}
    BY <1>6 DEF Request, LockMonitor, SendSnapshot, Attach, Refuse, Open, Receive, Leave, Over,
                TypeOK, monitorVars, sourceVars, runVars
  <2> QED
    BY <2>1 DEF WatchInv, Unwatched
<1>7. ASSUME NEW s \in Watchers, Change(s) \/ Send(s) \/ Die(s)
      PROVE  WatchInv'
  <2>1. /\ UNCHANGED <<threadState, subscribed, pc, runner>>
        /\ \A r \in Pushed : Unwatched(r) => Unwatched(r)'
    BY <1>7 DEF Change, Send, Die, Unwatched, TypeOK, monitorVars, clientVars, runVars
  <2> QED
    BY <1>0, <2>1 DEF WatchInv
<1>8. CASE DropMonitor
  BY <1>8 DEF DropMonitor, WatchInv, Unwatched, TypeOK, clientVars, sourceVars, runVars
<1>9. ASSUME UNCHANGED <<threadState, subscribed, pc, watcher>>, runner = "off" => runner' = "off"
      PROVE  WatchInv'
  BY <1>9 DEF WatchInv, Unwatched
<1> QED
  BY <1>1, <1>2, <1>3, <1>4, <1>5, <1>6, <1>7, <1>8, <1>9
     DEF Next, Subscribe, Run, vars, clientVars, monitorVars, sourceVars, runVars,
         Line, Poll, SendPoll, RunReceive, RunCache, RunFan

\* However often a start fails and is tried again, by whichever client, a push
\* source is only subscribed to when it has no watcher thread that still runs.
THEOREM WatchersSingle == Spec => []WatchedOnce
<1>1. Init => LockInv /\ WatchInv
  BY DEF Init, LockInv, Locks, WatchInv, Unwatched
<1>2. TypeOK /\ WatchInv => WatchedOnce
  <2> SUFFICES ASSUME TypeOK, WatchInv, NEW c \in Clients, pc[c] = "spawn", subscribed < Len(PushSources)
               PROVE  watcher[PushSources[subscribed + 1]] \in {"off", "ended"}
    BY DEF WatchedOnce
  <2>1. subscribed + 1 \in 1..Len(PushSources) /\ subscribed + 1 > subscribed
    BY MonitorAssumption DEF TypeOK
  <2> QED
    BY <2>1 DEF WatchInv, Unwatched
<1> QED
  BY <1>1, <1>2, MonitorTypes, LockStep, WatchStep, PTL DEF Spec

-----------------------------------------------------------------------------
(* The order of updates.                                                   *)

\* What a step does to the updates that are on their way.
LEMMA Flow ==
  ASSUME TypeOK, MadeInv, [Next]_vars
  PROVE  \/ RunReceive
         \/ /\ UNCHANGED runVars
            /\ \E u \in Updates :
                 /\ events' = Append(events, u)
                 /\ \A s \in Pushed : u.source = s => u.version = made'[s]
         \/ /\ UNCHANGED <<events, current>>
            /\ runner' \in {"cache", "fan"} => runner \in {"cache", "fan"}
<1> USE MonitorAssumption
<1>0. Pushed \subseteq Sources /\ PullSources \subseteq Sources
  BY DEF Sources
<1> DEFINE Sends == /\ UNCHANGED runVars
                    /\ \E u \in Updates :
                         /\ events' = Append(events, u)
                         /\ \A s \in Pushed : u.source = s => u.version = made'[s]
           Waits == /\ UNCHANGED <<events, current>>
                    /\ runner' \in {"cache", "fan"} => runner \in {"cache", "fan"}
<1>1. ASSUME NEW s \in Pushed, Send(s)
      PROVE  Sends
  <2>1. Update(s, made[s], "Snapshot") \in Updates
    BY <1>0, <1>1, UpdateType DEF Send, MadeInv, TypeOK
  <2>2. \A r \in Pushed : Update(s, made[s], "Snapshot").source = r
          => Update(s, made[s], "Snapshot").version = made'[r]
    BY <1>1, UpdateFields DEF Send
  <2> QED
    BY <1>1, <2>1, <2>2 DEF Send
<1>2. ASSUME NEW s \in Pushed, Die(s) \/ Line(s)
      PROVE  Sends \/ Waits
  <2>1. Update(s, made[s] + 1, "Partial") \in Updates
    BY <1>0, UpdateType DEF TypeOK
  <2>2. made'[s] = made[s] + 1
    BY <1>0, <1>2 DEF Die, Line, Makes, TypeOK
  <2>3. \A r \in Pushed : Update(s, made[s] + 1, "Partial").source = r
          => Update(s, made[s] + 1, "Partial").version = made'[r]
    BY <2>2, UpdateFields
  <2>4. Offer(Update(s, made[s] + 1, "Partial")) /\ UNCHANGED runVars
    BY <1>2 DEF Die, Line
  <2>5. CASE Len(events) < EventCap
    BY <2>1, <2>3, <2>4, <2>5 DEF Offer
  <2>6. CASE ~(Len(events) < EventCap)
    BY <2>4, <2>6 DEF Offer, runVars
  <2> QED
    BY <2>5, <2>6
<1>3. CASE SendPoll
  <2>1. poller \in PullSources
    BY <1>3 DEF SendPoll, TypeOK
  <2>2. Update(poller, made[poller], "Snapshot") \in Updates
    BY <1>0, <1>3, <2>1, UpdateType DEF SendPoll, MadeInv, TypeOK
  <2>3. \A r \in Pushed : Update(poller, made[poller], "Snapshot").source # r
    BY <2>1, UpdateFields
  <2>4. Offer(Update(poller, made[poller], "Snapshot")) /\ UNCHANGED runVars
    BY <1>3 DEF SendPoll
  <2>5. CASE Len(events) < EventCap
    BY <2>2, <2>3, <2>4, <2>5 DEF Offer
  <2>6. CASE ~(Len(events) < EventCap)
    BY <2>4, <2>6 DEF Offer, runVars
  <2> QED
    BY <2>5, <2>6
<1>4. RunReceive \/ (\E s \in Pushed : Send(s) \/ Die(s) \/ Line(s)) \/ SendPoll \/ Waits
  BY DEF Next, Subscribe, Run, vars, clientVars, monitorVars, sourceVars, runVars,
         Request, LockMonitor, SendSnapshot, Attach, Refuse, Start, SubscribeSource, SpawnLoops,
         SpawnFailure, JoinSubscriptions, Open, Receive, Leave, DropMonitor,
         Change, Poll, RunCache, RunFan
<1> QED
  BY <1>1, <1>2, <1>3, <1>4

\* No step can bring an older update of a push source on its way.
LEMMA AtMostStep ==
  ASSUME TypeOK, MadeInv, [Next]_vars, NEW s \in Pushed, NEW v \in Nat, AtMost(s, v)
  PROVE  AtMost(s, v)'
<1>1. v <= made'[s]
  BY MadeGrows DEF AtMost, Sources
<1>2. CASE RunReceive
  <2>1. events # <<>> /\ events \in Seq(Updates)
    BY <1>2 DEF RunReceive, TypeOK
  <2>2. /\ current' = events[1]
        /\ Len(events') = Len(events) - 1 /\ Len(events) \in Nat \ {0}
        /\ \A i \in 1..Len(events') : events'[i] = events[i + 1] /\ i + 1 \in 1..Len(events)
    BY <1>2, <2>1 DEF RunReceive
  <2>3. \A i \in 1..Len(events') : events'[i].source = s => v <= events'[i].version
    BY <2>2 DEF AtMost
  <2>4. current'.source = s => v <= current'.version
    BY <2>2 DEF AtMost
  <2> QED
    BY <1>1, <2>3, <2>4 DEF AtMost
<1>3. ASSUME UNCHANGED runVars, NEW u \in Updates, events' = Append(events, u),
             u.source = s => u.version = made'[s]
      PROVE  AtMost(s, v)'
  <2>1. events \in Seq(Updates)
    BY DEF TypeOK
  <2>2. /\ Len(events') = Len(events) + 1 /\ Len(events) \in Nat
        /\ \A i \in 1..Len(events) : events'[i] = events[i]
        /\ events'[Len(events) + 1] = u
    BY <1>3, <2>1
  <2>3. ASSUME NEW i \in 1..Len(events'), events'[i].source = s
        PROVE  v <= events'[i].version
    <3>1. CASE i \in 1..Len(events)
      BY <2>2, <2>3, <3>1 DEF AtMost
    <3>2. CASE i = Len(events) + 1
      BY <1>1, <1>3, <2>2, <2>3, <3>2
    <3> QED
      BY <2>2, <3>1, <3>2
  <2> QED
    BY <1>1, <1>3, <2>3 DEF AtMost, runVars
<1>4. CASE /\ UNCHANGED <<events, current>>
           /\ runner' \in {"cache", "fan"} => runner \in {"cache", "fan"}
  BY <1>1, <1>4 DEF AtMost
<1> QED
  BY <1>2, <1>3, <1>4, Flow

LEMMA OnTheWayStep == TypeOK /\ MadeInv /\ OnTheWay /\ [Next]_vars => OnTheWay'
<1> SUFFICES ASSUME TypeOK, MadeInv, OnTheWay, [Next]_vars, NEW s \in Pushed
             PROVE  (/\ \A i, j \in 1..Len(events) :
                          i < j /\ events[i].source = s /\ events[j].source = s
                            => events[i].version <= events[j].version
                     /\ \A i \in 1..Len(events) : events[i].source = s => events[i].version <= made[s]
                     /\ runner \in {"cache", "fan"} /\ current.source = s
                          => AtMost(s, current.version))'
  BY DEF OnTheWay
<1>0. made[s] \in Nat /\ made'[s] \in Nat /\ made[s] <= made'[s]
  BY MadeGrows DEF Sources
<1>1. events \in Seq(Updates) /\ \A i \in 1..Len(events) : events[i].version \in Nat
  <2>1. events \in Seq(Updates)
    BY DEF TypeOK
  <2>2. \A i \in 1..Len(events) : events[i] \in Updates
    BY <2>1
  <2> QED
    BY <2>1, <2>2 DEF Updates
<1>2. CASE RunReceive
  <2>1. events # <<>> /\ UNCHANGED made
    BY <1>2 DEF RunReceive, sourceVars
  <2>2. /\ current' = events[1]
        /\ Len(events') = Len(events) - 1 /\ Len(events) \in Nat \ {0}
        /\ \A i \in 1..Len(events') : events'[i] = events[i + 1] /\ i + 1 \in 1..Len(events)
    BY <1>1, <1>2, <2>1 DEF RunReceive
  <2>3. ASSUME NEW i \in 1..Len(events'), NEW j \in 1..Len(events'), i < j,
               events'[i].source = s, events'[j].source = s
        PROVE  events'[i].version <= events'[j].version
    <3>1. i + 1 \in 1..Len(events) /\ j + 1 \in 1..Len(events) /\ i + 1 < j + 1
          /\ events'[i] = events[i + 1] /\ events'[j] = events[j + 1]
      BY <2>2, <2>3
    <3> QED
      BY <2>3, <3>1 DEF OnTheWay
  <2>4. \A i \in 1..Len(events') : events'[i].source = s => events'[i].version <= made'[s]
    BY <2>1, <2>2 DEF OnTheWay
  <2>5. ASSUME current'.source = s
        PROVE  AtMost(s, current.version)'
    <3>1. 1 \in 1..Len(events) /\ events[1].source = s /\ events[1].version \in Nat
      BY <1>1, <2>2, <2>5
    <3>2. events[1].version <= made[s]
      BY <3>1 DEF OnTheWay
    <3>3. ASSUME NEW i \in 1..Len(events'), events'[i].source = s
          PROVE  events[1].version <= events'[i].version
      <4>1. i + 1 \in 1..Len(events) /\ 1 < i + 1 /\ events'[i] = events[i + 1]
        BY <2>2
      <4> QED
        BY <3>1, <3>3, <4>1 DEF OnTheWay
    <3>4. current'.version = events[1].version /\ current'.version <= current'.version
      BY <2>2, <3>1
    <3> QED
      BY <2>1, <3>2, <3>3, <3>4 DEF AtMost
  <2> QED
    BY <2>3, <2>4, <2>5
<1>3. ASSUME UNCHANGED runVars, NEW u \in Updates, events' = Append(events, u),
             u.source = s => u.version = made'[s]
      PROVE  /\ \A i, j \in 1..Len(events') :
                  i < j /\ events'[i].source = s /\ events'[j].source = s
                    => events'[i].version <= events'[j].version
             /\ \A i \in 1..Len(events') : events'[i].source = s => events'[i].version <= made'[s]
  <2>1. /\ Len(events') = Len(events) + 1 /\ Len(events) \in Nat
        /\ \A i \in 1..Len(events) : events'[i] = events[i]
        /\ events'[Len(events) + 1] = u
    BY <1>1, <1>3
  <2>2. \A i \in 1..Len(events) : events[i].source = s => events[i].version <= made'[s]
    <3> SUFFICES ASSUME NEW i \in 1..Len(events), events[i].source = s
                 PROVE  events[i].version <= made'[s]
      OBVIOUS
    <3>1. events[i].version <= made[s] /\ events[i].version \in Nat
      BY <1>1 DEF OnTheWay
    <3> QED
      BY <1>0, <3>1
  <2>3. ASSUME NEW i \in 1..Len(events'), events'[i].source = s
        PROVE  events'[i].version <= made'[s]
    <3>1. CASE i \in 1..Len(events)
      BY <2>1, <2>2, <2>3, <3>1
    <3>2. CASE i = Len(events) + 1
      BY <1>0, <1>3, <2>1, <2>3, <3>2
    <3> QED
      BY <2>1, <3>1, <3>2
  <2>4. ASSUME NEW i \in 1..Len(events'), NEW j \in 1..Len(events'), i < j,
               events'[i].source = s, events'[j].source = s
        PROVE  events'[i].version <= events'[j].version
    <3>1. i \in 1..Len(events)
      BY <2>1, <2>4
    <3>2. CASE j \in 1..Len(events)
      BY <2>1, <2>4, <3>1, <3>2 DEF OnTheWay
    <3>3. CASE j = Len(events) + 1
      BY <1>3, <2>1, <2>2, <2>4, <3>1, <3>3
    <3> QED
      BY <2>1, <3>2, <3>3
  <2> QED
    BY <2>3, <2>4
<1>4. ASSUME UNCHANGED events
      PROVE  /\ \A i, j \in 1..Len(events') :
                  i < j /\ events'[i].source = s /\ events'[j].source = s
                    => events'[i].version <= events'[j].version
             /\ \A i \in 1..Len(events') : events'[i].source = s => events'[i].version <= made'[s]
  <2>1. ASSUME NEW i \in 1..Len(events), events[i].source = s
        PROVE  events[i].version <= made'[s]
    <3>1. events[i].version <= made[s] /\ events[i].version \in Nat
      BY <1>1, <2>1 DEF OnTheWay
    <3> QED
      BY <1>0, <3>1
  <2> QED
    BY <1>4, <2>1 DEF OnTheWay
<1>5. ASSUME UNCHANGED current, runner' \in {"cache", "fan"} => runner \in {"cache", "fan"},
             runner' \in {"cache", "fan"}, current'.source = s
      PROVE  AtMost(s, current.version)'
  <2>1. AtMost(s, current.version) /\ current.version \in Nat
    BY <1>5 DEF OnTheWay, MadeInv, Updates
  <2>2. PICK v \in Nat : AtMost(s, v) /\ current'.version = v
    BY <1>5, <2>1
  <2>3. AtMost(s, v)'
    BY <2>2, AtMostStep
  <2> QED
    BY <2>2, <2>3 DEF AtMost
<1> QED
  BY <1>2, <1>3, <1>4, <1>5, Flow DEF runVars

\* What a step does to the channel and the view of a client.
Kept(c) ==
  /\ queue'[c] = queue[c] /\ view'[c] = view[c]
  /\ pc[c] = "open" => pc'[c] = "open"

Cleared(c) == queue'[c] = <<>> /\ view'[c] = Nothing

\* The channel was made from the cache.
Filled(c) ==
  /\ pc[c] = "snapshot" /\ pc'[c] = "attach" /\ view'[c] = lastState
  /\ queue'[c] \in Seq(Updates)
  /\ \A i \in 1..Len(queue'[c]) : queue'[c][i].version = lastState[queue'[c][i].source]

Passed(c) ==
  /\ RunFan
  /\ queue'[c] = Append(queue[c], current) /\ view'[c] = view[c] /\ pc'[c] = pc[c]

Took(c) ==
  /\ pc[c] = "open" /\ pc'[c] = "open" /\ queue[c] # <<>> /\ queue'[c] = Tail(queue[c])
  /\ view'[c] = IF Head(queue[c]).scope = "Snapshot"
                THEN [view[c] EXCEPT ![Head(queue[c]).source] = Head(queue[c]).version]
                ELSE view[c]

LEMMA ReceiveTook ==
  ASSUME TypeOK, NEW c \in Clients, Receive(c)
  PROVE  Took(c)
<1>1. queue \in [Clients -> Seq(Updates)] /\ view \in [Clients -> [Sources -> Nat]]
  BY DEF TypeOK
<1>2. queue'[c] = Tail(queue[c]) /\ queue[c] # <<>> /\ pc[c] = "open" /\ pc' = pc
  BY <1>1 DEF Receive
<1>3. view'[c] = IF Head(queue[c]).scope = "Snapshot"
                 THEN [view[c] EXCEPT ![Head(queue[c]).source] = Head(queue[c]).version]
                 ELSE view[c]
  BY <1>1 DEF Receive
<1> QED
  BY <1>2, <1>3 DEF Took

LEMMA ChannelMoves ==
  ASSUME TypeOK, [Next]_vars, NEW c \in Clients
  PROVE  Kept(c) \/ Cleared(c) \/ Filled(c) \/ Passed(c) \/ Took(c)
<1>0. /\ queue \in [Clients -> Seq(Updates)] /\ view \in [Clients -> [Sources -> Nat]]
      /\ pc \in [Clients -> {"out", "lock", "snapshot", "attach", "start", "spawn", "join",
                             "ready", "open", "gone"}]
  BY DEF TypeOK
<1>1. ASSUME NEW d \in Clients, Refuse(d) \/ JoinSubscriptions(d) \/ Leave(d)
      PROVE  Kept(c) \/ Cleared(c)
  BY <1>0, <1>1 DEF Refuse, JoinSubscriptions, Leave, Over, Kept, Cleared
<1>2. ASSUME NEW d \in Clients, SendSnapshot(d)
      PROVE  Kept(c) \/ Filled(c)
  <2>1. PICK order \in SetToSeqs(Cached) : queue' = [queue EXCEPT ![d] = SubSeq(order, 1, Room)]
    BY <1>2 DEF SendSnapshot, Cached, Room
  <2>2. /\ view' = [view EXCEPT ![d] = lastState]
        /\ pc[d] = "snapshot" /\ pc' = [pc EXCEPT ![d] = "attach"]
    BY <1>2 DEF SendSnapshot
  <2>3. CASE d # c
    BY <1>0, <2>1, <2>2, <2>3 DEF Kept
  <2>4. CASE d = c
    <3> DEFINE q == SubSeq(order, 1, Room)
    <3>1. q = SubSeq(order, 1, Room) /\ queue'[c] = q
      BY <1>0, <2>1, <2>4
    <3> HIDE DEF q
    <3>2. q \in Seq(Updates) /\ \A i \in 1..Len(q) : q[i] \in Cached
      BY <3>1, SnapshotQueue
    <3>3. \A i \in 1..Len(q) : q[i].version = lastState[q[i].source]
      BY <3>2, CachedFacts
    <3> QED
      BY <1>0, <2>2, <2>4, <3>1, <3>2, <3>3 DEF Filled
  <2> QED
    BY <2>3, <2>4
<1>3. ASSUME NEW d \in Clients, Receive(d)
      PROVE  Kept(c) \/ Took(c)
  <2>1. CASE d # c
    <3>1. queue'[c] = queue[c] /\ pc' = pc
      BY <1>0, <1>3, <2>1 DEF Receive
    <3>2. view'[c] = view[c]
      BY <1>0, <1>3, <2>1 DEF Receive
    <3> QED
      BY <3>1, <3>2 DEF Kept
  <2>2. CASE d = c
    BY <1>3, <2>2, ReceiveTook
  <2> QED
    BY <2>1, <2>2
<1>4. CASE RunFan
  <2>1. queue'[c] = Append(queue[c], current) \/ queue'[c] = queue[c]
    BY <1>4 DEF RunFan
  <2>2. UNCHANGED <<pc, view>>
    BY <1>4 DEF RunFan
  <2> QED
    BY <1>4, <2>1, <2>2 DEF Kept, Passed
<1>5. ASSUME NEW d \in Clients,
             Request(d) \/ LockMonitor(d) \/ Attach(d) \/ Start(d) \/ SubscribeSource(d)
               \/ SpawnLoops(d) \/ SpawnFailure(d) \/ Open(d)
      PROVE  Kept(c)
  <2>1. UNCHANGED <<queue, view>> /\ (pc[c] = "open" => pc'[c] = "open")
    BY <1>0, <1>5 DEF Request, LockMonitor, Attach, Start, SubscribeSource, SpawnLoops,
                      SpawnFailure, Open, Subscribed, clientVars
  <2> QED
    BY <2>1 DEF Kept
<1>6. CASE UNCHANGED <<queue, view, pc>>
  BY <1>6 DEF Kept
<1> QED
  BY <1>1, <1>2, <1>3, <1>4, <1>5, <1>6
     DEF Next, Subscribe, Run, vars, clientVars, DropMonitor,
         Change, Send, Die, Line, Poll, SendPoll, RunReceive, RunCache

\* Only run_loop caches an update of a push source.
LEMMA CacheMoves ==
  ASSUME TypeOK, MadeInv, [Next]_vars, NEW s \in Pushed
  PROVE  \/ lastState'[s] = lastState[s]
         \/ RunCache /\ current.source = s /\ current.scope = "Snapshot" /\ lastState'[s] = current.version
<1>1. lastState \in [Sources -> Nat] /\ s \in Sources
  BY DEF TypeOK, Sources
<1>2. ASSUME NEW r \in PullSources, Poll(r)
      PROVE  lastState'[s] = lastState[s]
  <2>1. r # s
    BY MonitorAssumption
  <2> QED
    BY <1>1, <1>2, <2>1 DEF Poll
<1>3. CASE RunCache
  <2>1. CASE current.scope = "Snapshot"
    <3>1. lastState' = [lastState EXCEPT ![current.source] = current.version]
      BY <1>3, <2>1 DEF RunCache
    <3> QED
      BY <1>1, <1>3, <2>1, <3>1
  <2>2. CASE current.scope # "Snapshot"
    BY <1>3, <2>2 DEF RunCache
  <2> QED
    BY <2>1, <2>2
<1> QED
  BY <1>2, <1>3
     DEF Next, Subscribe, Run, vars,
         Request, LockMonitor, SendSnapshot, Attach, Refuse, Start, SubscribeSource, SpawnLoops,
         SpawnFailure, JoinSubscriptions, Open, Receive, Leave, DropMonitor,
         Change, Send, Die, Line, SendPoll, RunReceive, RunFan

\* The elements of channels are updates.
LEMMA QueueTypes ==
  ASSUME TypeOK, NEW c \in Clients
  PROVE  /\ queue[c] \in Seq(Updates) /\ Len(queue[c]) \in Nat
         /\ \A i \in 1..Len(queue[c]) : queue[c][i] \in Updates /\ queue[c][i].version \in Nat
         /\ view[c] \in [Sources -> Nat]
<1>1. queue[c] \in Seq(Updates) /\ view[c] \in [Sources -> Nat]
  BY DEF TypeOK
<1>2. Len(queue[c]) \in Nat /\ \A i \in 1..Len(queue[c]) : queue[c][i] \in Updates
  BY <1>1
<1> QED
  BY <1>1, <1>2 DEF Updates

LEMMA TailFacts ==
  ASSUME NEW S, NEW q \in Seq(S), q # <<>>
  PROVE  /\ Head(q) = q[1] /\ Len(q) \in Nat \ {0}
         /\ Len(Tail(q)) = Len(q) - 1
         /\ \A i \in 1..Len(Tail(q)) : Tail(q)[i] = q[i + 1] /\ i + 1 \in 1..Len(q)
BY HeadTailProperties

LEMMA AppendFacts ==
  ASSUME NEW S, NEW q \in Seq(S), NEW u \in S
  PROVE  /\ Len(q) \in Nat /\ Len(Append(q, u)) = Len(q) + 1
         /\ \A i \in 1..Len(q) : Append(q, u)[i] = q[i]
         /\ Append(q, u)[Len(q) + 1] = u
OBVIOUS

LEMMA OrderStep ==
  TypeOK /\ MadeInv /\ OrderInv /\ [Next]_vars => OrderInv'
<1> SUFFICES ASSUME TypeOK, MadeInv, OrderInv, [Next]_vars
             PROVE  OrderInv'
  OBVIOUS
<1>1. OnTheWay'
  BY OnTheWayStep DEF OrderInv
<1>2. ASSUME NEW s \in Pushed
      PROVE  AtMost(s, lastState[s])'
  <2>1. lastState[s] \in Nat /\ AtMost(s, lastState[s])
    BY DEF OrderInv, TypeOK, Sources
  <2>2. PICK v \in Nat : AtMost(s, v) /\ lastState'[s] = v
    <3>1. CASE lastState'[s] = lastState[s]
      BY <2>1, <3>1
    <3>2. CASE RunCache /\ current.source = s /\ lastState'[s] = current.version
      <4>1. AtMost(s, current.version) /\ current.version \in Nat
        BY <3>2 DEF RunCache, OrderInv, OnTheWay, MadeInv, Updates
      <4> QED
        BY <3>2, <4>1
    <3> QED
      BY <3>1, <3>2, CacheMoves
  <2> QED
    BY <2>2, AtMostStep DEF AtMost
<1>3. ASSUME NEW c \in Clients, NEW s \in Pushed
      PROVE  /\ AtMost(s, view[c][s])'
             /\ \A i \in 1..Len(queue'[c]) : queue'[c][i].source = s
                  => \E v \in Nat : queue'[c][i].version = v /\ AtMost(s, v)
  <2>0. s \in Sources
    BY DEF Sources
  <2>1. AtMost(s, 0)
    <3>1. made[s] \in Nat /\ \A i \in 1..Len(events) : events[i] \in Updates
      BY <2>0 DEF TypeOK
    <3> QED
      BY <3>1 DEF AtMost, MadeInv, Updates
  <2>2. /\ view[c][s] \in Nat /\ AtMost(s, view[c][s])
        /\ \A i \in 1..Len(queue[c]) :
             queue[c][i].source = s => queue[c][i].version \in Nat /\ AtMost(s, queue[c][i].version)
    BY <2>0, QueueTypes DEF OrderInv
  <2>3. /\ \E v \in Nat : view'[c][s] = v /\ AtMost(s, v)
        /\ \A i \in 1..Len(queue'[c]) : queue'[c][i].source = s
             => \E v \in Nat : queue'[c][i].version = v /\ AtMost(s, v)
    <3>1. CASE Kept(c)
      BY <2>2, <3>1 DEF Kept
    <3>2. CASE Cleared(c)
      <4>1. view'[c][s] = 0 /\ Len(queue'[c]) = 0
        BY <2>0, <3>2 DEF Cleared, Nothing
      <4> QED
        BY <2>1, <4>1
    <3>3. CASE Filled(c)
      <4>1. lastState[s] \in Nat /\ AtMost(s, lastState[s])
        BY <2>0 DEF OrderInv, TypeOK
      <4> QED
        BY <3>3, <4>1 DEF Filled
    <3>4. CASE Passed(c)
      <4>1. current \in Updates /\ runner = "fan"
        BY <3>4 DEF Passed, RunFan, MadeInv
      <4>2. current.source = s => AtMost(s, current.version) /\ current.version \in Nat
        BY <4>1 DEF OrderInv, OnTheWay, Updates
      <4>3. /\ Len(queue'[c]) = Len(queue[c]) + 1 /\ Len(queue[c]) \in Nat
            /\ \A i \in 1..Len(queue[c]) : queue'[c][i] = queue[c][i]
            /\ queue'[c][Len(queue[c]) + 1] = current
        BY <3>4, <4>1, QueueTypes, AppendFacts DEF Passed
      <4>4. ASSUME NEW i \in 1..Len(queue'[c]), queue'[c][i].source = s
            PROVE  \E v \in Nat : queue'[c][i].version = v /\ AtMost(s, v)
        <5>1. CASE i \in 1..Len(queue[c])
          BY <2>2, <4>3, <4>4, <5>1
        <5>2. CASE i = Len(queue[c]) + 1
          BY <4>2, <4>3, <4>4, <5>2
        <5> QED
          BY <4>3, <5>1, <5>2
      <4> QED
        BY <2>2, <3>4, <4>4 DEF Passed
    <3>5. CASE Took(c)
      <4>1. /\ Head(queue[c]) = queue[c][1] /\ Len(queue[c]) \in Nat \ {0}
            /\ Len(queue'[c]) = Len(queue[c]) - 1
            /\ \A i \in 1..Len(queue'[c]) : queue'[c][i] = queue[c][i + 1] /\ i + 1 \in 1..Len(queue[c])
        BY <3>5, QueueTypes, TailFacts DEF Took
      <4>2. \E v \in Nat : view'[c][s] = v /\ AtMost(s, v)
        <5>1. CASE view'[c] = view[c]
          BY <2>2, <5>1
        <5>2. CASE view'[c] = [view[c] EXCEPT ![queue[c][1].source] = queue[c][1].version]
          <6>1. CASE queue[c][1].source = s
            <7>1. view'[c][s] = queue[c][1].version
              BY <2>0, <5>2, <6>1, QueueTypes
            <7> QED
              BY <2>2, <4>1, <6>1, <7>1
          <6>2. CASE queue[c][1].source # s
            BY <2>0, <2>2, <5>2, <6>2, QueueTypes
          <6> QED
            BY <6>1, <6>2
        <5> QED
          BY <3>5, <4>1, <5>1, <5>2 DEF Took
      <4> QED
        BY <2>2, <4>1, <4>2
    <3> QED
      BY <3>1, <3>2, <3>3, <3>4, <3>5, ChannelMoves
  <2>4. PICK v \in Nat : view'[c][s] = v /\ AtMost(s, v)
    BY <2>3
  <2>5. AtMost(s, view[c][s])'
    BY <2>4, AtMostStep DEF AtMost
  <2> QED
    BY <2>3, <2>5
<1>4. ASSUME NEW c \in Clients, NEW s \in Pushed, NEW i \in 1..Len(queue'[c]), queue'[c][i].source = s
      PROVE  AtMost(s, queue[c][i].version)'
  <2>1. PICK v \in Nat : queue'[c][i].version = v /\ AtMost(s, v)
    BY <1>3, <1>4
  <2> QED
    BY <2>1, AtMostStep DEF AtMost
<1> QED
  BY <1>1, <1>2, <1>3, <1>4 DEF OrderInv

\* A client receives the updates of a push source in order.
LEMMA InOrderStep ==
  TypeOK /\ MadeInv /\ OrderInv /\ InOrder /\ [Next]_vars => InOrder'
<1> DEFINE Own(c, s) == {i \in 1..Len(queue[c]) : queue[c][i].source = s}
           Sorted(c, s) ==
             /\ \A i \in 1..Len(queue[c]) : queue[c][i].source = s => view[c][s] <= queue[c][i].version
             /\ \A i, j \in 1..Len(queue[c]) :
                  i < j /\ queue[c][i].source = s /\ queue[c][j].source = s
                    => queue[c][i].version <= queue[c][j].version
<1>1. InOrder <=> \A c \in Clients, s \in Pushed : Sorted(c, s)
  BY DEF InOrder
<1>2. InOrder' <=> \A c \in Clients, s \in Pushed : Sorted(c, s)'
  BY DEF InOrder
<1> SUFFICES ASSUME TypeOK, MadeInv, OrderInv, [Next]_vars, NEW c \in Clients, NEW s \in Pushed, Sorted(c, s)
             PROVE  Sorted(c, s)'
  BY <1>1, <1>2
<1>0. s \in Sources
  BY DEF Sources
<1>3. CASE Kept(c)
  BY <1>3 DEF Kept
<1>4. CASE Cleared(c)
  <2>1. Len(queue'[c]) = 0
    BY <1>4 DEF Cleared
  <2> QED
    BY <2>1
<1>5. CASE Filled(c)
  <2>1. lastState[s] \in Nat
    BY <1>0 DEF TypeOK
  <2> QED
    BY <1>5, <2>1 DEF Filled
<1>6. CASE Passed(c)
  <2>1. current \in Updates /\ runner = "fan"
    BY <1>6 DEF Passed, RunFan, MadeInv
  <2>2. /\ Len(queue'[c]) = Len(queue[c]) + 1 /\ Len(queue[c]) \in Nat
        /\ \A i \in 1..Len(queue[c]) : queue'[c][i] = queue[c][i]
        /\ queue'[c][Len(queue[c]) + 1] = current
    BY <1>6, <2>1, QueueTypes, AppendFacts DEF Passed
  <2>3. current.source = s =>
          /\ view[c][s] <= current.version
          /\ \A i \in 1..Len(queue[c]) : queue[c][i].source = s => queue[c][i].version <= current.version
    BY <2>1 DEF OrderInv, AtMost
  <2>4. view'[c][s] = view[c][s]
    BY <1>6 DEF Passed
  <2>5. ASSUME NEW i \in 1..Len(queue'[c]), queue'[c][i].source = s
        PROVE  view'[c][s] <= queue'[c][i].version
    <3>1. CASE i \in 1..Len(queue[c])
      BY <2>2, <2>4, <2>5, <3>1
    <3>2. CASE i = Len(queue[c]) + 1
      BY <2>2, <2>3, <2>4, <2>5, <3>2
    <3> QED
      BY <2>2, <3>1, <3>2
  <2>6. ASSUME NEW i \in 1..Len(queue'[c]), NEW j \in 1..Len(queue'[c]), i < j,
               queue'[c][i].source = s, queue'[c][j].source = s
        PROVE  queue'[c][i].version <= queue'[c][j].version
    <3>1. i \in 1..Len(queue[c])
      BY <2>2, <2>6
    <3>2. CASE j \in 1..Len(queue[c])
      BY <2>2, <2>6, <3>1, <3>2
    <3>3. CASE j = Len(queue[c]) + 1
      BY <2>2, <2>3, <2>6, <3>1, <3>3
    <3> QED
      BY <2>2, <3>2, <3>3
  <2> QED
    BY <2>5, <2>6
<1>7. CASE Took(c)
  <2>1. /\ Head(queue[c]) = queue[c][1] /\ Len(queue[c]) \in Nat \ {0}
        /\ Len(queue'[c]) = Len(queue[c]) - 1
        /\ \A i \in 1..Len(queue'[c]) : queue'[c][i] = queue[c][i + 1] /\ i + 1 \in 1..Len(queue[c])
    BY <1>7, QueueTypes, TailFacts DEF Took
  <2>2. view'[c][s] = view[c][s] \/ (queue[c][1].source = s /\ view'[c][s] = queue[c][1].version)
    <3>1. CASE view'[c] = view[c]
      BY <3>1
    <3>2. CASE view'[c] = [view[c] EXCEPT ![queue[c][1].source] = queue[c][1].version]
      BY <1>0, <3>2, QueueTypes
    <3> QED
      BY <1>7, <2>1, <3>1, <3>2 DEF Took
  <2>3. ASSUME NEW i \in 1..Len(queue'[c]), queue'[c][i].source = s
        PROVE  view'[c][s] <= queue'[c][i].version
    <3>1. queue'[c][i] = queue[c][i + 1] /\ i + 1 \in 1..Len(queue[c]) /\ 1 \in 1..Len(queue[c]) /\ 1 < i + 1
      BY <2>1
    <3> QED
      BY <2>2, <2>3, <3>1
  <2>4. ASSUME NEW i \in 1..Len(queue'[c]), NEW j \in 1..Len(queue'[c]), i < j,
               queue'[c][i].source = s, queue'[c][j].source = s
        PROVE  queue'[c][i].version <= queue'[c][j].version
    <3>1. /\ queue'[c][i] = queue[c][i + 1] /\ i + 1 \in 1..Len(queue[c])
          /\ queue'[c][j] = queue[c][j + 1] /\ j + 1 \in 1..Len(queue[c]) /\ i + 1 < j + 1
      BY <2>1, <2>4
    <3> QED
      BY <2>4, <3>1
  <2> QED
    BY <2>3, <2>4
<1> QED
  BY <1>3, <1>4, <1>5, <1>6, <1>7, ChannelMoves

LEMMA InitOrder == Init => MadeInv /\ OrderInv /\ InOrder
<1>1. Init => MadeInv
  BY DEF Init, MadeInv
<1>2. Init => OrderInv
  <2>1. \A s \in Sources : Nothing[s] = 0
    BY DEF Nothing
  <2>2. Init => OnTheWay /\ \A s \in Pushed : AtMost(s, 0)
    BY <2>1 DEF Init, OnTheWay, AtMost, Sources
  <2> QED
    BY <2>1, <2>2 DEF Init, OrderInv, Sources
<1>3. Init => InOrder
  BY DEF Init, InOrder
<1> QED
  BY <1>1, <1>2, <1>3

\* A client sees the updates of a push source in the order in which the source
\* made them, from the cached snapshot on: no queue in between, however long,
\* reorders them or lets an older snapshot replace a newer one.
THEOREM UpdatesInOrder == Spec => []InOrder
BY InitOrder, MonitorTypes, MadeStep, OrderStep, InOrderStep, PTL DEF Spec

-----------------------------------------------------------------------------
(* No update is lost.                                                      *)

\* The snapshots of s in q.
Shots(q, s) == {i \in 1..Len(q) : q[i].source = s /\ q[i].scope = "Snapshot"}

LEMMA ShowsShots ==
  ASSUME NEW q, NEW old, NEW s, NEW v
  PROVE  Shows(q, old, s, v) <=> \/ Shots(q, s) = {} /\ old = v
                                 \/ \E i \in Shots(q, s) : (\A j \in Shots(q, s) : j <= i) /\ q[i].version = v
BY DEF Shows, Shots

\* A snapshot that is passed on is what the client will see.
LEMMA ShowsNew ==
  ASSUME NEW q \in Seq(Updates), NEW u \in Updates, u.scope = "Snapshot", NEW old
  PROVE  Shows(Append(q, u), old, u.source, u.version)
<1> DEFINE r == Append(q, u)
           k == Len(q) + 1
<1>1. /\ Len(q) \in Nat /\ Len(r) = Len(q) + 1
      /\ r[k] = u
  OBVIOUS
<1> HIDE DEF r
<1>2. k \in Shots(r, u.source)
  BY <1>1 DEF Shots
<1>3. \A j \in Shots(r, u.source) : j <= k
  BY <1>1 DEF Shots
<1>4. Shows(r, old, u.source, u.version)
  BY <1>1, <1>2, <1>3, ShowsShots
<1> QED
  BY <1>4 DEF r

\* Any other update changes nothing of what it will see of s.
LEMMA ShowsKept ==
  ASSUME NEW q \in Seq(Updates), NEW u \in Updates, NEW s, ~(u.source = s /\ u.scope = "Snapshot"),
         NEW old, NEW v, Shows(q, old, s, v)
  PROVE  Shows(Append(q, u), old, s, v)
<1> DEFINE r == Append(q, u)
<1>1. /\ Len(q) \in Nat /\ Len(r) = Len(q) + 1 /\ r[Len(q) + 1] = u
      /\ \A i \in 1..Len(q) : r[i] = q[i]
  BY AppendFacts
<1> HIDE DEF r
<1>2. Shots(r, s) = Shots(q, s)
  BY <1>1 DEF Shots
<1>3. \A i \in Shots(q, s) : r[i] = q[i]
  BY <1>1 DEF Shots
<1>4. Shows(r, old, s, v)
  BY <1>2, <1>3, ShowsShots
<1> QED
  BY <1>4 DEF r

\* Nor does what it receives.
LEMMA ShowsTook ==
  ASSUME NEW q \in Seq(Updates), q # <<>>, NEW s, NEW old, NEW v, Shows(q, old, s, v),
         NEW new, new = IF Head(q).source = s /\ Head(q).scope = "Snapshot" THEN Head(q).version ELSE old
  PROVE  Shows(Tail(q), new, s, v)
<1> DEFINE r == Tail(q)
<1>1. /\ Head(q) = q[1] /\ Len(q) \in Nat \ {0} /\ Len(r) = Len(q) - 1
      /\ \A i \in 1..Len(r) : r[i] = q[i + 1] /\ i + 1 \in 1..Len(q)
  BY TailFacts
<1> HIDE DEF r
<1>2. \A i \in 1..Len(r) : i \in Shots(r, s) <=> i + 1 \in Shots(q, s)
  BY <1>1 DEF Shots
<1>3. Shots(r, s) \subseteq 1..Len(r) /\ Shots(q, s) \subseteq 1..Len(q)
  BY DEF Shots
<1>4. 1 \in Shots(q, s) <=> Head(q).source = s /\ Head(q).scope = "Snapshot"
  BY <1>1 DEF Shots
<1>5. CASE Shots(q, s) = {}
  <2>1. Shots(r, s) = {}
    BY <1>2, <1>3, <1>5
  <2>2. new = v
    BY <1>4, <1>5, ShowsShots
  <2> QED
    BY <2>1, <2>2, ShowsShots DEF r
<1>6. CASE Shots(q, s) # {}
  <2>1. PICK i \in Shots(q, s) : (\A j \in Shots(q, s) : j <= i) /\ q[i].version = v
    BY <1>6, ShowsShots
  <2>2. CASE i = 1
    <3>1. Shots(r, s) = {}
      <4> SUFFICES ASSUME NEW j \in Shots(r, s)
                   PROVE  FALSE
        OBVIOUS
      <4>1. j \in 1..Len(r) /\ j + 1 \in Shots(q, s)
        BY <1>2, <1>3
      <4>2. j + 1 <= 1 /\ j >= 1
        BY <2>1, <2>2, <4>1
      <4> QED
        BY <4>1, <4>2
    <3>2. new = v
      BY <1>1, <1>4, <2>1, <2>2
    <3> QED
      BY <3>1, <3>2, ShowsShots DEF r
  <2>3. CASE i # 1
    <3> DEFINE k == i - 1
    <3>1. k \in 1..Len(r) /\ k + 1 = i
      BY <1>1, <1>3, <2>3
    <3>2. k \in Shots(r, s) /\ r[k].version = v
      BY <1>1, <1>2, <2>1, <3>1
    <3>3. ASSUME NEW j \in Shots(r, s)
          PROVE  j <= k
      <4>1. j \in 1..Len(r) /\ j + 1 \in Shots(q, s)
        BY <1>2, <1>3
      <4>2. j + 1 <= i
        BY <2>1, <4>1
      <4> QED
        BY <3>1, <4>1, <4>2
    <3> HIDE DEF k
    <3> QED
      BY <3>2, <3>3, ShowsShots DEF r
  <2> QED
    BY <2>2, <2>3
<1> QED
  BY <1>5, <1>6

\* What a step does to a client that is subscribed after it.
LEMMA ListedMoves ==
  ASSUME TypeOK, [Next]_vars, NEW c \in Clients, Listed(c)'
  PROVE  \/ Attach(c)
         \/ RunFan
         \/ /\ Listed(c)
            /\ since'[c] = since[c] /\ missed'[c] = missed[c]
            /\ (queue'[c] = queue[c] /\ view'[c] = view[c]) \/ Took(c)
<1>1. ASSUME NEW d \in Clients, Refuse(d) \/ JoinSubscriptions(d) \/ Leave(d) \/ SendSnapshot(d)
                                  \/ Request(d) \/ LockMonitor(d)
      PROVE  Listed(c) /\ UNCHANGED <<since[c], missed[c], queue[c], view[c]>>
  <2>1. c # d /\ pc'[c] = pc[c]
    BY <1>1 DEF Refuse, JoinSubscriptions, Leave, SendSnapshot, Request, LockMonitor, Over, Listed, TypeOK
  <2> QED
    BY <1>1, <2>1 DEF Refuse, JoinSubscriptions, Leave, SendSnapshot, Request, LockMonitor, Over,
                      Listed, TypeOK
<1>2. ASSUME NEW d \in Clients, d # c, Attach(d)
      PROVE  Listed(c) /\ UNCHANGED <<since[c], missed[c], queue[c], view[c]>>
  BY <1>2 DEF Attach, Listed, TypeOK
<1>3. ASSUME NEW d \in Clients, Start(d) \/ SpawnLoops(d) \/ SpawnFailure(d) \/ Open(d)
      PROVE  Listed(c) /\ UNCHANGED <<since[c], missed[c], queue[c], view[c]>>
  BY <1>3 DEF Start, SpawnLoops, SpawnFailure, Open, Subscribed, Listed, TypeOK
<1>4. ASSUME NEW d \in Clients, Receive(d)
      PROVE  /\ Listed(c) /\ UNCHANGED <<since[c], missed[c]>>
             /\ (queue'[c] = queue[c] /\ view'[c] = view[c]) \/ Took(c)
  <2>1. Listed(c) /\ UNCHANGED <<since[c], missed[c]>>
    BY <1>4 DEF Receive, Listed
  <2>2. CASE d # c
    <3>1. queue'[c] = queue[c]
      BY <1>4, <2>2 DEF Receive, TypeOK
    <3>2. view'[c] = view[c]
      BY <1>4, <2>2 DEF Receive, TypeOK
    <3> QED
      BY <2>1, <3>1, <3>2
  <2>3. CASE d = c
    BY <1>4, <2>1, <2>3, ReceiveTook
  <2> QED
    BY <2>2, <2>3
<1>5. CASE UNCHANGED clientVars
  BY <1>5 DEF clientVars, Listed
<1> QED
  BY <1>1, <1>2, <1>3, <1>4, <1>5
     DEF Next, Subscribe, Run, vars, SubscribeSource, DropMonitor,
         Change, Send, Die, Line, Poll, SendPoll, RunReceive, RunCache

\* Only RunFan ends the passing on of a cached snapshot.
LEMMA FanMoves ==
  ASSUME TypeOK, WatchInv, [Next]_vars, NEW s \in Pushed, Fanning(s)
  PROVE  RunFan \/ (Fanning(s)' /\ current' = current)
<1>1. runner = "fan"
  BY DEF Fanning
<1>2. RunFan \/ (runner' = runner /\ current' = current)
  BY <1>1
     DEF Next, Subscribe, Run, vars, runVars, WatchInv,
         Request, LockMonitor, SendSnapshot, Attach, Refuse, Start, SubscribeSource, SpawnLoops,
         SpawnFailure, JoinSubscriptions, Open, Receive, Leave, DropMonitor,
         Change, Send, Die, Line, Poll, SendPoll, RunReceive, RunCache
<1> QED
  BY <1>2 DEF Fanning

\* try_send reaches every client that is subscribed, if there is room.
LEMMA FanReaches ==
  ASSUME TypeOK, MadeInv, OwnListener, RunFan, NEW c \in Clients, Listed(c)
  PROVE  /\ current \in Updates /\ Listed(c)'
         /\ since'[c] = since[c] /\ view'[c] = view[c]
         /\ \/ /\ Len(queue[c]) < QueueCap
               /\ queue'[c] = Append(queue[c], current)
               /\ missed'[c] = IF current.scope = "Partial" THEN missed[c]
                               ELSE missed[c] \ {current.source}
            \/ /\ ~(Len(queue[c]) < QueueCap)
               /\ queue'[c] = queue[c]
               /\ missed'[c] = IF current.scope = "Partial" THEN missed[c]
                               ELSE missed[c] \cup {current.source}
<1> DEFINE on == {d \in Clients : \E i \in Ids : listeners[i] = d}
           fits == {d \in on : Len(queue[d]) < QueueCap}
<1>1. c \in on
  <2>1. listeners[id[c]] = c /\ id[c] \in Ids
    BY DEF OwnListener, TypeOK
  <2> QED
    BY <2>1
<1>2. c \in fits <=> Len(queue[c]) < QueueCap
  BY <1>1
<1>3. /\ current \in Updates
      /\ UNCHANGED <<pc, since, view>>
  BY DEF RunFan, MadeInv
<1>4. queue' = [d \in Clients |-> IF d \in fits THEN Append(queue[d], current) ELSE queue[d]]
  BY DEF RunFan
<1>5. IF current.scope = "Partial" THEN missed' = missed
      ELSE missed' = [d \in Clients |-> CASE d \in fits      -> missed[d] \ {current.source}
                                          [] d \in on \ fits -> missed[d] \cup {current.source}
                                          [] OTHER           -> missed[d]]
  BY DEF RunFan
<1> HIDE DEF on, fits
<1>6. CASE c \in fits
  <2>1. ~(c \in on \ fits)
    BY <1>6
  <2>2. current.scope # "Partial" =>
          missed'[c] = CASE c \in fits      -> missed[c] \ {current.source}
                         [] c \in on \ fits -> missed[c] \cup {current.source}
                         [] OTHER           -> missed[c]
    BY <1>5
  <2>3. current.scope # "Partial" => missed'[c] = missed[c] \ {current.source}
    BY <1>6, <2>1, <2>2
  <2>4. queue'[c] = Append(queue[c], current)
    BY <1>4, <1>6
  <2> QED
    BY <1>2, <1>3, <1>5, <1>6, <2>3, <2>4 DEF Listed
<1>7. CASE c \notin fits
  <2>1. c \in on \ fits
    BY <1>1, <1>7
  <2>2. current.scope # "Partial" =>
          missed'[c] = CASE c \in fits      -> missed[c] \ {current.source}
                         [] c \in on \ fits -> missed[c] \cup {current.source}
                         [] OTHER           -> missed[c]
    BY <1>5
  <2>3. current.scope # "Partial" => missed'[c] = missed[c] \cup {current.source}
    BY <1>7, <2>1, <2>2
  <2>4. queue'[c] = queue[c]
    BY <1>4, <1>7
  <2> QED
    BY <1>2, <1>3, <1>5, <1>7, <2>3, <2>4 DEF Listed
<1> QED
  BY <1>6, <1>7

LEMMA DeliveryStep ==
  TypeOK /\ MadeInv /\ OwnListener /\ WatchInv /\ DeliveryInv /\ [Next]_vars => DeliveryInv'
<1> SUFFICES ASSUME TypeOK, MadeInv, OwnListener, WatchInv, DeliveryInv, [Next]_vars
             PROVE  DeliveryInv'
  OBVIOUS
<1>1. ASSUME NEW s \in Pushed, Fanning(s)'
      PROVE  lastState'[s] = current'.version
  <2>1. CASE RunCache
    <3>1. current'.source = s /\ current'.scope = "Snapshot" /\ current' = current
      BY <1>1, <2>1 DEF Fanning, RunCache
    <3>2. lastState' = [lastState EXCEPT ![s] = current.version]
      BY <2>1, <3>1 DEF RunCache
    <3> QED
      BY <3>1, <3>2 DEF TypeOK, Sources
  <2>2. CASE ~RunCache
    <3>1. lastState'[s] = lastState[s]
      BY <2>2, CacheMoves
    <3>2. current' = current /\ runner = "fan"
      BY <1>1, <2>2
         DEF Fanning, Next, Subscribe, Run, vars, runVars,
             Request, LockMonitor, SendSnapshot, Attach, Refuse, Start, SubscribeSource, SpawnLoops,
             SpawnFailure, JoinSubscriptions, Open, Receive, Leave, DropMonitor,
             Change, Send, Die, Line, Poll, SendPoll, RunReceive, RunFan
    <3>3. Fanning(s)
      BY <1>1, <3>2 DEF Fanning
    <3> QED
      BY <3>1, <3>2, <3>3 DEF DeliveryInv
  <2> QED
    BY <2>1, <2>2
<1>2. ASSUME NEW c \in Clients, NEW s \in Pushed, Listed(c)', s \notin missed'[c], ~Fanning(s)'
      PROVE  Shows(queue'[c], view'[c][s], s, lastState'[s]) \/ lastState'[s] = since'[c][s]
  <2>0. queue[c] \in Seq(Updates)
    BY QueueTypes
  <2>1. lastState'[s] = lastState[s]
    BY <1>2, CacheMoves DEF RunCache, Fanning
  <2>2. CASE Attach(c)
    <3>1. since'[c] = lastState
      BY <2>2 DEF Attach, TypeOK
    <3> QED
      BY <2>1, <3>1
  <2>3. CASE RunFan
    <3>1. Listed(c)
      BY <1>2, <2>3 DEF RunFan, Listed
    <3>2. lastState' = lastState
      BY <2>3 DEF RunFan
    <3>3. CASE Fanning(s)
      <4>1. /\ queue'[c] = Append(queue[c], current) /\ current \in Updates
        BY <1>2, <2>3, <3>1, <3>3, FanReaches DEF Fanning
      <4>2. Shows(Append(queue[c], current), view'[c][s], current.source, current.version)
        BY <2>0, <3>3, <4>1, ShowsNew DEF Fanning
      <4>3. lastState[s] = current.version /\ current.source = s
        BY <3>3 DEF DeliveryInv, Fanning
      <4> QED
        BY <2>1, <4>1, <4>2, <4>3
    <3>4. CASE ~Fanning(s)
      <4>1. ~(current.source = s /\ current.scope = "Snapshot")
        BY <2>3, <3>4 DEF Fanning, RunFan
      <4>2. current \in Updates
        BY <2>3, <3>1, FanReaches
      <4>3. s \notin missed[c]
        <5>1. current.scope = "Partial" \/ current.source # s
          BY <4>1, <4>2 DEF Updates
        <5> QED
          BY <1>2, <2>3, <3>1, <5>1, FanReaches
      <4>4. Shows(queue[c], view[c][s], s, lastState[s]) \/ lastState[s] = since[c][s]
        BY <3>1, <3>4, <4>3 DEF DeliveryInv
      <4>5. since'[c] = since[c] /\ view'[c] = view[c]
            /\ (queue'[c] = queue[c] \/ queue'[c] = Append(queue[c], current))
        BY <2>3, <3>1, FanReaches
      <4>6. Shows(queue[c], view[c][s], s, lastState[s])
              => Shows(Append(queue[c], current), view[c][s], s, lastState[s])
        BY <2>0, <4>1, <4>2, ShowsKept
      <4> QED
        BY <2>1, <4>4, <4>5, <4>6
    <3> QED
      BY <3>3, <3>4
  <2>4. ASSUME ~RunFan, Listed(c), since'[c] = since[c], missed'[c] = missed[c],
               (queue'[c] = queue[c] /\ view'[c] = view[c]) \/ Took(c)
        PROVE  Shows(queue'[c], view'[c][s], s, lastState'[s]) \/ lastState'[s] = since'[c][s]
    <3>1. ~Fanning(s)
      BY <1>2, <2>4, FanMoves
    <3>2. Shows(queue[c], view[c][s], s, lastState[s]) \/ lastState[s] = since[c][s]
      BY <1>2, <2>4, <3>1 DEF DeliveryInv
    <3>3. CASE queue'[c] = queue[c] /\ view'[c] = view[c]
      BY <2>1, <2>4, <3>2, <3>3
    <3>4. ASSUME Took(c), Shows(queue[c], view[c][s], s, lastState[s])
          PROVE  Shows(queue'[c], view'[c][s], s, lastState'[s])
      <4>1. queue[c] # <<>> /\ queue'[c] = Tail(queue[c])
        BY <3>4 DEF Took
      <4>2. view'[c][s] = IF Head(queue[c]).source = s /\ Head(queue[c]).scope = "Snapshot"
                          THEN Head(queue[c]).version ELSE view[c][s]
        <5>1. view[c] \in [Sources -> Nat] /\ s \in Sources
          BY QueueTypes DEF Sources
        <5>2. CASE Head(queue[c]).scope = "Snapshot"
          <6>1. view'[c] = [view[c] EXCEPT ![Head(queue[c]).source] = Head(queue[c]).version]
            BY <3>4, <5>2 DEF Took
          <6> QED
            BY <5>1, <5>2, <6>1
        <5>3. CASE Head(queue[c]).scope # "Snapshot"
          <6>1. view'[c] = view[c]
            BY <3>4, <5>3 DEF Took
          <6> QED
            BY <5>3, <6>1
        <5> QED
          BY <5>2, <5>3
      <4>3. Shows(Tail(queue[c]), view'[c][s], s, lastState[s])
        BY <2>0, <3>4, <4>1, <4>2, ShowsTook
      <4> QED
        BY <2>1, <4>1, <4>3
    <3> QED
      BY <2>1, <2>4, <3>2, <3>3, <3>4
  <2> QED
    BY <1>2, <2>2, <2>3, <2>4, ListedMoves
<1> QED
  BY <1>1, <1>2 DEF DeliveryInv

\* No lost update: when run_loop has nothing in hand, a client whose channel
\* never was too full for a source's snapshot is up to date with the cache for
\* that source, or nothing was cached for it since the client was listed.
THEOREM NothingLost == Spec => []Delivery
<1>1. Init => MadeInv
  BY DEF Init, MadeInv
<1>2. Init => LockInv /\ WatchInv
  BY DEF Init, LockInv, Locks, WatchInv, Unwatched
<1>3. Init => DeliveryInv
  BY DEF Init, DeliveryInv, Fanning, Listed
<1>4. DeliveryInv => Delivery
  BY MonitorAssumption DEF DeliveryInv, Delivery, Fanning
<1> QED
  BY <1>1, <1>2, <1>3, <1>4, MonitorTypes, ListenersOwned, MadeStep, LockStep, WatchStep,
     DeliveryStep, PTL DEF Spec

-----------------------------------------------------------------------------
(* The monitor is a feed.                                                  *)

\* Nothing is anywhere that has not been made.
DatedInv ==
  /\ \A i \in 1..Len(events) : events[i].version <= made[events[i].source]
  /\ runner \in {"cache", "fan"} => current.version <= made[current.source]
  /\ \A s \in Sources : lastState[s] <= made[s]
  /\ \A c \in Clients : \A i \in 1..Len(queue[c]) : queue[c][i].version <= made[queue[c][i].source]

\* No snapshot of a push source that a client has seen or will see is newer than
\* what is cached.
Within(c, s) ==
  /\ view[c][s] <= lastState[s]
  /\ \A i \in 1..Len(queue[c]) :
       queue[c][i].source = s /\ queue[c][i].scope = "Snapshot" => queue[c][i].version <= lastState[s]

WithinInv == \A c \in Clients, s \in Pushed : Within(c, s)

\* What a step does to the event channel: one update is taken, or one is added that
\* has been made.
LEMMA EventsDated ==
  ASSUME TypeOK, MadeInv, [Next]_vars
  PROVE  \/ events' = events
         \/ events # <<>> /\ events' = Tail(events)
         \/ \E u \in Updates : events' = Append(events, u) /\ u.version <= made'[u.source]
<1> USE MonitorAssumption
<1>1. ASSUME NEW s \in Sources, NEW scope \in {"Snapshot", "Partial"}, made'[s] \in Nat \ {0},
             NEW u, u = Update(s, made'[s], scope), events' \in {events, Append(events, u)}
      PROVE  events' = events \/ \E x \in Updates : events' = Append(events, x) /\ x.version <= made'[x.source]
  BY <1>1, UpdateFields, UpdateType
<1>2. made \in [Sources -> Nat]
  BY DEF TypeOK
<1>3. ASSUME NEW s \in Sources, Makes(s)
      PROVE  made'[s] = made[s] + 1 /\ made'[s] \in Nat \ {0}
  BY <1>2, <1>3 DEF Makes
<1>4. ASSUME NEW s \in Watchers, Send(s)
      PROVE  events' = events \/ \E x \in Updates : events' = Append(events, x) /\ x.version <= made'[x.source]
  <2>1. s \in Sources /\ made'[s] = made[s] /\ made[s] \in Nat \ {0}
    BY <1>2, <1>4 DEF Send, MadeInv, Sources
  <2>2. events' = Append(events, Update(s, made'[s], "Snapshot"))
    BY <1>4, <2>1 DEF Send
  <2> QED
    BY <1>1, <2>1, <2>2
<1>5. ASSUME NEW s \in Pushed, Line(s) \/ Die(s)
      PROVE  events' = events \/ \E x \in Updates : events' = Append(events, x) /\ x.version <= made'[x.source]
  <2>1. s \in Sources /\ Makes(s) /\ Offer(Update(s, made[s] + 1, "Partial"))
    BY <1>5 DEF Line, Die, Sources
  <2>2. events' \in {events, Append(events, Update(s, made'[s], "Partial"))}
    BY <1>3, <2>1 DEF Offer
  <2> QED
    BY <1>1, <1>3, <2>1, <2>2
<1>6. CASE SendPoll
  <2>1. poller \in Sources /\ made'[poller] = made[poller] /\ made[poller] \in Nat \ {0}
    BY <1>2, <1>6 DEF SendPoll, MadeInv, TypeOK, Sources
  <2>2. events' \in {events, Append(events, Update(poller, made'[poller], "Snapshot"))}
    BY <1>6, <2>1 DEF SendPoll, Offer
  <2> QED
    BY <1>1, <2>1, <2>2
<1>7. CASE RunReceive
  BY <1>7 DEF RunReceive
<1>8. CASE UNCHANGED events
  BY <1>8
<1>9. \A s \in Watchers : s \in Pushed
  OBVIOUS
<1> QED
  BY <1>4, <1>5, <1>6, <1>7, <1>8, <1>9
     DEF Next, Subscribe, Run, vars,
         Request, LockMonitor, SendSnapshot, Attach, Refuse, Start, SubscribeSource, SpawnLoops,
         SpawnFailure, JoinSubscriptions, Open, Receive, Leave, DropMonitor,
         Change, Poll, RunCache, RunFan

\* What run_loop works on is the event that it took.
LEMMA CurrentMoves ==
  ASSUME [Next]_vars
  PROVE  \/ RunReceive
         \/ runner' \in {"cache", "fan"} => runner \in {"cache", "fan"} /\ current' = current
BY DEF Next, Subscribe, Run, vars, runVars,
       Request, LockMonitor, SendSnapshot, Attach, Refuse, Start, SubscribeSource, SpawnLoops,
       SpawnFailure, JoinSubscriptions, Open, Receive, Leave, DropMonitor,
       Change, Send, Die, Line, Poll, SendPoll, RunCache, RunFan

\* What a step caches has been made.
LEMMA CacheDated ==
  ASSUME TypeOK, MadeInv, [Next]_vars, NEW s \in Sources
  PROVE  \/ lastState'[s] = lastState[s]
         \/ lastState'[s] = made'[s]
         \/ runner = "cache" /\ current.source = s /\ lastState'[s] = current.version
<1>1. lastState \in [Sources -> Nat] /\ made \in [Sources -> Nat]
  BY DEF TypeOK
<1>2. ASSUME NEW r \in PullSources, Poll(r)
      PROVE  lastState'[s] = lastState[s] \/ lastState'[s] = made'[s]
  <2>1. CASE r = s
    BY <1>1, <1>2, <2>1 DEF Poll, Makes
  <2>2. CASE r # s
    BY <1>1, <1>2, <2>2 DEF Poll
  <2> QED
    BY <2>1, <2>2
<1>3. CASE RunCache
  <2>1. lastState' = [lastState EXCEPT ![current.source] = current.version] \/ lastState' = lastState
    BY <1>3 DEF RunCache
  <2>2. runner = "cache"
    BY <1>3 DEF RunCache
  <2> QED
    BY <1>1, <2>1, <2>2
<1> QED
  BY <1>2, <1>3
     DEF Next, Subscribe, Run, vars,
         Request, LockMonitor, SendSnapshot, Attach, Refuse, Start, SubscribeSource, SpawnLoops,
         SpawnFailure, JoinSubscriptions, Open, Receive, Leave, DropMonitor,
         Change, Send, Die, Line, SendPoll, RunReceive, RunFan

LEMMA DatedStep == TypeOK /\ MadeInv /\ DatedInv /\ [Next]_vars => DatedInv'
<1> SUFFICES ASSUME TypeOK, MadeInv, DatedInv, [Next]_vars
             PROVE  DatedInv'
  OBVIOUS
<1>0. \A s \in Sources : made[s] \in Nat /\ made'[s] \in Nat /\ made[s] <= made'[s]
  BY MadeGrows
<1>00. \A u \in Updates : u.source \in Sources /\ u.version \in Nat
  BY DEF Updates
<1>1. ASSUME NEW i \in 1..Len(events')
      PROVE  events'[i].version <= made'[events'[i].source]
  <2>1. events \in Seq(Updates)
    BY DEF TypeOK
  <2>2. \A j \in 1..Len(events) : events[j].version <= made'[events[j].source]
    <3>1. \A j \in 1..Len(events) : events[j] \in Updates /\ events[j].version <= made[events[j].source]
      BY <2>1 DEF DatedInv
    <3> QED
      BY <1>0, <1>00, <3>1
  <2>3. CASE events' = events
    BY <2>2, <2>3
  <2>4. CASE events # <<>> /\ events' = Tail(events)
    <3>1. events'[i] = events[i + 1] /\ i + 1 \in 1..Len(events)
      BY <2>1, <2>4, TailFacts
    <3> QED
      BY <2>2, <3>1
  <2>5. ASSUME NEW u \in Updates, events' = Append(events, u), u.version <= made'[u.source]
        PROVE  events'[i].version <= made'[events'[i].source]
    <3>1. /\ Len(events) \in Nat /\ Len(events') = Len(events) + 1
          /\ \A j \in 1..Len(events) : events'[j] = events[j]
          /\ events'[Len(events) + 1] = u
      BY <2>1, <2>5, AppendFacts
    <3>2. i \in 1..Len(events) \/ i = Len(events) + 1
      BY <3>1
    <3> QED
      BY <2>2, <2>5, <3>1, <3>2
  <2> QED
    BY <2>3, <2>4, <2>5, EventsDated
<1>2. ASSUME runner' \in {"cache", "fan"}
      PROVE  current'.version <= made'[current'.source]
  <2>1. CASE RunReceive
    <3>1. events \in Seq(Updates) /\ events # <<>> /\ current' = Head(events) /\ made' = made
      BY <2>1 DEF RunReceive, TypeOK, sourceVars
    <3>2. Head(events) = events[1] /\ 1 \in 1..Len(events)
      BY <3>1, TailFacts
    <3> QED
      BY <3>1, <3>2 DEF DatedInv
  <2>2. CASE runner \in {"cache", "fan"} /\ current' = current
    <3>1. current \in Updates /\ current.version <= made[current.source]
      BY <2>2 DEF MadeInv, DatedInv
    <3> QED
      BY <1>0, <1>00, <2>2, <3>1
  <2> QED
    BY <1>2, <2>1, <2>2, CurrentMoves
<1>3. ASSUME NEW s \in Sources
      PROVE  lastState'[s] <= made'[s]
  <2>1. lastState[s] \in Nat /\ lastState[s] <= made[s]
    BY DEF DatedInv, TypeOK
  <2>2. CASE runner = "cache" /\ current.source = s /\ lastState'[s] = current.version
    <3>1. current \in Updates /\ current.version <= made[s]
      BY <2>2 DEF MadeInv, DatedInv
    <3> QED
      BY <1>0, <1>00, <2>2, <3>1
  <2> QED
    BY <1>0, <2>1, <2>2, CacheDated
<1>4. ASSUME NEW c \in Clients, NEW i \in 1..Len(queue'[c])
      PROVE  queue'[c][i].version <= made'[queue'[c][i].source]
  <2>1. queue[c] \in Seq(Updates)
    BY QueueTypes
  <2>2. \A j \in 1..Len(queue[c]) : queue[c][j].version <= made'[queue[c][j].source]
    <3>1. \A j \in 1..Len(queue[c]) : queue[c][j] \in Updates /\ queue[c][j].version <= made[queue[c][j].source]
      BY <2>1 DEF DatedInv
    <3> QED
      BY <1>0, <1>00, <3>1
  <2>3. CASE Kept(c)
    BY <2>2, <2>3 DEF Kept
  <2>4. CASE Cleared(c)
    BY <2>4 DEF Cleared
  <2>5. CASE Filled(c)
    <3>1. queue'[c][i] \in Updates /\ queue'[c][i].version = lastState[queue'[c][i].source]
      BY <2>5 DEF Filled
    <3>2. \A s \in Sources : lastState[s] \in Nat /\ lastState[s] <= made[s]
      BY DEF DatedInv, TypeOK
    <3> QED
      BY <1>0, <1>00, <3>1, <3>2
  <2>6. CASE Passed(c)
    <3>1. current \in Updates /\ current.version <= made[current.source] /\ made' = made
      BY <2>6 DEF Passed, RunFan, MadeInv, DatedInv, sourceVars
    <3>2. /\ Len(queue[c]) \in Nat /\ Len(queue'[c]) = Len(queue[c]) + 1
          /\ \A j \in 1..Len(queue[c]) : queue'[c][j] = queue[c][j]
          /\ queue'[c][Len(queue[c]) + 1] = current
      BY <2>1, <2>6, <3>1, AppendFacts DEF Passed
    <3>3. i \in 1..Len(queue[c]) \/ i = Len(queue[c]) + 1
      BY <3>2
    <3> QED
      BY <2>2, <3>1, <3>2, <3>3
  <2>7. CASE Took(c)
    <3>1. queue'[c][i] = queue[c][i + 1] /\ i + 1 \in 1..Len(queue[c])
      BY <2>1, <2>7, TailFacts DEF Took
    <3> QED
      BY <2>2, <3>1
  <2> QED
    BY <2>3, <2>4, <2>5, <2>6, <2>7, ChannelMoves
<1> QED
  BY <1>1, <1>2, <1>3, <1>4 DEF DatedInv

\* The cache of a push source never goes back.
LEMMA CacheGrows ==
  ASSUME TypeOK, MadeInv, OrderInv, [Next]_vars, NEW s \in Pushed
  PROVE  lastState[s] \in Nat /\ lastState'[s] \in Nat /\ lastState[s] <= lastState'[s]
<1>1. lastState[s] \in Nat /\ AtMost(s, lastState[s])
  BY DEF OrderInv, TypeOK, Sources
<1>2. CASE lastState'[s] = lastState[s]
  BY <1>1, <1>2
<1>3. CASE RunCache /\ current.source = s /\ lastState'[s] = current.version
  <2>1. runner = "cache" /\ current \in Updates
    BY <1>3 DEF RunCache, MadeInv
  <2>2. current.version \in Nat /\ lastState[s] <= current.version
    BY <1>1, <1>3, <2>1 DEF AtMost, Updates
  <2> QED
    BY <1>1, <1>3, <2>2
<1> QED
  BY <1>2, <1>3, CacheMoves

LEMMA WithinStep ==
  TypeOK /\ MadeInv /\ OrderInv /\ DeliveryInv /\ WithinInv /\ [Next]_vars => WithinInv'
<1> SUFFICES ASSUME TypeOK, MadeInv, OrderInv, DeliveryInv, WithinInv, [Next]_vars,
                    NEW c \in Clients, NEW s \in Pushed
             PROVE  Within(c, s)'
  BY DEF WithinInv
<1>1. lastState[s] \in Nat /\ lastState'[s] \in Nat /\ lastState[s] <= lastState'[s]
  BY CacheGrows
<1>2. /\ s \in Sources /\ view[c][s] \in Nat
      /\ \A i \in 1..Len(queue[c]) : queue[c][i].version \in Nat
  BY QueueTypes DEF Sources
<1>3. Within(c, s)
  BY DEF WithinInv
<1>4. CASE Kept(c)
  BY <1>1, <1>2, <1>3, <1>4 DEF Kept, Within
<1>5. CASE Cleared(c)
  BY <1>1, <1>2, <1>5 DEF Cleared, Within, Nothing
<1>6. CASE Filled(c)
  BY <1>1, <1>6 DEF Filled, Within
<1>7. CASE Passed(c)
  <2>1. current \in Updates /\ runner = "fan"
    BY <1>7 DEF Passed, RunFan, MadeInv
  <2>2. current.source = s /\ current.scope = "Snapshot" => current.version = lastState[s]
    BY <2>1 DEF DeliveryInv, Fanning
  <2>3. /\ Len(queue[c]) \in Nat /\ Len(queue'[c]) = Len(queue[c]) + 1
        /\ \A i \in 1..Len(queue[c]) : queue'[c][i] = queue[c][i]
        /\ queue'[c][Len(queue[c]) + 1] = current
    BY <1>7, <2>1, QueueTypes, AppendFacts DEF Passed
  <2>4. ASSUME NEW i \in 1..Len(queue'[c]), queue'[c][i].source = s, queue'[c][i].scope = "Snapshot"
        PROVE  queue'[c][i].version <= lastState'[s]
    <3>1. CASE i \in 1..Len(queue[c])
      <4>1. queue[c][i].source = s /\ queue[c][i].scope = "Snapshot"
        BY <2>3, <2>4, <3>1
      <4>2. queue[c][i].version <= lastState[s]
        BY <1>3, <3>1, <4>1 DEF Within
      <4>3. queue[c][i].version \in Nat /\ queue'[c][i].version = queue[c][i].version
        BY <1>2, <2>3, <3>1
      <4> QED
        BY <1>1, <4>2, <4>3
    <3>2. CASE i = Len(queue[c]) + 1
      BY <1>1, <2>2, <2>3, <2>4, <3>2
    <3> QED
      BY <2>3, <3>1, <3>2
  <2>5. view'[c][s] <= lastState'[s]
    BY <1>1, <1>2, <1>3, <1>7 DEF Passed, Within
  <2> QED
    BY <2>4, <2>5 DEF Within
<1>8. CASE Took(c)
  <2>1. /\ Head(queue[c]) = queue[c][1] /\ 1 \in 1..Len(queue[c])
        /\ \A i \in 1..Len(queue'[c]) : queue'[c][i] = queue[c][i + 1] /\ i + 1 \in 1..Len(queue[c])
    BY <1>8, QueueTypes, TailFacts DEF Took
  <2>2. \A i \in 1..Len(queue'[c]) :
          queue'[c][i].source = s /\ queue'[c][i].scope = "Snapshot" => queue'[c][i].version <= lastState'[s]
    <3>1. ASSUME NEW j \in 1..Len(queue[c]), queue[c][j].source = s, queue[c][j].scope = "Snapshot"
          PROVE  queue[c][j].version <= lastState'[s]
      BY <1>1, <1>2, <1>3, <3>1 DEF Within
    <3> QED
      BY <2>1, <3>1
  <2>3. view'[c][s] <= lastState'[s]
    <3>1. CASE view'[c] = view[c]
      BY <1>1, <1>2, <1>3, <3>1 DEF Within
    <3>2. CASE /\ queue[c][1].scope = "Snapshot"
               /\ view'[c] = [view[c] EXCEPT ![queue[c][1].source] = queue[c][1].version]
      <4>1. CASE queue[c][1].source = s
        <5>1. view'[c][s] = queue[c][1].version
          BY <1>2, <3>2, <4>1, QueueTypes
        <5> QED
          BY <1>1, <1>2, <1>3, <2>1, <3>2, <4>1, <5>1 DEF Within
      <4>2. CASE queue[c][1].source # s
        <5>1. view'[c][s] = view[c][s]
          BY <1>2, <3>2, <4>2, QueueTypes
        <5> QED
          BY <1>1, <1>2, <1>3, <5>1 DEF Within
      <4> QED
        BY <4>1, <4>2
    <3> QED
      BY <1>8, <2>1, <3>1, <3>2 DEF Took
  <2> QED
    BY <2>2, <2>3 DEF Within
<1> QED
  BY <1>4, <1>5, <1>6, <1>7, <1>8, ChannelMoves

\* Each action of the feed, from what the code does.
LEMMA MakesIsMake ==
  ASSUME TypeOK, NEW s \in Sources, Makes(s), lastState' = lastState, UNCHANGED clientVars
  PROVE  Abstract!Make(s)
<1>1. UNCHANGED <<Members, view>>
  BY DEF clientVars, Members, Listed
<1> QED
  BY <1>1 DEF Abstract!Make, Makes

LEMMA PollIsMake ==
  ASSUME TypeOK, NEW s \in PullSources, Poll(s)
  PROVE  Abstract!Make(s)
<1>1. UNCHANGED <<Members, view>>
  BY DEF Poll, clientVars, Members, Listed
<1>2. s \notin Pushed
  BY MonitorAssumption
<1>3. made' = [made EXCEPT ![s] = @ + 1] /\ lastState' = [lastState EXCEPT ![s] = made[s] + 1]
  BY DEF Poll, Makes
<1> QED
  BY <1>1, <1>2, <1>3 DEF Abstract!Make

LEMMA CacheIsPublish ==
  ASSUME TypeOK, MadeInv, OrderInv, DatedInv, RunCache
  PROVE  \/ UNCHANGED <<made, lastState, Members, view>>
         \/ \E s \in Sources : \E v \in 0..made[s] : Abstract!Publish(s, v)
<1>1. UNCHANGED <<made, Members, view>>
  BY DEF RunCache, clientVars, sourceVars, Members, Listed
<1>2. CASE lastState' = lastState
  BY <1>1, <1>2
<1>3. CASE lastState' = [lastState EXCEPT ![current.source] = current.version]
  <2>1. runner = "cache" /\ current \in Updates
    BY DEF RunCache, MadeInv
  <2>2. /\ current.source \in Sources /\ current.version \in Nat
        /\ current.version <= made[current.source] /\ made[current.source] \in Nat
    BY <2>1 DEF DatedInv, Updates, TypeOK
  <2>3. current.version \in 0..made[current.source]
    BY <2>2
  <2>4. current.source \in Pushed => lastState[current.source] <= current.version
    BY <2>1 DEF OrderInv, AtMost
  <2> QED
    BY <1>1, <1>3, <2>2, <2>3, <2>4 DEF Abstract!Publish
<1> QED
  BY <1>2, <1>3 DEF RunCache

LEMMA SnapshotIsJoin ==
  ASSUME TypeOK, NEW c \in Clients, SendSnapshot(c)
  PROVE  Abstract!Join(c)
<1>1. pc[c] = "snapshot" /\ pc' = [pc EXCEPT ![c] = "attach"]
  BY DEF SendSnapshot
<1>2. c \notin Members /\ Members' = Members \cup {c}
  BY <1>1 DEF Members, Listed, TypeOK
<1>3. view' = [view EXCEPT ![c] = lastState] /\ UNCHANGED <<made, lastState>>
  BY DEF SendSnapshot, sourceVars
<1> QED
  BY <1>2, <1>3 DEF Abstract!Join

LEMMA OverIsLeave ==
  ASSUME TypeOK, NEW c \in Clients, Refuse(c) \/ JoinSubscriptions(c) \/ Leave(c)
  PROVE  Abstract!Leave(c)
<1>1. pc[c] \in {"attach", "join", "ready", "open"} /\ Over(c) /\ UNCHANGED <<made, lastState>>
  BY DEF Refuse, JoinSubscriptions, Leave, sourceVars
<1>2. c \in Members /\ Members' = Members \ {c}
  BY <1>1 DEF Over, Members, Listed, TypeOK
<1>3. view' = [view EXCEPT ![c] = Abstract!Nothing]
  BY <1>1 DEF Over, Nothing, Abstract!Nothing
<1> QED
  BY <1>1, <1>2, <1>3 DEF Abstract!Leave

LEMMA ReceiveIsSee ==
  ASSUME TypeOK, InOrder, DatedInv, WithinInv, NEW c \in Clients, Receive(c)
  PROVE  \/ UNCHANGED <<made, lastState, Members, view>>
         \/ \E s \in Sources : \E v \in 0..made[s] : Abstract!See(c, s, v)
<1> DEFINE u == queue[c][1]
<1>1. /\ queue[c] # <<>> /\ pc[c] = "open" /\ UNCHANGED <<pc, made, lastState>>
      /\ view' = IF Head(queue[c]).scope = "Snapshot"
                 THEN [view EXCEPT ![c][Head(queue[c]).source] = Head(queue[c]).version]
                 ELSE view
  BY DEF Receive, sourceVars
<1>2. /\ queue[c] \in Seq(Updates) /\ 1 \in 1..Len(queue[c]) /\ Head(queue[c]) = u /\ u \in Updates
  BY <1>1, QueueTypes, TailFacts
<1>3. UNCHANGED Members /\ c \in Members
  BY <1>1 DEF Members, Listed
<1>4. CASE u.scope = "Snapshot"
  <2>1. view' = [view EXCEPT ![c][u.source] = u.version]
    BY <1>1, <1>2, <1>4
  <2>2. /\ u.source \in Sources /\ u.version \in Nat /\ u.version <= made[u.source]
        /\ made[u.source] \in Nat
    BY <1>2 DEF DatedInv, Updates, TypeOK
  <2>3. u.version \in 0..made[u.source]
    BY <2>2
  <2>4. ASSUME u.source \in Pushed
        PROVE  view[c][u.source] <= u.version /\ u.version <= lastState[u.source]
    <3>1. view[c][u.source] <= u.version
      BY <1>2, <2>4 DEF InOrder
    <3>2. u.version <= lastState[u.source]
      BY <1>2, <1>4, <2>4 DEF WithinInv, Within
    <3> QED
      BY <3>1, <3>2
  <2> HIDE DEF u
  <2>5. Abstract!See(c, u.source, u.version)
    BY <1>1, <1>3, <2>1, <2>3, <2>4 DEF Abstract!See
  <2> QED
    BY <2>2, <2>3, <2>5
<1>5. CASE u.scope # "Snapshot"
  BY <1>1, <1>2, <1>3, <1>5
<1> QED
  BY <1>4, <1>5

\* The other steps happen out of the sight of the feed.
LEMMA StepFeeds ==
  TypeOK /\ MadeInv /\ OrderInv /\ InOrder /\ DatedInv /\ WithinInv /\ [Next]_vars
    => [Abstract!Next]_(Abstract!vars)
<1> SUFFICES ASSUME TypeOK, MadeInv, OrderInv, InOrder, DatedInv, WithinInv, [Next]_vars
             PROVE  Abstract!Next \/ UNCHANGED <<made, lastState, Members, view>>
  BY DEF Abstract!vars
<1>0. Pushed \subseteq Sources /\ PullSources \subseteq Sources /\ Watchers \subseteq Pushed
  BY MonitorAssumption DEF Sources
<1>1. ASSUME NEW s \in Pushed, Change(s) \/ Die(s) \/ Line(s)
      PROVE  Abstract!Next
  <2>1. s \in Sources /\ Makes(s) /\ lastState' = lastState /\ UNCHANGED clientVars
    BY <1>0, <1>1 DEF Change, Die, Line
  <2> QED
    BY <2>1, MakesIsMake DEF Abstract!Next
<1>2. ASSUME NEW s \in PullSources, Poll(s)
      PROVE  Abstract!Next
  BY <1>0, <1>2, PollIsMake DEF Abstract!Next
<1>3. CASE RunCache
  BY <1>3, CacheIsPublish DEF Abstract!Next
<1>4. ASSUME NEW c \in Clients,
             SendSnapshot(c) \/ Refuse(c) \/ JoinSubscriptions(c) \/ Leave(c)
      PROVE  Abstract!Next
  BY <1>4, SnapshotIsJoin, OverIsLeave DEF Abstract!Next
<1>5. ASSUME NEW c \in Clients, Receive(c)
      PROVE  Abstract!Next \/ UNCHANGED <<made, lastState, Members, view>>
  BY <1>5, ReceiveIsSee DEF Abstract!Next
<1>6. ASSUME NEW c \in Clients,
             Request(c) \/ LockMonitor(c) \/ Attach(c) \/ Start(c) \/ SubscribeSource(c)
               \/ SpawnLoops(c) \/ SpawnFailure(c) \/ Open(c)
      PROVE  UNCHANGED <<made, lastState, Members, view>>
  <2>1. UNCHANGED <<made, lastState, view>>
    BY <1>6 DEF Request, LockMonitor, Attach, Start, SubscribeSource, SpawnLoops, SpawnFailure, Open,
                sourceVars, clientVars
  <2>2. \/ pc' = pc
        \/ pc[c] \in {"out", "lock"} /\ pc' \in {[pc EXCEPT ![c] = "lock"], [pc EXCEPT ![c] = "snapshot"]}
        \/ /\ pc[c] \in {"attach", "start", "spawn", "ready"}
           /\ pc' \in {[pc EXCEPT ![c] = p] : p \in {"start", "spawn", "join", "ready", "open"}}
    BY <1>6 DEF Request, LockMonitor, Attach, Start, SubscribeSource, SpawnLoops, SpawnFailure, Open,
                Subscribed, clientVars
  <2>3. Members' = Members
    BY <2>2 DEF Members, Listed, TypeOK
  <2> QED
    BY <2>1, <2>3
<1>7. CASE UNCHANGED <<pc, view, made, lastState>>
  BY <1>7 DEF Members, Listed
<1> QED
  BY <1>0, <1>1, <1>2, <1>3, <1>4, <1>5, <1>6, <1>7
     DEF Next, Subscribe, Run, vars, clientVars, sourceVars,
         DropMonitor, Send, SendPoll, RunReceive, RunFan

LEMMA InitFeeds == Init => Abstract!Init /\ DatedInv /\ WithinInv
<1>1. Init => Abstract!Init
  BY DEF Init, Abstract!Init, Nothing, Abstract!Nothing, Members, Listed
<1>2. Init => DatedInv /\ WithinInv
  <2>1. \A s \in Sources : Nothing[s] = 0
    BY DEF Nothing
  <2> QED
    BY <2>1 DEF Init, DatedInv, WithinInv, Within, Sources
<1> QED
  BY <1>1, <1>2

\* The monitor implements Feed: through two threads, three kinds of channels that
\* drop what does not fit, and clients that come and go, nobody is shown a snapshot
\* of a push source older than one that they or, before they subscribed, another
\* client has seen.
THEOREM MonitorFeeds == Spec => Fed
<1>1. Init => MadeInv /\ OrderInv /\ InOrder
  BY InitOrder
<1>2. Init => LockInv /\ WatchInv
  BY DEF Init, LockInv, Locks, WatchInv, Unwatched
<1>3. Init => DeliveryInv
  BY DEF Init, DeliveryInv, Fanning, Listed
<1> QED
  BY <1>1, <1>2, <1>3, InitFeeds, MonitorTypes, ListenersOwned, MadeStep, LockStep, WatchStep,
     OrderStep, InOrderStep, DeliveryStep, DatedStep, WithinStep, StepFeeds, PTL
     DEF Spec, Fed, Abstract!Spec


\* The feed alone keeps that nobody is ahead of its cache.
FeedTypes ==
  /\ made \in [Sources -> Nat] /\ lastState \in [Sources -> Nat]
  /\ view \in [Clients -> [Sources -> Nat]]

LEMMA FeedKeeps ==
  FeedTypes /\ Abstract!NotAhead /\ [Abstract!Next]_(Abstract!vars)
    => FeedTypes' /\ Abstract!NotAhead'
<1> SUFFICES ASSUME FeedTypes, Abstract!NotAhead, [Abstract!Next]_(Abstract!vars)
             PROVE  FeedTypes' /\ Abstract!NotAhead'
  OBVIOUS
<1>0. Pushed \subseteq Sources /\ \A s \in Sources : made[s] \in Nat /\ lastState[s] \in Nat
  BY DEF FeedTypes, Sources
<1>1. ASSUME NEW s \in Sources, Abstract!Make(s)
      PROVE  FeedTypes' /\ Abstract!NotAhead'
  <2>1. /\ made' = [made EXCEPT ![s] = @ + 1] /\ view' = view
        /\ lastState' = lastState \/ (s \notin Pushed /\ lastState' = [lastState EXCEPT ![s] = made[s] + 1])
    BY <1>1 DEF Abstract!Make
  <2>2. FeedTypes'
    BY <1>0, <2>1 DEF FeedTypes
  <2>3. \A r \in Pushed : lastState'[r] = lastState[r] /\ made[r] <= made'[r] /\ made'[r] \in Nat
    BY <1>0, <2>1 DEF FeedTypes
  <2> QED
    BY <1>0, <2>1, <2>2, <2>3 DEF Abstract!NotAhead
<1>2. ASSUME NEW s \in Sources, NEW v \in 0..made[s], Abstract!Publish(s, v)
      PROVE  FeedTypes' /\ Abstract!NotAhead'
  <2>1. /\ lastState' = [lastState EXCEPT ![s] = v] /\ made' = made /\ view' = view
        /\ v \in Nat /\ v <= made[s] /\ (s \in Pushed => lastState[s] <= v)
    BY <1>0, <1>2 DEF Abstract!Publish
  <2>2. FeedTypes'
    BY <2>1 DEF FeedTypes
  <2>3. \A r \in Pushed : lastState[r] <= lastState'[r] /\ lastState'[r] <= made'[r] /\ lastState'[r] \in Nat
    BY <1>0, <2>1 DEF FeedTypes, Abstract!NotAhead
  <2>4. \A c \in Clients, r \in Pushed : view[c][r] \in Nat /\ view[c][r] <= lastState[r]
    BY <1>0 DEF FeedTypes, Abstract!NotAhead
  <2>5. \A c \in Clients, r \in Pushed : view'[c][r] <= lastState'[r]
    BY <1>0, <2>1, <2>3, <2>4
  <2> QED
    BY <2>2, <2>3, <2>5 DEF Abstract!NotAhead
<1>3. ASSUME NEW c \in Clients, Abstract!Join(c) \/ Abstract!Leave(c)
      PROVE  FeedTypes' /\ Abstract!NotAhead'
  <2>1. /\ UNCHANGED <<made, lastState>>
        /\ \/ view' = [view EXCEPT ![c] = lastState]
           \/ view' = [view EXCEPT ![c] = Abstract!Nothing]
    BY <1>3 DEF Abstract!Join, Abstract!Leave
  <2>2. Abstract!Nothing \in [Sources -> Nat] /\ \A r \in Pushed : Abstract!Nothing[r] = 0
    BY <1>0 DEF Abstract!Nothing
  <2>3. PICK f \in [Sources -> Nat] :
             view' = [view EXCEPT ![c] = f] /\ \A r \in Pushed : f[r] <= lastState[r]
    BY <1>0, <2>1, <2>2 DEF FeedTypes
  <2>4. FeedTypes'
    BY <2>1, <2>3 DEF FeedTypes
  <2>5. \A d \in Clients, r \in Pushed : view'[d][r] <= lastState[r]
    BY <2>3 DEF FeedTypes, Abstract!NotAhead
  <2> QED
    BY <2>1, <2>4, <2>5 DEF Abstract!NotAhead
<1>4. ASSUME NEW c \in Clients, NEW s \in Sources, NEW v \in 0..made[s], Abstract!See(c, s, v)
      PROVE  FeedTypes' /\ Abstract!NotAhead'
  <2>1. /\ view' = [view EXCEPT ![c][s] = v] /\ UNCHANGED <<made, lastState>>
        /\ v \in Nat /\ (s \in Pushed => v <= lastState[s])
    BY <1>0, <1>4 DEF Abstract!See
  <2>2. view' = [view EXCEPT ![c] = [view[c] EXCEPT ![s] = v]]
    BY <2>1
  <2>3. [view[c] EXCEPT ![s] = v] \in [Sources -> Nat]
    BY <2>1 DEF FeedTypes
  <2>4. FeedTypes'
    BY <2>1, <2>2, <2>3 DEF FeedTypes
  <2>5. ASSUME NEW d \in Clients, NEW r \in Pushed
        PROVE  view'[d][r] <= lastState[r]
    <3>1. view'[d][r] = view[d][r] \/ (r = s /\ view'[d][r] = v)
      BY <1>0, <2>1 DEF FeedTypes
    <3> QED
      BY <2>1, <3>1 DEF Abstract!NotAhead
  <2> QED
    BY <2>1, <2>4, <2>5 DEF Abstract!NotAhead
<1>5. CASE UNCHANGED Abstract!vars
  BY <1>5 DEF Abstract!vars, FeedTypes, Abstract!NotAhead
<1> QED
  BY <1>1, <1>2, <1>3, <1>4, <1>5 DEF Abstract!Next

\* So in the monitor too: whatever a client has seen of a push source is cached when
\* the next one subscribes, and nothing is cached that the source did not make.
THEOREM NobodyAhead == Spec => []Abstract!NotAhead
<1>1. Abstract!Init => FeedTypes /\ Abstract!NotAhead
  <2>1. Abstract!Nothing \in [Sources -> Nat] /\ \A r \in Sources : Abstract!Nothing[r] = 0
    BY DEF Abstract!Nothing
  <2> QED
    BY <2>1 DEF Abstract!Init, FeedTypes, Abstract!NotAhead, Sources
<1>2. Fed => []Abstract!NotAhead
  BY <1>1, FeedKeeps, PTL DEF Fed, Abstract!Spec
<1> QED
  BY <1>2, MonitorFeeds, PTL

=============================================================================
