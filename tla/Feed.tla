---------------------------------- MODULE Feed --------------------------------
(***************************************************************************)
(* What SystemMonitor promises its clients about snapshots: a feed without *)
(* threads, queues, ids and locks.  Each source makes versions, the latest *)
(* is cached some time later, and members see what has been cached.  Of an *)
(* ordered source nobody goes back: not the cache, not a member, and not   *)
(* who joins after others have seen something.                             *)
(***************************************************************************)
EXTENDS Naturals

CONSTANTS
  Clients,
  Sources,
  Ordered   \* the sources that run_loop alone caches

VARIABLES
  made,     \* per source, how many versions it has made
  cache,    \* per source, the version that is cached, or 0
  members,  \* the clients that subscribe
  view      \* per client and source, the version it has seen last, at first
            \* what was cached when it joined

vars == <<made, cache, members, view>>

Nothing == [s \in Sources |-> 0]

Init ==
  /\ made = Nothing
  /\ cache = Nothing
  /\ members = {}
  /\ view = [c \in Clients |-> Nothing]

\* A source has something to tell; what is not ordered may be cached at once.
Make(s) ==
  /\ made' = [made EXCEPT ![s] = @ + 1]
  /\ \/ UNCHANGED cache
     \/ s \notin Ordered /\ cache' = [cache EXCEPT ![s] = made[s] + 1]
  /\ UNCHANGED <<members, view>>

\* A version that was made is cached.
Publish(s, v) ==
  /\ v \in 0..made[s]
  /\ s \in Ordered => cache[s] <= v
  /\ cache' = [cache EXCEPT ![s] = v]
  /\ UNCHANGED <<made, members, view>>

Join(c) ==
  /\ c \notin members
  /\ members' = members \cup {c}
  /\ view' = [view EXCEPT ![c] = cache]
  /\ UNCHANGED <<made, cache>>

\* A member sees a version, of an ordered source one between what it has seen and
\* what is cached.
See(c, s, v) ==
  /\ c \in members
  /\ v \in 0..made[s]
  /\ s \in Ordered => view[c][s] <= v /\ v <= cache[s]
  /\ view' = [view EXCEPT ![c][s] = v]
  /\ UNCHANGED <<made, cache, members>>

Leave(c) ==
  /\ c \in members
  /\ members' = members \ {c}
  /\ view' = [view EXCEPT ![c] = Nothing]
  /\ UNCHANGED <<made, cache>>

Next ==
  \/ \E s \in Sources : Make(s) \/ \E v \in 0..made[s] : Publish(s, v)
  \/ \E c \in Clients :
       \/ Join(c) \/ Leave(c)
       \/ \E s \in Sources : \E v \in 0..made[s] : See(c, s, v)

Spec == Init /\ [][Next]_vars

\* No member has seen of an ordered source what is not cached, and nothing is cached
\* that was not made: who joins later begins where the others are, or further on.
NotAhead ==
  \A s \in Ordered :
    /\ cache[s] <= made[s]
    /\ \A c \in Clients : view[c][s] <= cache[s]

=============================================================================
