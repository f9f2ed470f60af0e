-------------------------------- MODULE Scopes --------------------------------
(***************************************************************************)
(* What the worker crate promises to the code that uses it, free of        *)
(* mutexes, channels and frames.  A work is begun by a thread, which keeps  *)
(* it: the thread does not end its own work before it has let go of the     *)
(* ones it keeps, and it lets go of one only when that is over or has been  *)
(* set free.  A work is answered for at most once, after its thread has     *)
(* ended, and the answer Ok is the truth.                                  *)
(***************************************************************************)
CONSTANTS
  Works,      \* the works
  Threads,    \* the threads: the works, and others
  Nobody      \* no thread

VARIABLES
  stage,      \* of a work: fresh, live, closing, ended
  verdict,    \* what a work has returned
  keeper,     \* the thread that answers for a work
  free,       \* the works that nobody need answer for
  answer      \* what is told of a work

vars == <<stage, verdict, keeper, free, answer>>

Init ==
  /\ stage = [w \in Works |-> "fresh"]
  /\ verdict = [w \in Works |-> "none"]
  /\ keeper = [w \in Works |-> Nobody]
  /\ free = {}
  /\ answer = [w \in Works |-> "none"]

\* A thread, in its work if it has one, begins a work and keeps it.
Begin(t, w) ==
  /\ stage[w] = "fresh"
  /\ t \in Works => stage[t] = "live"
  /\ stage' = [stage EXCEPT ![w] = "live"]
  /\ keeper' = [keeper EXCEPT ![w] = t]
  /\ UNCHANGED <<verdict, free, answer>>

SetFree(w) ==
  /\ stage[w] # "fresh"
  /\ free' = free \cup {w}
  /\ UNCHANGED <<stage, verdict, keeper, answer>>

Return(w, o) ==
  /\ stage[w] = "live"
  /\ verdict[w] = "none"
  /\ verdict' = [verdict EXCEPT ![w] = o]
  /\ UNCHANGED <<stage, keeper, free, answer>>

\* The work is over: it keeps no other.
Close(w) ==
  /\ stage[w] = "live"
  /\ verdict[w] # "none"
  /\ \A x \in Works : keeper[x] # w
  /\ stage' = [stage EXCEPT ![w] = "closing"]
  /\ UNCHANGED <<verdict, keeper, free, answer>>

Exit(w) ==
  /\ stage[w] = "closing"
  /\ stage' = [stage EXCEPT ![w] = "ended"]
  /\ UNCHANGED <<verdict, keeper, free, answer>>

LetGo(w) ==
  /\ keeper[w] # Nobody
  /\ w \in free \/ stage[w] \in {"closing", "ended"}
  /\ keeper' = [keeper EXCEPT ![w] = Nobody]

Release(w) == LetGo(w) /\ UNCHANGED <<stage, verdict, free, answer>>

\* The answer may be the last its keeper wants of the work.
Answer(w, a) ==
  /\ stage[w] = "ended"
  /\ answer[w] = "none"
  /\ a = "Ok" => verdict[w] = "Ok"
  /\ answer' = [answer EXCEPT ![w] = a]
  /\ LetGo(w) \/ UNCHANGED keeper
  /\ UNCHANGED <<stage, verdict, free>>

Next ==
  \/ \E t \in Threads, w \in Works : Begin(t, w)
  \/ \E w \in Works, o \in {"Ok", "Err", "Panic"} : Return(w, o)
  \/ \E w \in Works, a \in {"Ok", "Failed", "Aborted"} : Answer(w, a)
  \/ \E w \in Works : SetFree(w) \/ Close(w) \/ Exit(w) \/ Release(w)

Spec == Init /\ [][Next]_vars

\* Works that are live nest: each is free or kept, and who keeps one is live.
Nested ==
  /\ \A w \in Works : stage[w] = "live" => w \in free \/ keeper[w] # Nobody
  /\ \A w, t \in Works : keeper[w] = t => stage[t] = "live"

=============================================================================
