-------------------------------- MODULE Worker --------------------------------
(***************************************************************************)
(* The `worker` crate (worker/src/lib.rs): linked threads.  Every thread   *)
(* that _spawn starts has a WorkerShared behind a mutex, a channel on      *)
(* which it is polled to stop, and a place in its parent's list of children. *)
(* The holder of its Worker handle may wait for it, poll, terminate,       *)
(* detach or drop it; a thread whose work fails stops its parent and the   *)
(* parent's other children.                                                *)
(*                                                                         *)
(* A thread blocks at lock acquisitions and at joins, so each of those is  *)
(* a step of its own; code between two of them is one step.  No code that  *)
(* holds a WorkerShared guard can panic, so the mutexes are never poisoned *)
(* and the branches that handle poisoning do not appear.  child_id stands  *)
(* for the identity of a child within its parent and is not a variable.    *)
(***************************************************************************)
EXTENDS Integers, Sequences, SequencesExt

CONSTANTS
  Workers,    \* every thread that can ever be spawned
  Main,       \* a thread that is not a worker: main, an HTTP handler
  NoOne,      \* no thread, no worker
  Spawns,     \* the spawns code may make: <<spawning thread, parent, child>>,
              \* where the parent NoOne stands for the free function spawn
  Calls,      \* what code calls on a handle, besides dropping it
  Outcomes    \* how a work function may end

Threads == Workers \cup {Main}

ASSUME WorkerAssumption ==
  /\ Main \notin Workers
  /\ NoOne \notin Threads
  /\ Spawns \subseteq Threads \X (Workers \cup {NoOne}) \X Workers
  /\ Calls \subseteq {"wait", "poll", "terminate", "detach"}
  /\ Outcomes \subseteq {"Ok", "Err", "Panic"}

VARIABLES
  pc,         \* where each thread is
  arg,        \* the worker its current call is about
  dropping,   \* TRUE inside Drop for Worker
  owner,      \* the thread that spawned the worker and keeps its handle
  parent,     \* shared.parent
  lock,       \* the thread that holds the mutex of shared
  children,   \* shared.children
  signal,     \* messages in the channel from shared.signal to WorkerSelf
  cancelled,  \* TRUE once tick or await_cancel has reported a message
  outcome,    \* what the work function returned, "none" while it runs
  workEnded,  \* the work_ended channel: no message yet, one, or taken
  thread,     \* shared.thread.is_some()
  result,     \* shared.result
  detached,   \* shared.detached
  waiting,    \* per thread, the workers whose wait() frames it has open
  frame,      \* the locals of the wait() frame open on a worker
  pollFailed  \* a poll of the handle has answered Err without waiting

vars == <<pc, arg, dropping, owner, parent, lock, children, signal, cancelled,
          outcome, workEnded, thread, result, detached, waiting, frame, pollFailed>>
threadVars == <<pc, arg, dropping, owner>>
workVars   == <<signal, cancelled, outcome, workEnded>>
sharedVars == <<parent, lock, children, detached>>
waitVars   == <<thread, result, waiting, frame, pollFailed>>

NoFrame == [phase |-> "idle", next |-> 1, state |-> "Ok", low |-> "Ok"]

Init ==
  /\ pc = [t \in Threads |-> IF t = Main THEN "body" ELSE "unborn"]
  /\ arg = [t \in Threads |-> NoOne]
  /\ dropping = [t \in Threads |-> FALSE]
  /\ owner = [w \in Workers |-> NoOne]
  /\ parent = [w \in Workers |-> NoOne]
  /\ lock = [w \in Workers |-> NoOne]
  /\ children = [w \in Workers |-> <<>>]
  /\ signal = [w \in Workers |-> 0]
  /\ cancelled = [w \in Workers |-> FALSE]
  /\ outcome = [w \in Workers |-> "none"]
  /\ workEnded = [w \in Workers |-> "empty"]
  /\ thread = [w \in Workers |-> FALSE]
  /\ result = [w \in Workers |-> "none"]
  /\ detached = [w \in Workers |-> FALSE]
  /\ waiting = [t \in Threads |-> <<>>]
  /\ frame = [w \in Workers |-> NoFrame]
  /\ pollFailed = [w \in Workers |-> FALSE]

-----------------------------------------------------------------------------
(* Helpers.                                                                *)

\* The work function has returned and its locals are being dropped.
Unwinding(t) == t \in Workers /\ outcome[t] # "none"

\* Where a thread goes on after a call into the crate.
Home(t) == IF Unwinding(t) THEN "unwind" ELSE "body"

\* The thread runs user code, which may call into the crate.
Free(t) == pc[t] = "body"

\* The WorkerSelf of w, and with it the receiver of its channel, still exists.
Receiving(w) ==
  pc[w] \notin {"unborn", "retired", "failLock", "failDrain", "ended"}

\* signal.send(()): it succeeds exactly when the receiver exists.
Send(w) == signal' = IF Receiving(w) THEN [signal EXCEPT ![w] = @ + 1] ELSE signal

\* Result::and
And(a, b) == IF a = "Ok" THEN b ELSE a

\* What joining the thread of w yields as a WorkerError.
Joined(w) == CASE outcome[w] = "Ok"  -> "Ok"
               [] outcome[w] = "Err" -> "Failed"
               [] OTHER              -> "Aborted"

\* The worker whose wait() frame thread t is executing.
Current(t) == Last(waiting[t])

\* The Drop of the handle on w is over.
Dropped(t, w) ==
  /\ pc' = [pc EXCEPT ![t] = Home(t)]
  /\ arg' = [arg EXCEPT ![t] = NoOne]
  /\ dropping' = [dropping EXCEPT ![t] = FALSE]
  /\ owner' = [owner EXCEPT ![w] = NoOne]

\* wait() or terminate() on w returns r.  Drop ignores an error and calls
\* wait() once more after Ok(()).
Answer(t, w, r) ==
  \/ /\ ~dropping[t]
     /\ pc' = [pc EXCEPT ![t] = "body"]
     /\ arg' = [arg EXCEPT ![t] = NoOne]
     /\ UNCHANGED <<dropping, owner>>
  \/ /\ dropping[t]
     /\ r = "Ok"
     /\ pc' = [pc EXCEPT ![t] = "dropWait"]
     /\ UNCHANGED <<arg, dropping, owner>>
  \/ /\ dropping[t]
     /\ r # "Ok"
     /\ Dropped(t, w)

-----------------------------------------------------------------------------
(* Spawning.                                                               *)

\* _spawn up to the point where it needs the parent's mutex: the thread is
\* started and already holds its WorkerSelf.  p is NoOne for the free
\* functions, t itself for WorkerSelf::spawn, a handle of t for Worker::spawn.
\* The handle is t's from here on, though t can use it only once it is back in
\* its own code.
Spawn(t, p, c) ==
  /\ Free(t)
  /\ pc[c] = "unborn"
  /\ <<t, p, c>> \in Spawns
  /\ p \notin {NoOne, t} => owner[p] = t
  /\ pc' = [pc EXCEPT ![c] = "body",
                      ![t] = IF p = NoOne THEN "body" ELSE "attachLock"]
  /\ arg' = [arg EXCEPT ![t] = IF p = NoOne THEN NoOne ELSE c]
  /\ parent' = [parent EXCEPT ![c] = p]
  /\ thread' = [thread EXCEPT ![c] = TRUE]
  /\ owner' = [owner EXCEPT ![c] = t]
  /\ UNCHANGED <<dropping, workVars, lock, children, detached, result, waiting,
                 frame, pollFailed>>

\* parent.lock() in _spawn
AttachLock(t) ==
  /\ pc[t] = "attachLock"
  /\ lock[parent[arg[t]]] = NoOne
  /\ lock' = [lock EXCEPT ![parent[arg[t]]] = t]
  /\ pc' = [pc EXCEPT ![t] = "attachChild"]
  /\ UNCHANGED <<arg, dropping, owner, parent, children, detached, workVars, waitVars>>

\* add_child: it needs the child's mutex too; then the handle is returned.
AttachChild(t) ==
  LET c == arg[t] IN
  /\ pc[t] = "attachChild"
  /\ lock[c] = NoOne
  /\ children' = [children EXCEPT ![parent[c]] = Append(@, c)]
  /\ lock' = [lock EXCEPT ![parent[c]] = NoOne]
  /\ pc' = [pc EXCEPT ![t] = "body"]
  /\ arg' = [arg EXCEPT ![t] = NoOne]
  /\ UNCHANGED <<dropping, owner, parent, detached, workVars, waitVars>>

-----------------------------------------------------------------------------
(* Calls on a handle.                                                      *)

\* The thread enters wait, terminate or detach on a handle it holds; each
\* begins by locking shared.
Entry == [wait |-> "waitLock", terminate |-> "terminate", detach |-> "detachLock"]

Call(t, h, f) ==
  /\ Free(t)
  /\ f \in Calls
  /\ owner[h] = t
  /\ pc' = [pc EXCEPT ![t] = Entry[f]]
  /\ arg' = [arg EXCEPT ![t] = h]
  /\ UNCHANGED <<dropping, owner, workVars, sharedVars, waitVars>>

\* The handle goes out of scope: anywhere in user code, or when the work
\* function's locals are dropped.
Drop(t, h) ==
  /\ Free(t) \/ pc[t] = "unwind"
  /\ owner[h] = t
  /\ pc' = [pc EXCEPT ![t] = "dropCheck"]
  /\ arg' = [arg EXCEPT ![t] = h]
  /\ dropping' = [dropping EXCEPT ![t] = TRUE]
  /\ UNCHANGED <<owner, workVars, sharedVars, waitVars>>

\* Mutant of DropCheck: a child of a parent counts as taken care of.
DropLeavesChild(t) ==
  LET h == arg[t] IN
  /\ pc[t] = "dropCheck"
  /\ lock[h] = NoOne
  /\ IF detached[h] \/ result[h] # "none" \/ parent[h] # NoOne
     THEN Dropped(t, h)
     ELSE /\ pc' = [pc EXCEPT ![t] = "terminate"]
          /\ UNCHANGED <<arg, dropping, owner>>
  /\ UNCHANGED <<workVars, sharedVars, waitVars>>

\* The `attached` test of Drop.
DropCheck(t) ==
  LET h == arg[t] IN
  /\ pc[t] = "dropCheck"
  /\ lock[h] = NoOne
  /\ IF detached[h] \/ result[h] # "none"
     THEN Dropped(t, h)
     ELSE /\ pc' = [pc EXCEPT ![t] = "terminate"]
          /\ UNCHANGED <<arg, dropping, owner>>
  /\ UNCHANGED <<workVars, sharedVars, waitVars>>

\* The second wait() in Drop, which finds the result of the first.
DropWait(t) ==
  /\ pc[t] = "dropWait"
  /\ lock[arg[t]] = NoOne
  /\ Dropped(t, arg[t])
  /\ UNCHANGED <<workVars, sharedVars, waitVars>>

\* poll: try_recv on work_ended.  The sender lives as long as the thread.
Poll(t, h) ==
  /\ Free(t)
  /\ "poll" \in Calls
  /\ owner[h] = t
  /\ IF workEnded[h] = "sent"
     THEN /\ workEnded' = [workEnded EXCEPT ![h] = "taken"]
          /\ pc' = [pc EXCEPT ![t] = "waitLock"]
          /\ arg' = [arg EXCEPT ![t] = h]
          /\ UNCHANGED pollFailed
     ELSE /\ pollFailed' = [pollFailed EXCEPT ![h] = @ \/ pc[h] = "ended"]
          /\ UNCHANGED <<pc, arg, workEnded>>
  /\ UNCHANGED <<dropping, owner, sharedVars, signal, cancelled, outcome, thread,
                 result, waiting, frame>>

\* Mutant of Terminate: it waits without sending.
TerminateSilently(t) ==
  /\ pc[t] = "terminate"
  /\ lock[arg[t]] = NoOne
  /\ pc' = [pc EXCEPT ![t] = "waitLock"]
  /\ UNCHANGED <<arg, dropping, owner, workVars, sharedVars, waitVars>>

\* Mutant of Terminate: the guard lives on while it waits.
TerminateLocked(t) ==
  LET h == arg[t] IN
  /\ pc[t] = "terminate"
  /\ lock[h] = NoOne
  /\ Send(h)
  /\ IF Receiving(h)
     THEN /\ pc' = [pc EXCEPT ![t] = "waitLock"]
          /\ lock' = [lock EXCEPT ![h] = t]
          /\ UNCHANGED <<arg, dropping, owner>>
     ELSE Answer(t, h, "Aborted") /\ UNCHANGED lock
  /\ UNCHANGED <<cancelled, outcome, workEnded, parent, children, detached, waitVars>>

\* terminate: lock, send, unlock; an error of send is final.
Terminate(t) ==
  LET h == arg[t] IN
  /\ pc[t] = "terminate"
  /\ lock[h] = NoOne
  /\ Send(h)
  /\ IF Receiving(h)
     THEN /\ pc' = [pc EXCEPT ![t] = "waitLock"]
          /\ UNCHANGED <<arg, dropping, owner>>
     ELSE Answer(t, h, "Aborted")
  /\ UNCHANGED <<cancelled, outcome, workEnded, sharedVars, waitVars>>

\* detach, with no parent to leave or up to parent.lock()
DetachLock(t) ==
  LET h == arg[t] IN
  /\ pc[t] = "detachLock"
  /\ lock[h] = NoOne
  /\ detached' = [detached EXCEPT ![h] = TRUE]
  /\ IF parent[h] = NoOne
     THEN /\ pc' = [pc EXCEPT ![t] = "body"]
          /\ arg' = [arg EXCEPT ![t] = NoOne]
          /\ UNCHANGED lock
     ELSE /\ pc' = [pc EXCEPT ![t] = "detachParent"]
          /\ lock' = [lock EXCEPT ![h] = t]
          /\ UNCHANGED arg
  /\ UNCHANGED <<dropping, owner, parent, children, workVars, waitVars>>

\* Mutant of DetachParent: the parent's newest child is removed.
DetachNewest(t) ==
  LET h == arg[t] IN
  /\ pc[t] = "detachParent"
  /\ lock[parent[h]] = NoOne
  /\ children' = [children EXCEPT ![parent[h]] = IF @ = <<>> THEN @ ELSE Front(@)]
  /\ lock' = [lock EXCEPT ![h] = NoOne]
  /\ pc' = [pc EXCEPT ![t] = "body"]
  /\ arg' = [arg EXCEPT ![t] = NoOne]
  /\ UNCHANGED <<dropping, owner, parent, detached, workVars, waitVars>>

\* detach, holding its own mutex and then the parent's
DetachParent(t) ==
  LET h == arg[t]
      places == {i \in DOMAIN children[parent[h]] : children[parent[h]][i] = h}
  IN
  /\ pc[t] = "detachParent"
  /\ lock[parent[h]] = NoOne
  /\ \/ /\ places = {}
        /\ UNCHANGED children
     \/ \E i \in places : children' = [children EXCEPT ![parent[h]] = RemoveAt(@, i)]
  /\ lock' = [lock EXCEPT ![h] = NoOne]
  /\ pc' = [pc EXCEPT ![t] = "body"]
  /\ arg' = [arg EXCEPT ![t] = NoOne]
  /\ UNCHANGED <<dropping, owner, parent, detached, workVars, waitVars>>

-----------------------------------------------------------------------------
(* WorkerShared::wait, which runs with the worker's mutex held throughout. *)

\* Thread t, which holds no frame on w, locks it and opens one.
OpenFrame(t, w) ==
  /\ lock' = [lock EXCEPT ![w] = t]
  /\ frame' = [frame EXCEPT ![w].phase = "signal"]
  /\ waiting' = [waiting EXCEPT ![t] = Append(@, w)]

\* Mutant of WaitLock: the stored result is not looked for.
WaitLockAgain(t) ==
  /\ pc[t] = "waitLock"
  /\ lock[arg[t]] = NoOne
  /\ OpenFrame(t, arg[t])
  /\ pc' = [pc EXCEPT ![t] = "wait"]
  /\ UNCHANGED <<arg, dropping, owner, workVars, parent, children, detached, thread,
                 result, pollFailed>>

\* Worker::wait: lock; a stored result is returned at once.
WaitLock(t) ==
  LET w == arg[t] IN
  /\ pc[t] = "waitLock"
  /\ lock[w] = NoOne
  /\ IF result[w] # "none"
     THEN /\ Answer(t, w, result[w])
          /\ UNCHANGED <<lock, frame, waiting>>
     ELSE /\ OpenFrame(t, w)
          /\ pc' = [pc EXCEPT ![t] = "wait"]
          /\ UNCHANGED <<arg, dropping, owner>>
  /\ UNCHANGED <<workVars, parent, children, detached, thread, result, pollFailed>>

\* Mutant of SignalChild: the guards of the children are kept until the join.
SignalHolding(t) ==
  LET w == Current(t)
      i == frame[w].next
      c == children[w][i]
  IN
  /\ pc[t] = "wait"
  /\ frame[w].phase = "signal"
  /\ i <= Len(children[w])
  /\ lock[c] = NoOne
  /\ Send(c)
  /\ IF Receiving(c)
     THEN /\ frame' = [frame EXCEPT ![w].next = i + 1]
          /\ lock' = [lock EXCEPT ![c] = t]
          /\ UNCHANGED children
     ELSE /\ frame' = [frame EXCEPT ![w].low = "Aborted"]
          /\ children' = [children EXCEPT ![w] = RemoveAt(@, i)]
          /\ UNCHANGED lock
  /\ UNCHANGED <<threadVars, cancelled, outcome, workEnded, parent, detached,
                 thread, result, waiting, pollFailed>>

\* children.retain: signal the next child; one that cannot be signalled
\* leaves the list.
SignalChild(t) ==
  LET w == Current(t)
      i == frame[w].next
      c == children[w][i]
  IN
  /\ pc[t] = "wait"
  /\ frame[w].phase = "signal"
  /\ i <= Len(children[w])
  /\ lock[c] = NoOne
  /\ Send(c)
  /\ IF Receiving(c)
     THEN /\ frame' = [frame EXCEPT ![w].next = i + 1]
          /\ UNCHANGED children
     ELSE /\ frame' = [frame EXCEPT ![w].low = "Aborted"]
          /\ children' = [children EXCEPT ![w] = RemoveAt(@, i)]
  /\ UNCHANGED <<threadVars, cancelled, outcome, workEnded, parent, lock, detached,
                 thread, result, waiting, pollFailed>>

\* Mutant of Join: it does not wait for the thread to end.
JoinUnfinished(t) ==
  LET w == Current(t) IN
  /\ pc[t] = "wait"
  /\ frame[w].phase = "signal"
  /\ frame[w].next > Len(children[w])
  /\ frame' = [frame EXCEPT ![w].phase = "drain",
                            ![w].state = IF thread[w] THEN Joined(w) ELSE "Aborted"]
  /\ thread' = [thread EXCEPT ![w] = FALSE]
  /\ UNCHANGED <<threadVars, workVars, sharedVars, result, waiting, pollFailed>>

\* thread.take() and join()
Join(t) ==
  LET w == Current(t) IN
  /\ pc[t] = "wait"
  /\ frame[w].phase = "signal"
  /\ frame[w].next > Len(children[w])
  /\ thread[w] => pc[w] = "ended"
  /\ frame' = [frame EXCEPT ![w].phase = "drain",
                            ![w].state = IF thread[w] THEN Joined(w) ELSE "Aborted"]
  /\ thread' = [thread EXCEPT ![w] = FALSE]
  /\ UNCHANGED <<threadVars, workVars, sharedVars, result, waiting, pollFailed>>

\* children.pop() and the child's wait(), which may already have a result.
WaitChild(t) ==
  LET w == Current(t)
      c == Last(children[w])
  IN
  /\ pc[t] = "wait"
  /\ frame[w].phase = "drain"
  /\ children[w] # <<>>
  /\ lock[c] = NoOne
  /\ children' = [children EXCEPT ![w] = Front(@)]
  /\ IF result[c] # "none"
     THEN /\ frame' = [frame EXCEPT ![w].state = And(@, result[c])]
          /\ UNCHANGED <<lock, waiting>>
     ELSE OpenFrame(t, c)
  /\ UNCHANGED <<threadVars, workVars, parent, detached, thread, result, pollFailed>>

\* The end of wait(): store the result, unlock, and return it to the frame
\* of the parent or to the caller.
CloseFrame(t) ==
  LET w   == Current(t)
      res == And(frame[w].state, frame[w].low)
      rest == Front(waiting[t])
      closed == [frame EXCEPT ![w] = NoFrame]
  IN
  /\ pc[t] = "wait"
  /\ frame[w].phase = "drain"
  /\ children[w] = <<>>
  /\ result' = [result EXCEPT ![w] = res]
  /\ lock' = [lock EXCEPT ![w] = NoOne]
  /\ waiting' = [waiting EXCEPT ![t] = rest]
  /\ IF rest = <<>>
     THEN /\ frame' = closed
          /\ Answer(t, w, res)
     ELSE /\ frame' = [closed EXCEPT ![Last(rest)].state = And(@, res)]
          /\ UNCHANGED threadVars
  /\ UNCHANGED <<workVars, parent, children, detached, thread, pollFailed>>

-----------------------------------------------------------------------------
(* The thread's own life.                                                  *)

\* Mutant of ObserveCancel: the channel is not asked for a message.
ObserveNothing(w) ==
  /\ pc[w] = "body"
  /\ signal' = [signal EXCEPT ![w] = @ - 1]
  /\ cancelled' = [cancelled EXCEPT ![w] = TRUE]
  /\ UNCHANGED <<threadVars, outcome, workEnded, sharedVars, waitVars>>

\* tick() = Err(Cancelled), or await_cancel() returns.  A tick() = Ok changes
\* nothing.
ObserveCancel(w) ==
  /\ pc[w] = "body"
  /\ signal[w] > 0
  /\ signal' = [signal EXCEPT ![w] = @ - 1]
  /\ cancelled' = [cancelled EXCEPT ![w] = TRUE]
  /\ UNCHANGED <<threadVars, outcome, workEnded, sharedVars, waitVars>>

\* The work function returns or panics; its locals are dropped next.
EndWork(w, o) ==
  /\ pc[w] = "body"
  /\ outcome' = [outcome EXCEPT ![w] = o]
  /\ pc' = [pc EXCEPT ![w] = "unwind"]
  /\ UNCHANGED <<arg, dropping, owner, signal, cancelled, workEnded, sharedVars, waitVars>>

\* Mutant of Retire: the WorkerSelf goes before the handles.
RetireEarly(w) ==
  /\ pc[w] = "unwind"
  /\ pc' = [pc EXCEPT ![w] = "retired"]
  /\ UNCHANGED <<arg, dropping, owner, workVars, sharedVars, waitVars>>

\* All handles are dropped, and now the WorkerSelf.
Retire(w) ==
  /\ pc[w] = "unwind"
  /\ \A h \in Workers : owner[h] # w
  /\ pc' = [pc EXCEPT ![w] = "retired"]
  /\ UNCHANGED <<arg, dropping, owner, workVars, sharedVars, waitVars>>

\* done_sender.send(()), which a panic skips; the thread ends here unless it
\* has a failure to report to its parent.
SendDone(w) ==
  /\ pc[w] = "retired"
  /\ workEnded' = IF outcome[w] = "Panic" THEN workEnded
                  ELSE [workEnded EXCEPT ![w] = "sent"]
  /\ pc' = [pc EXCEPT ![w] = IF outcome[w] = "Err" /\ parent[w] # NoOne
                             THEN "failLock" ELSE "ended"]
  /\ UNCHANGED <<arg, dropping, owner, signal, cancelled, outcome, sharedVars, waitVars>>

\* Mutant of FailParent: the parent is not signalled, only its children are.
FailSiblingsOnly(w) ==
  /\ pc[w] = "failLock"
  /\ lock[parent[w]] = NoOne
  /\ lock' = [lock EXCEPT ![parent[w]] = w]
  /\ pc' = [pc EXCEPT ![w] = "failDrain"]
  /\ UNCHANGED <<arg, dropping, owner, workVars, parent, children, detached, waitVars>>

\* A failed thread locks its parent and signals it.
FailParent(w) ==
  /\ pc[w] = "failLock"
  /\ lock[parent[w]] = NoOne
  /\ lock' = [lock EXCEPT ![parent[w]] = w]
  /\ Send(parent[w])
  /\ pc' = [pc EXCEPT ![w] = "failDrain"]
  /\ UNCHANGED <<arg, dropping, owner, cancelled, outcome, workEnded, parent,
                 children, detached, waitVars>>

\* It pops each child of its parent, itself included, and signals it.
FailSibling(w) ==
  LET c == Last(children[parent[w]]) IN
  /\ pc[w] = "failDrain"
  /\ children[parent[w]] # <<>>
  /\ lock[c] = NoOne
  /\ children' = [children EXCEPT ![parent[w]] = Front(@)]
  /\ Send(c)
  /\ UNCHANGED <<threadVars, cancelled, outcome, workEnded, parent, lock, detached,
                 waitVars>>

\* No child is left: unlock the parent, and the thread ends.
FailDone(w) ==
  /\ pc[w] = "failDrain"
  /\ children[parent[w]] = <<>>
  /\ lock' = [lock EXCEPT ![parent[w]] = NoOne]
  /\ pc' = [pc EXCEPT ![w] = "ended"]
  /\ UNCHANGED <<arg, dropping, owner, workVars, parent, children, detached, waitVars>>

-----------------------------------------------------------------------------
\* A thread inside the crate goes on; it takes no decision of its own.
Proceed(t) ==
  \/ AttachLock(t) \/ AttachChild(t)
  \/ DropCheck(t) \/ DropWait(t) \/ Terminate(t)
  \/ DetachLock(t) \/ DetachParent(t)
  \/ WaitLock(t) \/ SignalChild(t) \/ Join(t) \/ WaitChild(t) \/ CloseFrame(t)

\* The code around the work function, after it has returned.
Epilogue(w) ==
  \/ Retire(w) \/ SendDone(w)
  \/ FailParent(w) \/ FailSibling(w) \/ FailDone(w)

\* User code decides to call into the crate.
UserCall(t, h) ==
  \/ \E p \in Workers \cup {NoOne} : Spawn(t, p, h)
  \/ \E f \in DOMAIN Entry : Call(t, h, f)
  \/ Poll(t, h)
  \/ Drop(t, h)

Next ==
  \/ \E t \in Threads : Proceed(t)
  \/ \E t \in Threads, h \in Workers : UserCall(t, h)
  \/ \E w \in Workers : ObserveCancel(w) \/ Epilogue(w)
  \/ \E w \in Workers, o \in Outcomes : EndWork(w, o)

Spec == Init /\ [][Next]_vars

\* The operating system runs every thread, a mutex that stays free is
\* eventually granted, and a work function heeds a cancellation as
\* lib.rs:578-584 asks of it: between its other calls it ticks again and
\* again, and once told it does not put off its return for ever.
Fairness ==
  /\ \A t \in Threads : WF_vars(Proceed(t))
  /\ \A w \in Workers :
       /\ WF_vars(Epilogue(w))
       /\ WF_vars(pc[w] = "unwind" /\ \E h \in Workers : Drop(w, h))
       /\ SF_vars(ObserveCancel(w))
       /\ SF_vars(cancelled[w] /\ \E o \in Outcomes : EndWork(w, o))

FairSpec == Spec /\ Fairness

-----------------------------------------------------------------------------
(* Properties.                                                             *)

PCs == {"unborn", "body", "attachLock", "attachChild", "dropCheck", "dropWait",
        "terminate", "detachLock", "detachParent", "waitLock", "wait", "unwind",
        "retired", "failLock", "failDrain", "ended"}
Results == {"none", "Ok", "Failed", "Aborted"}
Frames == [phase: {"idle", "signal", "drain"}, next: Nat \ {0},
           state: {"Ok", "Failed", "Aborted"}, low: {"Ok", "Aborted"}]

ThreadTypes ==
  /\ pc \in [Threads -> PCs]
  /\ arg \in [Threads -> Workers \cup {NoOne}]
  /\ dropping \in [Threads -> BOOLEAN]
  /\ owner \in [Workers -> Threads \cup {NoOne}]

WorkTypes ==
  /\ signal \in [Workers -> Nat]
  /\ cancelled \in [Workers -> BOOLEAN]
  /\ outcome \in [Workers -> Outcomes \cup {"none"}]
  /\ workEnded \in [Workers -> {"empty", "sent", "taken"}]

SharedTypes ==
  /\ parent \in [Workers -> Workers \cup {NoOne}]
  /\ lock \in [Workers -> Threads \cup {NoOne}]
  /\ children \in [Workers -> Seq(Workers)]
  /\ detached \in [Workers -> BOOLEAN]

WaitTypes ==
  /\ thread \in [Workers -> BOOLEAN]
  /\ result \in [Workers -> Results]
  /\ waiting \in [Threads -> Seq(Workers)]
  /\ frame \in [Workers -> Frames]
  /\ pollFailed \in [Workers -> BOOLEAN]

\* Every variable has its type.
TypeOK == ThreadTypes /\ WorkTypes /\ SharedTypes /\ WaitTypes

\* A stored result is the truth about a thread that is over: wait() returns
\* only after a join, and Ok(()) only for a work function that returned Ok(()).
ResultAfterJoin ==
  \A w \in Workers :
    /\ result[w] # "none" => pc[w] = "ended"
    /\ result[w] = "Ok" => outcome[w] = "Ok"

\* "worker.wait() called multiple times" (lib.rs:167) is never reported:
\* concurrent and repeated waits, from a handle, from Drop and from the
\* parent's wait(), find either the thread to join or the stored result.
JoinedOnce ==
  \A w \in Workers : frame[w].phase = "signal" => thread[w]

\* Failure propagation: once a failed thread is through with its parent, the
\* parent's work function is over or has been, or will be, polled to stop.
FailureReachesParent ==
  \A c \in Workers :
    /\ outcome[c] = "Err"
    /\ parent[c] # NoOne
    /\ pc[c] \in {"failDrain", "ended"}
    => LET p == parent[c] IN ~Receiving(p) \/ signal[p] > 0 \/ cancelled[p]

\* The crate's structured concurrency: a work function that runs has been
\* detached or belongs to a handle, and who keeps a handle is in its own work
\* function still.  So no thread ends before the work it spawned, and neither
\* wait() nor Drop lets go of running work.
NoOrphans ==
  /\ \A w \in Workers : Receiving(w) => detached[w] \/ owner[w] # NoOne
  /\ \A w, t \in Workers : owner[w] = t => Receiving(t)

\* The worker whose mutex thread t needs for its next step.
Wanted(t) ==
  CASE pc[t] \in {"attachChild", "dropCheck", "dropWait", "terminate",
                  "detachLock", "waitLock"} -> arg[t]
    [] pc[t] \in {"attachLock", "detachParent"} -> parent[arg[t]]
    [] pc[t] = "failLock" -> parent[t]
    [] pc[t] = "failDrain" /\ children[parent[t]] # <<>> -> Last(children[parent[t]])
    [] pc[t] = "wait" /\ frame[Current(t)].phase = "signal"
         /\ frame[Current(t)].next <= Len(children[Current(t)])
         -> children[Current(t)][frame[Current(t)].next]
    [] pc[t] = "wait" /\ frame[Current(t)].phase = "drain"
         /\ children[Current(t)] # <<>> -> Last(children[Current(t)])
    [] OTHER -> NoOne

\* Thread t has signalled the children of w and joins it.
Joining(t, w) ==
  /\ pc[t] = "wait"
  /\ w = Current(t)
  /\ frame[w].phase = "signal"
  /\ frame[w].next > Len(children[w])
  /\ thread[w]

\* Thread t can go on only when u does: u has the mutex that t needs, or is
\* the thread that t joins.
WaitsFor(t, u) ==
  \/ Wanted(t) # NoOne /\ lock[Wanted(t)] = u
  \/ u \in Workers /\ Joining(t, u) /\ pc[u] # "ended"

\* Thread t takes mutexes up the tree: it reports its failure, leaves its
\* parent, or links a child to itself.
Upward(t) ==
  \/ pc[t] \in {"failLock", "failDrain", "detachParent"}
  \/ pc[t] = "attachLock" /\ parent[arg[t]] = t

\* ("XXX check deadlocks with parent/child interactions", lib.rs:83.)  wait,
\* poll, terminate, Drop and the spawn through a handle never deadlock among
\* themselves: in every circle of threads that wait for each other, one takes
\* mutexes up the tree.
OnlyUpwardDeadlocks ==
  \A S \in SUBSET {t \in Threads : ~Upward(t)} :
    S # {} => \E t \in S : \A u \in S : ~WaitsFor(t, u)

\* A linked child leaves its parent's list only if it is detached, over, or
\* told to stop: what a failed sibling or the parent's wait() takes off the
\* list it has signalled, whatever is added or removed in between.
ListedOrTold ==
  \A c \in Workers :
    /\ parent[c] # NoOne
    /\ Receiving(c)
    /\ ~detached[c]
    /\ \A t \in Threads : arg[t] = c => pc[t] \notin {"attachLock", "attachChild"}
    => \/ \E i \in 1..Len(children[parent[c]]) : children[parent[c]][i] = c
       \/ signal[c] > 0
       \/ cancelled[c]

\* The crate implements what Scopes promises.  A work is live as long as its
\* WorkerSelf, and a thread that has yet to report its failure is closing.
Stage(w) ==
  CASE pc[w] = "unborn" -> "fresh"
    [] pc[w] = "ended"  -> "ended"
    [] pc[w] \in {"retired", "failLock", "failDrain"} -> "closing"
    [] OTHER -> "live"

Promise == INSTANCE Scopes WITH
  Works <- Workers, Nobody <- NoOne,
  stage <- [w \in Workers |-> Stage(w)],
  verdict <- outcome,
  keeper <- owner,
  free <- {w \in Workers : detached[w]},
  answer <- result

Scoped == Promise!Spec

\* With no linked spawns, terminate() and Drop always come back.
CallsReturn ==
  \A t \in Threads : pc[t] \in {"terminate", "dropCheck"} ~> pc[t] = Home(t)

=============================================================================
