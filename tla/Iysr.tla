--------------------------------- MODULE Iysr ---------------------------------
(***************************************************************************)
(* The program (src/main.rs) over the worker crate: main reads the          *)
(* configuration, spawns the reaper and waits for it; the reaper starts the *)
(* HTTP service and the notification service (src/dbus_notify.rs) as        *)
(* workers linked to it.  As in Handler, pc[t] = "body" says that t runs    *)
(* this code, at[t] where.  When main exits, the process is gone.           *)
(*                                                                         *)
(* The monitor is the queue of the notification service here; Monitor has   *)
(* the rest of it.                                                         *)
(***************************************************************************)
EXTENDS Worker

CONSTANTS
  Reaper, Http, Notify,  \* the workers
  Documents,             \* what the configuration may be; None cannot be read
  Values,                \* the JSON values that are in them
  None, Ids, BadPatterns, Split, I64Max, Half,  \* see Config
  QueueCap,              \* the queue of the notification service
  MaxUpdates             \* bound: how many updates the monitor sends

Conf == INSTANCE Config

ASSUME IysrAssumption ==
  /\ Reaper # Http /\ Reaper # Notify /\ Http # Notify
  /\ Workers = {Reaper, Http, Notify}
  /\ Spawns = {<<Main, NoOne, Reaper>>, <<Reaper, Reaper, Http>>, <<Reaper, Reaper, Notify>>}
  /\ Calls = {"wait"}
  /\ Outcomes = {"Ok", "Err"}
  /\ QueueCap \in Nat \ {0}
  /\ MaxUpdates \in Nat \ {0}

\* None is no value of a document, the elements of an array have different keys,
\* and Ids has the ids of all sources.
ASSUME DocumentAssumption ==
  /\ Documents \subseteq Values \cup {None}
  /\ Conf!JsonValues(Values)
  /\ None \notin Values \cup Nat
  /\ \A v \in Values : Conf!Is("array", v) =>
       \A i, j \in DOMAIN v.array : Conf!Index(i) = Conf!Index(j) => i = j
  /\ Ids \in Seq(Range(Ids))
  /\ \A doc \in Documents \ {None} :
       /\ Conf!Is("object", doc) /\ "sources" \in DOMAIN doc.object
       /\ Conf!Is("object", doc.object.sources)
       => DOMAIN doc.object.sources.object \subseteq Range(Ids)
  /\ \A s \in DOMAIN Split : Split[s][1] \in Nat \cup {None}
  /\ I64Max \in Nat

VARIABLES
  at,       \* where the code of each thread is
  doc,      \* the configuration file, None once it is read
  made,     \* how many updates the monitor has sent
  queue,    \* the scopes of the updates that wait for the notification service
  id,       \* persistent_notification.id, 0 for None
  shown,    \* the notifications on the screen: <<id, kind>>
  nextId,   \* the id the notification daemon gives next
  trouble   \* the code does not know the id of a status on the screen, or the
            \* daemon has refused to close one

startVars  == <<at, doc>>
notifyVars == <<made, queue, id, shown, nextId, trouble>>
programVars == <<startVars, notifyVars>>
iysrVars == <<vars, programVars>>

IysrInit ==
  /\ Init
  /\ at = [t \in Threads |-> IF t = Main THEN "load"
                           ELSE IF t = Reaper THEN "http"
                           ELSE IF t = Http THEN "await" ELSE "subscribe"]
  /\ doc \in Documents
  /\ made = 0
  /\ queue = <<>>
  /\ id = 0
  /\ shown = {}
  /\ nextId = 1
  /\ trouble = FALSE

At(t, l) == pc[t] = "body" /\ at[t] = l

Goto(t, l) == at' = [at EXCEPT ![t] = l]

\* t goes from l to m; nothing else of the program changes.
Transition(t, l, m) ==
  /\ At(t, l)
  /\ Goto(t, m)
  /\ UNCHANGED <<doc, notifyVars>>

-----------------------------------------------------------------------------
(* main.                                                                   *)

\* load_config: an error ends the program.
Load ==
  /\ At(Main, "load")
  /\ Goto(Main, IF doc # None /\ Conf!Parse(doc).ok THEN "run" ELSE "exit")
  /\ doc' = None
  /\ UNCHANGED <<vars, notifyVars>>

\* Mutant of Run: main does not keep the reaper's handle.
RunAndExit ==
  /\ Transition(Main, "run", "exit")
  /\ Spawn(Main, NoOne, Reaper)

\* run: neither the sources nor the monitor fail, but the spawn may.
Run ==
  \/ /\ Transition(Main, "run", "wait")
     /\ Spawn(Main, NoOne, Reaper)
  \/ /\ Transition(Main, "run", "exit")
     /\ UNCHANGED vars

WaitReaper == Transition(Main, "wait", "drop") /\ Call(Main, Reaper, "wait")

DropReaper == Transition(Main, "drop", "return") /\ Drop(Main, Reaper)

\* main returns, or calls process::exit
Exit == Transition(Main, "return", "exit") /\ UNCHANGED vars

MainStep == Run \/ WaitReaper \/ DropReaper \/ Exit

-----------------------------------------------------------------------------
(* The reaper and the HTTP service.                                        *)

\* service::main: hyper listens and the worker is spawned, or neither.
StartHttp ==
  \/ /\ Transition(Reaper, "http", "notify")
     /\ Spawn(Reaper, Reaper, Http)
  \/ /\ Transition(Reaper, "http", "fail")
     /\ UNCHANGED vars

\* Mutant of StartNotify: the reaper forgets it.
StartNothing == Transition(Reaper, "notify", "await") /\ UNCHANGED vars

\* dbus_notify::main
StartNotify ==
  \/ /\ Transition(Reaper, "notify", "await")
     /\ Spawn(Reaper, Reaper, Notify)
  \/ /\ Transition(Reaper, "notify", "fail")
     /\ UNCHANGED vars

AwaitCancel == Transition(Reaper, "await", "fail") /\ ObserveCancel(Reaper)

\* An error ends the work function.
Fail(w) ==
  /\ At(w, "fail")
  /\ EndWork(w, "Err")
  /\ UNCHANGED programVars

\* services is dropped from its first element on.
DropService ==
  /\ pc[Reaper] = "unwind"
  /\ Drop(Reaper, IF owner[Http] = Reaper THEN Http ELSE Notify)
  /\ UNCHANGED programVars

\* The closure drops its reference to the monitor.  Should it be the last one, and
\* somebody have subscribed, Drop for SystemMonitor joins threads that never end.
DropMonitor ==
  /\ pc[Reaper] = "unwind"
  /\ pc[Http] # "unborn"
  /\ \A h \in Workers : owner[h] # Reaper
  /\ at[Reaper] # "held"
  /\ Goto(Reaper, "held")
  /\ UNCHANGED <<vars, doc, notifyVars>>

ReaperStep ==
  StartHttp \/ StartNotify \/ AwaitCancel \/ Fail(Reaper) \/ DropService \/ DropMonitor

HttpCancel == Transition(Http, "await", "close") /\ ObserveCancel(Http)

\* server.close()
Close ==
  /\ At(Http, "close")
  /\ \E o \in Outcomes : EndWork(Http, o)
  /\ UNCHANGED programVars

HttpStep == HttpCancel \/ Close

-----------------------------------------------------------------------------
(* The notification service.                                               *)

\* monitor.lock() and subscribe(), then the connection to the session bus
Connect ==
  /\ \/ \E next \in {"connect", "fail"} : Transition(Notify, "subscribe", next)
     \/ \E next \in {"recv", "fail"} : Transition(Notify, "connect", next)
  /\ UNCHANGED vars

\* receiver.recv(), and snapshot.update
Receive ==
  /\ At(Notify, "recv")
  /\ queue # <<>>
  /\ Goto(Notify, IF Head(queue) = "Snapshot" THEN "status" ELSE "event")
  /\ queue' = Tail(queue)
  /\ UNCHANGED <<vars, doc, made, id, shown, nextId, trouble>>

\* The daemon shows a notification of that kind in place of `replaces`, if that
\* is not 0.
Display(kind, replaces) ==
  /\ shown' = shown \cup {<<IF replaces = 0 THEN nextId ELSE replaces, kind>>}
  /\ nextId' = IF replaces = 0 THEN nextId + 1 ELSE nextId

\* The code does not learn the id of what has been shown.
Untold(kind, replaces) == trouble' = (trouble \/ (kind = "status" /\ replaces = 0))

\* Mutant of CallFails: the notification is hidden after the loop and not by a
\* Drop, so an early return leaves it.
CallFailsShown(kind, replaces) ==
  /\ \/ Display(kind, replaces) /\ Untold(kind, replaces)
     \/ UNCHANGED <<shown, nextId, trouble>>
  /\ Goto(Notify, "fail")
  /\ UNCHANGED id

\* call_method fails, before or after the daemon has seen the call: run returns
\* the error and drops its locals.
CallFails(kind, replaces) ==
  /\ \/ Display(kind, replaces) /\ Untold(kind, replaces)
     \/ UNCHANGED <<shown, nextId, trouble>>
  /\ Goto(Notify, "hide")
  /\ UNCHANGED id

\* A reply that has no id in it is only logged.
Unexpected(kind, replaces) ==
  /\ Display(kind, replaces)
  /\ Untold(kind, replaces)
  /\ Goto(Notify, "tick")
  /\ UNCHANGED id

\* Mutant of ShowStatus: replaces_id is always 0.
ShowNewStatus ==
  /\ At(Notify, "status")
  /\ \/ /\ Display("status", 0)
        /\ id' = nextId
        /\ Goto(Notify, "tick")
        /\ UNCHANGED trouble
     \/ Unexpected("status", 0)
     \/ CallFails("status", 0)
  /\ UNCHANGED <<vars, doc, made, queue>>

\* show() of the persistent notification
ShowStatus ==
  /\ At(Notify, "status")
  /\ \/ /\ Display("status", id)
        /\ id' = IF id = 0 THEN nextId ELSE id
        /\ Goto(Notify, "tick")
        /\ UNCHANGED trouble
     \/ Unexpected("status", id)
     \/ CallFails("status", id)
  /\ UNCHANGED <<vars, doc, made, queue>>

\* show() of an event's notification, whose Drop leaves it on the screen
ShowEvent ==
  /\ At(Notify, "event")
  /\ \/ /\ Display("event", 0)
        /\ Goto(Notify, "tick")
        /\ UNCHANGED <<id, trouble>>
     \/ Unexpected("event", 0)
     \/ CallFails("event", 0)
  /\ UNCHANGED <<vars, doc, made, queue>>

Tick ==
  \/ /\ signal[Notify] = 0
     /\ Transition(Notify, "tick", "recv")
     /\ UNCHANGED vars
  \/ /\ Transition(Notify, "tick", "hide")
     /\ ObserveCancel(Notify)

\* Drop of the persistent notification: hide(), whose error is ignored.
Hide ==
  /\ At(Notify, "hide")
  /\ Goto(Notify, "fail")
  /\ \/ /\ id' = 0
        /\ shown' = {n \in shown : n[1] # id}
        /\ UNCHANGED trouble
     \/ /\ id # 0
        /\ trouble' = TRUE
        /\ UNCHANGED <<id, shown>>
  /\ UNCHANGED <<vars, doc, made, queue, nextId>>

NotifyStep ==
  \/ Connect \/ Receive \/ ShowStatus \/ ShowEvent \/ Tick \/ Hide \/ Fail(Notify)

\* Mutant of Publish: a queue without a bound.
PublishAnyway ==
  /\ Receiving(Notify) /\ at[Notify] # "subscribe"
  /\ made < MaxUpdates
  /\ made' = made + 1
  /\ \E scope \in {"Snapshot", "Partial"} : queue' = Append(queue, scope)
  /\ UNCHANGED <<vars, startVars, id, shown, nextId, trouble>>

\* try_send of the monitor's run_loop
Publish ==
  /\ Receiving(Notify) /\ at[Notify] # "subscribe"
  /\ made < MaxUpdates
  /\ Len(queue) < QueueCap
  /\ made' = made + 1
  /\ \E scope \in {"Snapshot", "Partial"} : queue' = Append(queue, scope)
  /\ UNCHANGED <<vars, startVars, id, shown, nextId, trouble>>

\* The user closes a notification.
Dismiss ==
  /\ \E n \in shown : shown' = shown \ {n}
  /\ UNCHANGED <<vars, startVars, made, queue, id, nextId, trouble>>

-----------------------------------------------------------------------------
\* The threads inside the worker crate.
CrateStep(t) ==
  /\ t = Reaper => at[t] # "held"
  /\ Proceed(t) \/ (t \in Workers /\ Epilogue(t))
  /\ UNCHANGED programVars

ThreadStep(t) ==
  /\ at[Main] \notin {"load", "exit"}
  /\ \/ CrateStep(t)
     \/ t = Main /\ MainStep
     \/ t = Reaper /\ ReaperStep
     \/ t = Http /\ HttpStep
     \/ t = Notify /\ NotifyStep

IysrNext ==
  \/ Load
  \/ \E t \in Threads : ThreadStep(t)
  \/ at[Main] # "exit" /\ (Publish \/ Dismiss)

IysrSpec == IysrInit /\ [][IysrNext]_iysrVars

\* The operating system runs every thread, once the configuration is read.
FairIysrSpec == IysrSpec /\ \A t \in Threads : WF_iysrVars(ThreadStep(t))

-----------------------------------------------------------------------------
(* Properties.                                                             *)

IysrTypeOK ==
  /\ at \in [Threads -> {"load", "run", "wait", "drop", "return", "exit", "http", "notify",
                         "await", "fail", "close", "subscribe", "connect", "recv",
                         "status", "event", "tick", "hide", "held"}]
  /\ doc = None \/ at[Main] = "load"
  /\ made \in 0..MaxUpdates
  /\ queue \in Seq({"Snapshot", "Partial"}) /\ Len(queue) <= QueueCap
  /\ id \in 0..MaxUpdates
  /\ shown \subseteq (1..MaxUpdates) \X {"status", "event"}
  /\ nextId \in 1..(MaxUpdates + 1)
  /\ trouble \in BOOLEAN

\* Exactly the valid documents are accepted: all keys at all levels are known and
\* used ("requires you to consume all of its keys", internal.rs:109-110), each value
\* has its type, and severities, kinds, patterns and the interval are ones that are
\* known.  Of the numbers only the interval has a range: any integer is a backlog,
\* and an interval whose Duration panics is invalid.
AcceptsValid ==
  doc # None => (Conf!Parse(doc).ok <=> Conf!Valid(doc))

\* An error of the configuration leads to what is wrong: its path, built from the
\* inside outwards by the frames that return it, is a path of the document and
\* ends where the reason can be true ("Error results will be correctly annotated with
\* the attribute path in which the problem occurred", internal.rs:344-345): a missing
\* key is absent from an object, a mismatch tells the type of the value, an unknown
\* module is that of a source, a severity or a duration is a string, and what has
\* unused keys, a bad kind or a bad pattern is an object.
ErrorPathResolves ==
  doc # None =>
    \A r \in {Conf!Parse(doc)} :
      r.ok \/ r.value = "panic" \/ Conf!Explains(r.value, doc, Conf!Path(r))

\* The filters of a journal source and their patterns are kept in the order of the
\* document, which matters as a later filter sees what an earlier one has made.
OrderKept ==
  doc # None =>
    \A r \in {Conf!Parse(doc)} :
      r.ok /\ "sources" \in DOMAIN doc.object =>
        \A source \in Range(r.value.sources) :
          LET conf == doc.object.sources.object[source.id] IN
          source.module = "journal" /\ Conf!Is("object", conf) =>
            Conf!SameOrder(source, conf.object)

\* Each snapshot replaces the notification of the one before, also if the user
\* has closed it meanwhile or a call has failed: there is at most one on the
\* screen, unless the reply to the first one was lost or had no id in it.
OneStatus ==
  trouble \/ \A m, n \in shown : m[2] = "status" /\ n[2] = "status" => m = n

\* The process never exits while a service is still at work, whichever of them
\* failed, and whether it was cancelled, had ended already or was never started.
CleanExit ==
  at[Main] = "exit" => \A w \in Workers : ~Receiving(w)

\* No status stays on the screen once its service is over or main has exited,
\* also if a call of the loop or of an event has ended the service: Drop hides it
\* on each of these ways.  Only what the code cannot close stays (trouble).
HiddenAtEnd ==
  at[Notify] = "fail" \/ at[Main] = "exit" =>
    trouble \/ \A n \in shown : n[2] # "status"

\* Both services get started, unless the reaper fails, or main has come to its
\* wait() first: it then holds the reaper's mutex, which the reaper needs for
\* each service it attaches (main.rs:83-91), and the reaper stays where it is.
StartsOrWedged ==
  at[Main] = "wait" ~> \/ pc[Http] # "unborn" /\ pc[Notify] # "unborn"
                       \/ outcome[Reaper] # "none"
                       \/ lock[Reaper] = Main /\ pc[Reaper] = "attachLock"

=============================================================================
