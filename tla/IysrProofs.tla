------------------------------ MODULE IysrProofs -------------------------------
(***************************************************************************)
(* Proofs about Iysr, for any configurations, any number of updates and any *)
(* queue: what Worker promises holds of the program, and what follows for   *)
(* its exit and for the notifications.                                     *)
(***************************************************************************)
EXTENDS Iysr, ScopeProofs

-----------------------------------------------------------------------------
(* The program is one of those that Worker describes.                      *)

\* A step of the program is a step of Worker, or none.
LEMMA StepIsWorkers == IysrNext => [Next]_vars
<1> SUFFICES ASSUME IysrNext
             PROVE  Next \/ UNCHANGED vars
  OBVIOUS
<1> USE IysrAssumption, WorkerAssumption DEF Threads
<1>0. /\ {Reaper, Http, Notify} \subseteq Workers /\ Main \in Threads /\ NoOne \in Workers \cup {NoOne}
      /\ "wait" \in DOMAIN Entry
  BY DEF Entry
<1>1. CASE Load \/ Publish \/ Dismiss
  BY <1>1 DEF Load, Publish, Dismiss
<1>2. ASSUME NEW t \in Threads, CrateStep(t)
      PROVE  Next
  BY <1>2 DEF CrateStep, Next
<1>3. CASE MainStep
  BY <1>0, <1>3 DEF MainStep, Run, WaitReaper, DropReaper, Exit, Next, UserCall
<1>4. ASSUME NEW w \in Workers, Fail(w)
      PROVE  Next
  BY <1>4 DEF Fail, Next
<1>5. CASE ReaperStep
  <2>1. CASE StartHttp \/ StartNotify \/ AwaitCancel \/ Fail(Reaper)
    BY <1>0, <1>4, <2>1 DEF StartHttp, StartNotify, AwaitCancel, Next, UserCall
  <2>2. CASE DropService
    BY <1>0, <2>2 DEF DropService, Next, UserCall
  <2>3. CASE DropMonitor
    BY <2>3 DEF DropMonitor
  <2> QED
    BY <1>5, <2>1, <2>2, <2>3 DEF ReaperStep
<1>6. CASE HttpStep
  BY <1>0, <1>6 DEF HttpStep, HttpCancel, Close, Next
<1>7. CASE NotifyStep
  <2>1. CASE Connect \/ Receive \/ ShowStatus \/ ShowEvent \/ Hide
    BY <2>1 DEF Connect, Receive, ShowStatus, ShowEvent, Hide
  <2>2. CASE Tick \/ Fail(Notify)
    BY <1>0, <1>4, <2>2 DEF Tick, Next
  <2> QED
    BY <1>7, <2>1, <2>2 DEF NotifyStep
<1> QED
  BY <1>1, <1>2, <1>3, <1>5, <1>6, <1>7 DEF IysrNext, ThreadStep

\* The program implements Worker.
LEMMA ProgramOfWorkers == IysrSpec => Spec
<1>1. IysrInit => Init
  BY DEF IysrInit
<1>2. [IysrNext]_iysrVars => [Next]_vars
  BY StepIsWorkers DEF iysrVars
<1> QED
  BY <1>1, <1>2, PTL DEF IysrSpec, Spec

-----------------------------------------------------------------------------
(* Types, and what is on the screen.                                       *)

\* The notification service has an update in its hands.
Pending == IF at[Notify] \in {"status", "event"} THEN 1 ELSE 0

\* The daemon has given at most one id for each update that was taken from the
\* queue; a status on the screen is the persistent notification; there is none
\* before the service is connected, or after it has been hidden.
ScreenInv ==
  /\ IysrTypeOK
  /\ nextId + Len(queue) + Pending <= made + 1
  /\ id < nextId
  /\ \A n \in shown : n[1] < nextId
  /\ trouble \/ \A n \in shown : n[2] = "status" => n[1] = id
  /\ at[Notify] \in {"subscribe", "connect"} => shown = {}
  /\ at[Notify] = "fail" => trouble \/ \A n \in shown : n[2] # "status"

\* The places where one step of the code takes a thread and does nothing else.
Moves == {<<"run", "wait">>, <<"run", "exit">>, <<"wait", "drop">>, <<"drop", "return">>,
          <<"return", "exit">>, <<"http", "notify">>, <<"http", "fail">>, <<"notify", "await">>,
          <<"notify", "fail">>, <<"await", "fail">>, <<"await", "close">>}
NotifyMoves == {<<"subscribe", "connect">>, <<"subscribe", "fail">>, <<"connect", "recv">>,
                <<"connect", "fail">>, <<"tick", "recv">>, <<"tick", "hide">>}

\* A step that only moves a thread keeps the invariant.
LEMMA MoveKeeps ==
  ASSUME ScreenInv, NEW t \in Threads, NEW m \in Moves \cup NotifyMoves,
         Transition(t, m[1], m[2]), t = Notify <=> m \in NotifyMoves
  PROVE  ScreenInv'
<1> USE IysrAssumption, WorkerAssumption DEF Threads
<1>1. /\ at[t] = m[1] /\ m[1] # "load"
      /\ at' = [at EXCEPT ![t] = m[2]]
      /\ UNCHANGED <<doc, made, queue, id, shown, nextId, trouble>>
  BY DEF Transition, At, Goto, Moves, NotifyMoves, notifyVars
<1>2. IysrTypeOK'
  BY <1>1 DEF ScreenInv, IysrTypeOK, Moves, NotifyMoves
<1>3. Pending' <= Pending
  BY <1>1 DEF ScreenInv, IysrTypeOK, Pending, NotifyMoves
<1>4. (nextId + Len(queue) + Pending <= made + 1)'
  BY <1>1, <1>3 DEF ScreenInv, IysrTypeOK, Pending
<1>5. at'[Notify] \in {"subscribe", "connect"} => at[Notify] \in {"subscribe", "connect"}
  BY <1>1 DEF ScreenInv, IysrTypeOK, NotifyMoves
<1>6. at'[Notify] = "fail" => at[Notify] \in {"subscribe", "connect", "fail"}
  BY <1>1 DEF ScreenInv, IysrTypeOK, NotifyMoves
<1> QED
  BY <1>1, <1>2, <1>4, <1>5, <1>6 DEF ScreenInv

\* The daemon shows a notification: what the types and the ids are then.
LEMMA Displayed ==
  ASSUME ScreenInv, at[Notify] \in {"status", "event"},
         NEW kind \in {"status", "event"}, NEW r \in {0, id}, Display(kind, r)
  PROVE  /\ nextId' \in 1..(MaxUpdates + 1) /\ nextId' >= nextId
         /\ nextId' + Len(queue) <= made + 1
         /\ id <= MaxUpdates /\ nextId <= MaxUpdates
         /\ shown' = shown \cup {<<IF r = 0 THEN nextId ELSE r, kind>>}
         /\ shown' \subseteq (1..MaxUpdates) \X {"status", "event"}
         /\ \A n \in shown' : n[1] < nextId'
<1> USE IysrAssumption DEF ScreenInv, IysrTypeOK, Pending
<1>1. Len(queue) \in Nat /\ nextId \in Nat /\ made \in Nat /\ made <= MaxUpdates /\ MaxUpdates \in Nat /\ id \in Nat
  OBVIOUS
<1>2. nextId + Len(queue) + 1 <= made + 1
  OBVIOUS
<1>3. nextId <= MaxUpdates /\ id <= MaxUpdates /\ nextId >= 1
  BY <1>1, <1>2
<1>4. nextId' = IF r = 0 THEN nextId + 1 ELSE nextId
  BY DEF Display
<1>5. nextId' \in 1..(MaxUpdates + 1) /\ nextId' >= nextId /\ nextId' + Len(queue) <= made + 1
  BY <1>1, <1>2, <1>3, <1>4
<1> DEFINE new == IF r = 0 THEN nextId ELSE r
<1>6. new \in 1..MaxUpdates /\ new < nextId'
  BY <1>1, <1>3, <1>4
<1>7. shown' = shown \cup {<<new, kind>>}
  BY DEF Display
<1>8. shown' \subseteq (1..MaxUpdates) \X {"status", "event"}
  <2> HIDE DEF new
  <2> QED
    BY <1>6, <1>7
<1>9. \A n \in shown' : n[1] < nextId'
  <2> HIDE DEF new
  <2>1. \A n \in shown : n[1] \in Nat /\ n[1] < nextId
    OBVIOUS
  <2>2. nextId' \in Nat
    BY <1>5
  <2> QED
    BY <1>1, <1>5, <1>6, <1>7, <2>1, <2>2
<1> QED
  BY <1>3, <1>5, <1>7, <1>8, <1>9

\* show() of the persistent notification keeps the invariant.
LEMMA StatusKeeps ==
  ASSUME ScreenInv, ShowStatus
  PROVE  ScreenInv'
<1> USE IysrAssumption, WorkerAssumption DEF Threads
<1>0. /\ at[Notify] = "status" /\ id \in {0, id} /\ id \in Nat /\ nextId \in Nat /\ nextId > 0
      /\ Notify \in Threads
      /\ UNCHANGED <<doc, made, queue>>
  BY DEF ShowStatus, At, ScreenInv, IysrTypeOK
<1>1. CASE /\ Display("status", id)
           /\ id' = IF id = 0 THEN nextId ELSE id
           /\ Goto(Notify, "tick")
           /\ UNCHANGED trouble
  <2>1. /\ nextId' \in 1..(MaxUpdates + 1) /\ nextId' >= nextId
        /\ nextId' + Len(queue) <= made + 1
        /\ id <= MaxUpdates /\ nextId <= MaxUpdates
        /\ shown' = shown \cup {<<id', "status">>}
        /\ shown' \subseteq (1..MaxUpdates) \X {"status", "event"}
        /\ \A n \in shown' : n[1] < nextId'
    BY <1>0, <1>1, Displayed
  <2>2. at' = [at EXCEPT ![Notify] = "tick"] /\ at'[Notify] = "tick"
    BY <1>0, <1>1 DEF Goto, ScreenInv, IysrTypeOK
  <2>3. id' \in 0..MaxUpdates /\ id' < nextId'
    <3>1. nextId' = IF id = 0 THEN nextId + 1 ELSE nextId
      BY <1>1 DEF Display
    <3>2. id < nextId
      BY DEF ScreenInv
    <3> QED
      BY <1>0, <1>1, <2>1, <3>1, <3>2
  <2>4. IysrTypeOK'
    BY <1>0, <1>1, <2>1, <2>2, <2>3 DEF ScreenInv, IysrTypeOK
  <2>5. trouble' \/ \A n \in shown' : n[2] = "status" => n[1] = id'
    <3>1. CASE trouble
      BY <1>1, <3>1
    <3>2. CASE ~trouble
      <4>1. \A n \in shown : n[2] = "status" => n[1] = id /\ id # 0
        BY <3>2 DEF ScreenInv, IysrTypeOK
      <4>2. \A n \in shown : n[2] = "status" => n[1] = id'
        BY <1>1, <4>1
      <4> QED
        BY <2>1, <4>2
    <3> QED
      BY <3>1, <3>2
  <2>6. Pending' = 0
    BY <2>2 DEF Pending
  <2> QED
    BY <1>0, <2>1, <2>2, <2>3, <2>4, <2>5, <2>6 DEF ScreenInv, IysrTypeOK
<1>2. CASE Unexpected("status", id) \/ CallFails("status", id)
  <2>1. /\ nextId' \in 1..(MaxUpdates + 1) /\ nextId' >= nextId
        /\ nextId' + Len(queue) <= made + 1
        /\ shown' \subseteq (1..MaxUpdates) \X {"status", "event"}
        /\ \A n \in shown' : n[1] < nextId'
    <3>1. CASE Display("status", id)
      BY <1>0, <3>1, Displayed
    <3>2. CASE UNCHANGED <<shown, nextId>>
      BY <1>0, <3>2 DEF ScreenInv, IysrTypeOK, Pending
    <3> QED
      BY <1>2, <3>1, <3>2 DEF Unexpected, CallFails
  <2>2. \E l \in {"tick", "hide"} : at' = [at EXCEPT ![Notify] = l] /\ at'[Notify] = l
    BY <1>0, <1>2 DEF Goto, Unexpected, CallFails, ScreenInv, IysrTypeOK
  <2>3. id' = id
    BY <1>2 DEF Unexpected, CallFails
  <2>3a. trouble' \in BOOLEAN /\ (trouble' \/ \A n \in shown' : n[2] = "status" => n[1] = id)
    <3>1. CASE Display("status", id) /\ Untold("status", id)
      <4>1. trouble' \in BOOLEAN /\ (id = 0 => trouble') /\ (trouble => trouble')
        BY <3>1 DEF Untold
      <4>2. CASE id = 0
        BY <4>1, <4>2
      <4>3. CASE id # 0
        <5>1. shown' = shown \cup {<<id, "status">>}
          BY <3>1, <4>3 DEF Display
        <5> QED
          BY <4>1, <5>1 DEF ScreenInv
      <4> QED
        BY <4>2, <4>3
    <3>2. CASE UNCHANGED <<shown, nextId, trouble>>
      BY <3>2 DEF ScreenInv, IysrTypeOK
    <3> QED
      BY <1>2, <3>1, <3>2 DEF Unexpected, CallFails
  <2>4. IysrTypeOK'
    BY <1>0, <2>1, <2>2, <2>3, <2>3a DEF ScreenInv, IysrTypeOK
  <2>5. Pending' = 0
    BY <2>2 DEF Pending
  <2> QED
    BY <1>0, <2>1, <2>2, <2>3, <2>3a, <2>4, <2>5 DEF ScreenInv, IysrTypeOK
<1> QED
  BY <1>1, <1>2 DEF ShowStatus

\* So does show() of an event.
LEMMA EventKeeps ==
  ASSUME ScreenInv, ShowEvent
  PROVE  ScreenInv'
<1> USE IysrAssumption, WorkerAssumption DEF Threads
<1>0. /\ at[Notify] = "event" /\ id \in Nat /\ nextId \in Nat /\ nextId > 0
      /\ Notify \in Threads
      /\ UNCHANGED <<doc, made, queue, id>>
  BY DEF ShowEvent, Unexpected, CallFails, At, ScreenInv, IysrTypeOK
<1>1. /\ nextId' \in 1..(MaxUpdates + 1) /\ nextId' >= nextId
      /\ nextId' + Len(queue) <= made + 1
      /\ shown' \subseteq shown \cup {<<nextId, "event">>}
      /\ shown' \subseteq (1..MaxUpdates) \X {"status", "event"}
      /\ \A n \in shown' : n[1] < nextId'
  <2>1. CASE Display("event", 0)
    BY <1>0, <2>1, Displayed
  <2>2. CASE UNCHANGED <<shown, nextId>>
    BY <1>0, <2>2 DEF ScreenInv, IysrTypeOK, Pending
  <2> QED
    BY <2>1, <2>2 DEF ShowEvent, Unexpected, CallFails
<1>2. \E l \in {"tick", "hide"} : at' = [at EXCEPT ![Notify] = l] /\ at'[Notify] = l
  BY <1>0 DEF ShowEvent, Goto, Unexpected, CallFails, ScreenInv, IysrTypeOK
<1>3. trouble' = trouble
  <2>1. trouble \in BOOLEAN
    BY DEF ScreenInv, IysrTypeOK
  <2>2. Untold("event", 0) => trouble' = trouble
    BY <2>1 DEF Untold
  <2> QED
    BY <2>2 DEF ShowEvent, Unexpected, CallFails
<1>4. IysrTypeOK'
  BY <1>0, <1>1, <1>2, <1>3 DEF ScreenInv, IysrTypeOK
<1>5. trouble' \/ \A n \in shown' : n[2] = "status" => n[1] = id'
  BY <1>0, <1>1, <1>3 DEF ScreenInv
<1>6. Pending' = 0
  BY <1>2 DEF Pending
<1> QED
  BY <1>0, <1>1, <1>2, <1>4, <1>5, <1>6 DEF ScreenInv, IysrTypeOK

\* Every step keeps it.
LEMMA ScreenStep ==
  ASSUME ScreenInv, [IysrNext]_iysrVars
  PROVE  ScreenInv'
<1> USE IysrAssumption, WorkerAssumption DEF Threads
<1>0. /\ {Reaper, Http, Notify, Main} \subseteq Threads
      /\ Reaper # Main /\ Http # Main /\ Notify # Main
  OBVIOUS
<1>1. ASSUME UNCHANGED programVars
      PROVE  ScreenInv'
  BY <1>1 DEF programVars, startVars, notifyVars, ScreenInv, IysrTypeOK, Pending
<1>2. CASE \/ UNCHANGED iysrVars \/ DropService \/ Close \/ (\E w \in Workers : Fail(w))
           \/ \E t \in Threads : CrateStep(t)
  BY <1>1, <1>2 DEF iysrVars, DropService, Close, Fail, CrateStep
<1>3. CASE MainStep \/ StartHttp \/ StartNotify \/ AwaitCancel \/ HttpCancel
  <2>1. \E t \in {Main, Reaper, Http}, m \in Moves : Transition(t, m[1], m[2])
    BY <1>3 DEF MainStep, Run, WaitReaper, DropReaper, Exit, StartHttp, StartNotify, AwaitCancel,
       HttpCancel, Moves
  <2>2. Moves \cap NotifyMoves = {}
    BY DEF Moves, NotifyMoves
  <2> QED
    BY <1>0, <2>1, <2>2, MoveKeeps
<1>4. CASE Connect \/ Tick
  <2>1. \E m \in NotifyMoves : Transition(Notify, m[1], m[2])
    BY <1>4 DEF Connect, Tick, NotifyMoves
  <2> QED
    BY <1>0, <2>1, MoveKeeps
<1>5. CASE Load
  <2>1. /\ at[Main] = "load" /\ doc' = None /\ UNCHANGED <<made, queue, id, shown, nextId, trouble>>
        /\ \E l \in {"run", "exit"} : at' = [at EXCEPT ![Main] = l]
    BY <1>5 DEF Load, At, Goto, notifyVars
  <2>2. at'[Notify] = at[Notify]
    BY <1>0, <2>1
  <2>3. IysrTypeOK'
    BY <2>1 DEF ScreenInv, IysrTypeOK
  <2> QED
    BY <2>1, <2>2, <2>3 DEF ScreenInv, Pending
<1>6. CASE Publish
  <2>1. /\ made' = made + 1 /\ made < MaxUpdates
        /\ queue' \in Seq({"Snapshot", "Partial"}) /\ Len(queue') = Len(queue) + 1
        /\ Len(queue) < QueueCap
        /\ UNCHANGED <<at, doc, id, shown, nextId, trouble>>
    BY <1>6, AppendFacts DEF Publish, startVars, ScreenInv, IysrTypeOK
  <2>2. IysrTypeOK'
    BY <2>1 DEF ScreenInv, IysrTypeOK
  <2>3. Pending' = Pending /\ Pending \in Nat
    BY <2>1 DEF Pending
  <2>4. (nextId + Len(queue) + Pending <= made + 1)'
    BY <2>1, <2>3 DEF ScreenInv, IysrTypeOK
  <2> QED
    BY <2>1, <2>2, <2>4 DEF ScreenInv
<1>7. CASE Dismiss
  <2>1. shown' \subseteq shown /\ UNCHANGED <<at, doc, made, queue, id, nextId, trouble>>
    BY <1>7 DEF Dismiss, startVars
  <2>2. IysrTypeOK'
    BY <2>1 DEF ScreenInv, IysrTypeOK
  <2> QED
    BY <2>1, <2>2 DEF ScreenInv, Pending
<1>8. CASE Receive
  <2>1. /\ queue # <<>> /\ queue' \in Seq({"Snapshot", "Partial"}) /\ Len(queue') = Len(queue) - 1
        /\ Len(queue) \in Nat
    BY <1>8, HeadTailProperties DEF Receive, ScreenInv, IysrTypeOK
  <2>2. /\ UNCHANGED <<doc, made, id, shown, nextId, trouble>>
        /\ \E l \in {"status", "event"} : at' = [at EXCEPT ![Notify] = l] /\ at'[Notify] = l
    BY <1>0, <1>8 DEF Receive, Goto, ScreenInv, IysrTypeOK
  <2>3. at[Notify] = "recv"
    BY <1>8 DEF Receive, At
  <2>4. IysrTypeOK'
    BY <1>0, <2>1, <2>2, <2>3 DEF ScreenInv, IysrTypeOK
  <2>5. Pending' = 1 /\ Pending = 0
    BY <2>2, <2>3 DEF Pending
  <2> QED
    BY <2>1, <2>2, <2>4, <2>5 DEF ScreenInv, IysrTypeOK
<1>9. CASE Hide
  <2>1. /\ at' = [at EXCEPT ![Notify] = "fail"] /\ at'[Notify] = "fail" /\ at[Notify] = "hide"
        /\ UNCHANGED <<doc, made, queue, nextId>>
        /\ id' \in {0, id} /\ shown' \subseteq shown
        /\ trouble' = TRUE \/ trouble' = trouble
    BY <1>0, <1>9 DEF Hide, Goto, At, ScreenInv, IysrTypeOK
  <2>1a. trouble' \in BOOLEAN
    <3>1. CASE trouble' = TRUE
      BY <3>1
    <3>2. CASE trouble' = trouble
      BY <3>2 DEF ScreenInv, IysrTypeOK
    <3> QED
      BY <2>1, <3>1, <3>2
  <2>2. IysrTypeOK'
    BY <1>0, <2>1, <2>1a DEF ScreenInv, IysrTypeOK
  <2>3. id' < nextId' /\ Pending' = 0 /\ Pending = 0
    BY <2>1 DEF ScreenInv, IysrTypeOK, Pending
  <2>4. trouble' \/ \A n \in shown' : n[2] # "status"
    <3>1. CASE shown' = {n \in shown : n[1] # id} /\ UNCHANGED trouble
      BY <3>1 DEF ScreenInv
    <3>2. CASE trouble' = TRUE
      BY <3>2
    <3> QED
      BY <1>9, <3>1, <3>2 DEF Hide
  <2> QED
    BY <2>1, <2>2, <2>3, <2>4 DEF ScreenInv, IysrTypeOK
<1>10. ASSUME NEW t \in Threads, ThreadStep(t)
       PROVE  ScreenInv'
  <2>1. CASE CrateStep(t)
    BY <1>2, <2>1
  <2>2. CASE MainStep
    BY <1>3, <2>2
  <2>3. CASE ReaperStep
    <3>1. CASE DropMonitor
      <4>1. /\ at' = [at EXCEPT ![Reaper] = "held"]
            /\ UNCHANGED <<doc, made, queue, id, shown, nextId, trouble>>
        BY <3>1 DEF DropMonitor, Goto, notifyVars
      <4>2. IysrTypeOK' /\ at'[Main] = at[Main] /\ at'[Notify] = at[Notify]
        BY <1>0, <4>1 DEF ScreenInv, IysrTypeOK
      <4> QED
        BY <4>1, <4>2 DEF ScreenInv, Pending
    <3> QED
      BY <1>0, <1>2, <1>3, <2>3, <3>1 DEF ReaperStep
  <2>4. CASE HttpStep
    BY <1>2, <1>3, <2>4 DEF HttpStep
  <2>5. CASE NotifyStep
    BY <1>0, <1>2, <1>4, <1>8, <1>9, <2>5, StatusKeeps, EventKeeps DEF NotifyStep
  <2> QED
    BY <1>10, <2>1, <2>2, <2>3, <2>4, <2>5 DEF ThreadStep
<1> QED
  BY <1>2, <1>5, <1>6, <1>7, <1>10 DEF IysrNext

LEMMA Screening == IysrSpec => []ScreenInv
<1>1. IysrInit => ScreenInv
  <2> SUFFICES ASSUME IysrInit
               PROVE  ScreenInv
    OBVIOUS
  <2> USE IysrAssumption, WorkerAssumption DEF IysrInit, Threads
  <2>1. at[Main] = "load" /\ at[Notify] = "subscribe"
    OBVIOUS
  <2>2. queue \in Seq({"Snapshot", "Partial"}) /\ Len(queue) = 0
    OBVIOUS
  <2>2a. at \in [Threads -> {"load", "http", "await", "subscribe"}]
    OBVIOUS
  <2>2b. Len(queue) <= QueueCap /\ id \in 0..MaxUpdates /\ nextId \in 1..(MaxUpdates + 1)
    BY <2>2
  <2>3. IysrTypeOK
    BY <2>1, <2>2, <2>2a, <2>2b DEF IysrTypeOK
  <2>4. Pending = 0
    BY <2>1 DEF Pending
  <2> QED
    BY <2>1, <2>2, <2>3, <2>4 DEF ScreenInv
<1>2. ScreenInv /\ [IysrNext]_iysrVars => ScreenInv'
  BY ScreenStep
<1> QED
  BY <1>1, <1>2, PTL DEF IysrSpec

\* Every variable of the program keeps its type, and the queue its bound.
THEOREM IysrTypes == IysrSpec => []IysrTypeOK
BY Screening, PTL DEF ScreenInv

\* There is at most one status on the screen, also if the user closes it and
\* whichever calls fail, unless the reply to the first show() was lost or had no
\* id in it.
THEOREM OneStatusShown == IysrSpec => []OneStatus
<1>1. ScreenInv => OneStatus
  <2> SUFFICES ASSUME ScreenInv, ~trouble, NEW m \in shown, NEW n \in shown,
                      m[2] = "status", n[2] = "status"
               PROVE  m = n
    BY DEF OneStatus
  <2>1. m[1] = n[1] /\ m[2] = n[2]
    BY DEF ScreenInv
  <2>2. m = <<m[1], m[2]>> /\ n = <<n[1], n[2]>>
    BY DEF ScreenInv, IysrTypeOK
  <2> QED
    BY <2>1, <2>2
<1> QED
  BY <1>1, Screening, PTL

-----------------------------------------------------------------------------
(* Who keeps the services.                                                 *)

\* main keeps the reaper from its spawn to the drop of its Worker, the reaper
\* alone keeps the services, main calls the crate for that wait() and that drop
\* only, and the notification service never does: when it is over, it has failed.
Kept ==
  /\ owner[Reaper] \in {NoOne, Main}
  /\ owner[Http] \in {NoOne, Reaper} /\ owner[Notify] \in {NoOne, Reaper}
  /\ pc[Main] # "body" => \/ at[Main] = "drop" /\ ~dropping[Main]
                          \/ at[Main] = "return" /\ dropping[Main]
  /\ pc[Main] = "body" /\ at[Main] \in {"load", "run", "return", "exit"} => owner[Reaper] = NoOne
  /\ pc[Notify] \in {"unborn", "body"} \cup Over
  /\ pc[Notify] = "unborn" => at[Notify] = "subscribe"
  /\ pc[Notify] \in Over => at[Notify] = "fail"

KeptInv == NoDetach /\ Kept

\* A step inside the crate keeps it.
LEMMA CrateKeeps ==
  ASSUME TypeOK, CallInv, KeptInv, NEW t \in Threads, CrateStep(t)
  PROVE  KeptInv'
<1> USE IysrAssumption, WorkerAssumption DEF Threads
<1>0. UNCHANGED at /\ Main \in Threads /\ Notify # Main /\ Notify \in Threads
  BY DEF CrateStep, programVars, startVars
<1>1. CASE t \in Workers /\ Epilogue(t)
  <2>1. /\ UNCHANGED <<owner, dropping, detached>>
        /\ \A u \in Threads \ {t} : pc'[u] = pc[u]
        /\ pc'[t] \in Over /\ pc[t] \in Over
    BY <1>1, EpilogueStays DEF TypeOK
  <2>2. NoDetach'
    BY <2>1 DEF KeptInv, NoDetach, Over, Dropping
  <2>3. Kept'
    BY <1>0, <1>1, <2>1 DEF KeptInv, Kept, Over
  <2> QED
    BY <2>2, <2>3 DEF KeptInv
<1>2. CASE Proceed(t)
  <2>1. CallStays(t)
    BY <1>2, CallProgress DEF KeptInv
  <2>2. arg[t] \in Workers /\ owner[arg[t]] = t
    BY <2>1 DEF CallStays, CallInv
  <2>3. /\ t = Main => arg[t] = Reaper /\ pc[Main] # "body"
        /\ t # Notify
    BY <2>1, <2>2 DEF CallStays, InCall, KeptInv, Kept, Over
  <2>3a. pc'[Notify] = pc[Notify]
    BY <1>0, <2>1, <2>3 DEF CallStays
  <2>4. CASE GoesOn(t)
    <3>1. NoDetach'
      BY <2>1, <2>4 DEF CallStays, GoesOn, KeptInv, NoDetach
    <3>2. Kept'
      BY <1>0, <2>1, <2>3, <2>3a, <2>4 DEF CallStays, GoesOn, KeptInv, Kept, InCall
    <3> QED
      BY <3>1, <3>2 DEF KeptInv
  <2>5. CASE ComesBack(t)
    <3>1. NoDetach'
      BY <2>1, <2>5 DEF CallStays, ComesBack, KeptInv, NoDetach
    <3>2. t = Main => at[Main] = "drop"
      BY <2>3, <2>5 DEF ComesBack, KeptInv, Kept
    <3>3. Kept'
      BY <1>0, <2>1, <2>3a, <2>5, <3>2 DEF CallStays, ComesBack, KeptInv, Kept
    <3> QED
      BY <3>1, <3>3 DEF KeptInv
  <2>6. CASE LetsGo(t)
    <3>1. /\ \A w \in Workers : owner'[w] = IF w = arg[t] THEN NoOne ELSE owner[w]
          /\ \A u \in Threads : dropping'[u] = IF u = t THEN FALSE ELSE dropping[u]
      BY <2>6 DEF LetsGo, TypeOK, ThreadTypes
    <3>2. pc'[t] \in {"body", "unwind"} /\ (t = Main => pc'[t] = "body")
      BY <2>6 DEF LetsGo, Home, Unwinding
    <3>3. NoDetach'
      BY <2>1, <3>1, <3>2 DEF CallStays, KeptInv, NoDetach
    <3>4. Kept'
      <4>1. CASE t = Main
        BY <1>0, <2>3, <2>3a, <3>1, <3>2, <4>1 DEF KeptInv, Kept
      <4>2. CASE t # Main
        BY <1>0, <2>1, <2>3a, <3>1, <4>2 DEF CallStays, KeptInv, Kept
      <4> QED
        BY <4>1, <4>2
    <3> QED
      BY <3>3, <3>4 DEF KeptInv
  <2> QED
    BY <2>1, <2>4, <2>5, <2>6 DEF CallStays
<1> QED
  BY <1>1, <1>2 DEF CrateStep

\* So does a spawn linked to the reaper.
LEMMA SpawnKeeps ==
  ASSUME TypeOK, IysrTypeOK, KeptInv, NEW w \in {Http, Notify}, NEW l \in {"notify", "await"},
         NEW k \in {"http", "notify"}, Transition(Reaper, k, l), Spawn(Reaper, Reaper, w)
  PROVE  KeptInv'
<1> USE IysrAssumption, WorkerAssumption DEF Threads
<1>1. /\ pc[Reaper] = "body" /\ pc[w] = "unborn" /\ Reaper # w /\ Reaper # Main /\ w # Main
      /\ pc' = [pc EXCEPT ![w] = "body", ![Reaper] = "attachLock"]
      /\ owner' = [owner EXCEPT ![w] = Reaper]
      /\ UNCHANGED <<dropping, detached>>
    BY DEF Spawn, Transition, At
<1>2. /\ pc'[w] = "body" /\ pc'[Reaper] = "attachLock" /\ pc'[Main] = pc[Main]
      /\ \A u \in Threads \ {w, Reaper} : pc'[u] = pc[u]
      /\ owner'[Reaper] = owner[Reaper] /\ owner'[w] = Reaper
      /\ \A u \in Workers \ {w} : owner'[u] = owner[u]
  BY <1>1 DEF TypeOK, ThreadTypes
<1>3. at'[Main] = at[Main] /\ at'[Notify] = at[Notify]
  BY <1>1 DEF Transition, Goto, IysrTypeOK
<1>4. NoDetach'
  BY <1>1, <1>2 DEF KeptInv, NoDetach, Dropping
<1>5. Kept'
  BY <1>1, <1>2, <1>3 DEF KeptInv, Kept, Over
<1> QED
  BY <1>4, <1>5 DEF KeptInv

\* And the end of a work function.
LEMMA EndKeeps ==
  ASSUME TypeOK, KeptInv, NEW w \in Workers, NEW o, EndWork(w, o), UNCHANGED at,
         w = Notify => at[Notify] = "fail"
  PROVE  KeptInv'
<1> USE IysrAssumption, WorkerAssumption DEF Threads
<1>1. /\ pc[w] = "body" /\ w # Main
      /\ pc' = [pc EXCEPT ![w] = "unwind"]
      /\ UNCHANGED <<owner, dropping, detached, at>>
  BY DEF EndWork, sharedVars
<1>2. pc'[w] = "unwind" /\ \A u \in Threads \ {w} : pc'[u] = pc[u]
  BY <1>1 DEF TypeOK, ThreadTypes
<1>3. NoDetach'
  BY <1>1, <1>2 DEF KeptInv, NoDetach, Dropping
<1>4. Kept'
  BY <1>1, <1>2 DEF KeptInv, Kept, Over
<1> QED
  BY <1>3, <1>4 DEF KeptInv

\* So does a step of main.
LEMMA MainKeeps ==
  ASSUME TypeOK, CallInv, IysrTypeOK, KeptInv, MainStep
  PROVE  KeptInv'
<1> USE IysrAssumption, WorkerAssumption DEF Threads
<1>0. Main \in Threads /\ Reaper # Main /\ Notify # Main /\ Reaper \in Workers /\ {Http, Notify} \subseteq Workers
  OBVIOUS
<1>1. pc[Main] = "body" /\ ~dropping[Main] /\ at'[Notify] = at[Notify]
  <2>1. pc[Main] = "body" /\ at'[Notify] = at[Notify]
    BY <1>0 DEF MainStep, Run, WaitReaper, DropReaper, Exit, Transition, At, Goto, IysrTypeOK
  <2> QED
    BY <1>0, <2>1 DEF KeptInv, NoDetach, Dropping
<1>2. CASE UNCHANGED vars /\ at'[Main] \in {"run", "exit"} /\ at[Main] \in {"run", "return"}
  BY <1>1, <1>2 DEF vars, threadVars, sharedVars, KeptInv, NoDetach, Kept
<1>3. CASE Transition(Main, "run", "wait") /\ Spawn(Main, NoOne, Reaper)
  <2>1. /\ pc' = [pc EXCEPT ![Reaper] = "body", ![Main] = "body"]
        /\ owner' = [owner EXCEPT ![Reaper] = Main]
        /\ UNCHANGED <<dropping, detached>> /\ at'[Main] = "wait"
    BY <1>0, <1>3 DEF Spawn, Transition, Goto, IysrTypeOK
  <2>1a. pc[Reaper] = "unborn"
    BY <1>3 DEF Spawn
  <2>2. /\ pc'[Reaper] = "body" /\ pc'[Main] = "body"
        /\ \A u \in Threads \ {Reaper, Main} : pc'[u] = pc[u]
        /\ owner'[Reaper] = Main /\ \A u \in Workers \ {Reaper} : owner'[u] = owner[u]
    BY <1>0, <2>1 DEF TypeOK, ThreadTypes
  <2>3. NoDetach'
    BY <1>1, <2>1, <2>1a, <2>2 DEF KeptInv, NoDetach, Dropping
  <2>4. Kept'
    BY <1>0, <1>1, <2>1, <2>2 DEF KeptInv, Kept
  <2> QED
    BY <2>3, <2>4 DEF KeptInv
<1>4. CASE WaitReaper
  <2>1. /\ pc' = [pc EXCEPT ![Main] = "waitLock"]
        /\ UNCHANGED <<owner, dropping, detached>> /\ at'[Main] = "drop"
    BY <1>0, <1>4 DEF WaitReaper, Call, Entry, Transition, Goto, IysrTypeOK, sharedVars
  <2>2. pc'[Main] = "waitLock" /\ \A u \in Threads \ {Main} : pc'[u] = pc[u]
    BY <1>0, <2>1 DEF TypeOK, ThreadTypes
  <2>3. NoDetach'
    BY <1>1, <2>1, <2>2 DEF KeptInv, NoDetach
  <2>4. Kept'
    BY <1>0, <1>1, <2>1, <2>2 DEF KeptInv, Kept
  <2> QED
    BY <2>3, <2>4 DEF KeptInv
<1>5. CASE DropReaper
  <2>1. /\ pc' = [pc EXCEPT ![Main] = "dropCheck"] /\ dropping' = [dropping EXCEPT ![Main] = TRUE]
        /\ UNCHANGED <<owner, detached>> /\ at'[Main] = "return"
    BY <1>0, <1>5 DEF DropReaper, Drop, Transition, Goto, IysrTypeOK, sharedVars
  <2>2. /\ pc'[Main] = "dropCheck" /\ dropping'[Main]
        /\ \A u \in Threads \ {Main} : pc'[u] = pc[u] /\ dropping'[u] = dropping[u]
    BY <1>0, <2>1 DEF TypeOK, ThreadTypes
  <2>3. NoDetach'
    BY <2>1, <2>2 DEF KeptInv, NoDetach, Dropping
  <2>4. Kept'
    BY <1>0, <1>1, <2>1, <2>2 DEF KeptInv, Kept
  <2> QED
    BY <2>3, <2>4 DEF KeptInv
<1> QED
  <2>1. at \in [Threads -> {at[t] : t \in Threads}]
    BY DEF IysrTypeOK
  <2>2. CASE Transition(Main, "run", "exit") /\ UNCHANGED vars
    BY <1>0, <1>2, <2>1, <2>2 DEF Transition, At, Goto
  <2>3. CASE Exit
    BY <1>0, <1>2, <2>1, <2>3 DEF Exit, Transition, At, Goto
  <2> QED
    BY <1>3, <1>4, <1>5, <2>2, <2>3 DEF MainStep, Run

\* Every step keeps it.
LEMMA KeptStep ==
  ASSUME TypeOK, CallInv, IysrTypeOK, KeptInv, [IysrNext]_iysrVars
  PROVE  KeptInv'
<1> USE IysrAssumption, WorkerAssumption DEF Threads
<1>0. /\ Reaper # Main /\ Http # Main /\ Notify # Main /\ Main \in Threads
      /\ {Reaper, Http, Notify} \subseteq Workers
  OBVIOUS
<1>1. ASSUME UNCHANGED <<pc, dropping, owner, detached>>,
             \/ at'[Main] = at[Main]
             \/ at[Main] = "load" /\ at'[Main] \in {"run", "exit"},
             at'[Notify] = at[Notify] \/ pc[Notify] = "body"
      PROVE  KeptInv'
  BY <1>1 DEF KeptInv, NoDetach, Kept, Over
<1>2. CASE UNCHANGED iysrVars
  BY <1>1, <1>2 DEF iysrVars, programVars, startVars, vars, threadVars, sharedVars
<1>3. CASE Load
  BY <1>0, <1>1, <1>3 DEF Load, At, Goto, IysrTypeOK, vars, threadVars, sharedVars
<1>4. CASE Publish \/ Dismiss
  BY <1>1, <1>4 DEF Publish, Dismiss, startVars, vars, threadVars, sharedVars
<1>5. ASSUME NEW w \in {Reaper, Http, Notify}, NEW l, NEW m, Transition(w, l, m),
             UNCHANGED <<pc, dropping, owner, detached>>
      PROVE  KeptInv'
  <2>1. at'[Main] = at[Main] /\ (at'[Notify] = at[Notify] \/ w = Notify)
    BY <1>0, <1>5 DEF Transition, Goto, IysrTypeOK
  <2> QED
    BY <1>1, <1>5, <2>1 DEF Transition, At
<1>6. CASE ReaperStep
  <2>1. CASE StartHttp
    <3>1. CASE Transition(Reaper, "http", "notify") /\ Spawn(Reaper, Reaper, Http)
      BY <3>1, SpawnKeeps
    <3>2. CASE Transition(Reaper, "http", "fail") /\ UNCHANGED vars
      BY <1>5, <3>2 DEF vars, threadVars, sharedVars
    <3> QED
      BY <2>1, <3>1, <3>2 DEF StartHttp
  <2>2. CASE StartNotify
    <3>1. CASE Transition(Reaper, "notify", "await") /\ Spawn(Reaper, Reaper, Notify)
      BY <3>1, SpawnKeeps
    <3>2. CASE Transition(Reaper, "notify", "fail") /\ UNCHANGED vars
      BY <1>5, <3>2 DEF vars, threadVars, sharedVars
    <3> QED
      BY <2>2, <3>1, <3>2 DEF StartNotify
  <2>3. CASE AwaitCancel
    BY <1>5, <2>3 DEF AwaitCancel, ObserveCancel, threadVars, sharedVars
  <2>4. CASE Fail(Reaper)
    BY <1>0, <2>4, EndKeeps DEF Fail, programVars, startVars
  <2>5. CASE DropService
    <3>1. /\ pc[Reaper] \in {"body", "unwind"} /\ UNCHANGED <<at, owner, detached>>
          /\ pc' = [pc EXCEPT ![Reaper] = "dropCheck"]
          /\ dropping' = [dropping EXCEPT ![Reaper] = TRUE]
      BY <2>5 DEF DropService, Drop, programVars, startVars, sharedVars
    <3>2. /\ pc'[Reaper] = "dropCheck" /\ dropping'[Reaper]
          /\ \A u \in Threads \ {Reaper} : pc'[u] = pc[u] /\ dropping'[u] = dropping[u]
      BY <1>0, <3>1 DEF TypeOK, ThreadTypes
    <3>3. NoDetach'
      BY <3>1, <3>2 DEF KeptInv, NoDetach, Dropping
    <3>4. Kept'
      BY <1>0, <3>1, <3>2 DEF KeptInv, Kept
    <3> QED
      BY <3>3, <3>4 DEF KeptInv
  <2>6. CASE DropMonitor
    <3>1. at'[Main] = at[Main] /\ at'[Notify] = at[Notify]
      BY <1>0, <2>6 DEF DropMonitor, Goto, IysrTypeOK
    <3> QED
      BY <1>1, <2>6, <3>1 DEF DropMonitor, vars, threadVars, sharedVars
  <2> QED
    BY <1>6, <2>1, <2>2, <2>3, <2>4, <2>5, <2>6 DEF ReaperStep
<1>7. CASE HttpStep
  <2>1. CASE HttpCancel
    BY <1>5, <2>1 DEF HttpCancel, ObserveCancel, threadVars, sharedVars
  <2>2. CASE Close
    BY <1>0, <2>2, EndKeeps DEF Close, programVars, startVars
  <2> QED
    BY <1>7, <2>1, <2>2 DEF HttpStep
<1>8. CASE NotifyStep
  <2>1. CASE Connect
    BY <1>5, <2>1 DEF Connect, vars, threadVars, sharedVars
  <2>2. CASE Tick
    BY <1>5, <2>2 DEF Tick, ObserveCancel, vars, threadVars, sharedVars
  <2>3. CASE Fail(Notify)
    BY <1>0, <2>3, EndKeeps DEF Fail, At, programVars, startVars
  <2>4. CASE Receive \/ ShowStatus \/ ShowEvent \/ Hide
    <3>1. UNCHANGED vars /\ pc[Notify] = "body" /\ \E l : Goto(Notify, l)
      BY <2>4 DEF Receive, ShowStatus, ShowEvent, Hide, Unexpected, CallFails, At
    <3>2. at'[Main] = at[Main]
      BY <1>0, <3>1 DEF Goto, IysrTypeOK
    <3> QED
      BY <1>1, <3>1, <3>2 DEF vars, threadVars, sharedVars
  <2> QED
    BY <1>8, <2>1, <2>2, <2>3, <2>4 DEF NotifyStep
<1>9. ASSUME NEW t \in Threads, ThreadStep(t)
      PROVE  KeptInv'
  BY <1>6, <1>7, <1>8, <1>9, CrateKeeps, MainKeeps DEF ThreadStep
<1> QED
  BY <1>2, <1>3, <1>4, <1>9 DEF IysrNext

LEMMA Keeping == IysrSpec => []KeptInv
<1>1. IysrInit => KeptInv
  BY IysrAssumption, WorkerAssumption DEF IysrInit, Init, KeptInv, NoDetach, Kept, Over, Threads
<1>2. TypeOK /\ CallInv /\ IysrTypeOK /\ KeptInv /\ [IysrNext]_iysrVars => KeptInv'
  BY KeptStep
<1> QED
  BY <1>1, <1>2, Typing, ProgramOfWorkers, IysrTypes, PTL DEF IysrSpec

\* The process exits only when the reaper, and with it each service, is over.
THEOREM ExitsClean == IysrSpec => []CleanExit
<1>1. NoOrphans /\ KeptInv => CleanExit
  <2> SUFFICES ASSUME NoOrphans, KeptInv, at[Main] = "exit"
               PROVE  \A w \in Workers : ~Receiving(w)
    BY DEF CleanExit
  <2> USE IysrAssumption, WorkerAssumption DEF Threads
  <2>1. owner[Reaper] = NoOne
    BY DEF KeptInv, Kept
  <2>2. ~Receiving(Reaper)
    BY <2>1, Unkept DEF KeptInv
  <2>3. ASSUME NEW w \in {Http, Notify}
        PROVE  ~Receiving(w)
    <3>1. CASE owner[w] = NoOne
      BY <3>1, Unkept DEF KeptInv
    <3>2. CASE owner[w] = Reaper
      BY <2>2, <3>2 DEF NoOrphans
    <3> QED
      BY <3>1, <3>2 DEF KeptInv, Kept
  <2> QED
    BY <2>2, <2>3
<1> QED
  BY <1>1, Structured, ProgramOfWorkers, Keeping, PTL

\* No status stays on the screen once its service is over or main has exited,
\* unless the daemon refuses to close it or has not told its id.
THEOREM StatusHidden == IysrSpec => []HiddenAtEnd
<1>1. ScreenInv /\ KeptInv /\ CleanExit => HiddenAtEnd
  <2> SUFFICES ASSUME ScreenInv, KeptInv, CleanExit, at[Notify] = "fail" \/ at[Main] = "exit"
               PROVE  trouble \/ \A n \in shown : n[2] # "status"
    BY DEF HiddenAtEnd
  <2>1. CASE at[Notify] = "fail"
    BY <2>1 DEF ScreenInv
  <2>2. CASE at[Main] = "exit"
    <3>1. ~Receiving(Notify)
      BY <2>2, IysrAssumption DEF CleanExit
    <3>2. pc[Notify] # "body"
      BY <3>1 DEF Receiving
    <3>3. CASE pc[Notify] = "unborn"
      BY <3>3 DEF KeptInv, Kept, ScreenInv
    <3>4. CASE pc[Notify] \in Over
      BY <2>1, <3>4 DEF KeptInv, Kept
    <3> QED
      BY <3>2, <3>3, <3>4 DEF KeptInv, Kept
  <2> QED
    BY <2>1, <2>2
<1> QED
  BY <1>1, Screening, Keeping, ExitsClean, PTL

=============================================================================
