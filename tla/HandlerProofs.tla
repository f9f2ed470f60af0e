----------------------------- MODULE HandlerProofs -----------------------------
(***************************************************************************)
(* Proofs about Handler, for any number of updates and any queue: what      *)
(* Worker promises holds of the program, and what follows for a request.    *)
(***************************************************************************)
EXTENDS Handler, ScopeProofs

-----------------------------------------------------------------------------
(* The program is one of those that Worker describes.                      *)

\* A step of the program is a step of Worker, or none.
LEMMA StepIsWorkers == HandlerNext => [Next]_vars
<1> SUFFICES ASSUME HandlerNext
             PROVE  Next \/ UNCHANGED vars
  OBVIOUS
<1> USE HandlerAssumption, WorkerAssumption DEF Threads
<1>0. Receiver \in Workers /\ Keepalive \in Workers /\ Main \in Threads /\ NoOne \in Workers \cup {NoOne}
  OBVIOUS
<1>1. ASSUME NEW t \in Threads, CrateStep(t)
      PROVE  Next
  BY <1>1 DEF CrateStep, Next
<1>2. ASSUME Publish \/ Disconnect \/ Subscribe
      PROVE  UNCHANGED vars
  BY <1>2 DEF Publish, Disconnect, Subscribe
<1>3. CASE ServeStep
  <2>1. CASE Start \/ DropReceiver
    BY <1>0, <2>1 DEF Start, DropReceiver, Next, UserCall
  <2>2. CASE Take \/ HangUp \/ Write \/ WriteLost \/ WriteFails \/ Report
    BY <2>2 DEF Take, HangUp, Write, WriteLost, WriteFails, Report
  <2> QED
    BY <1>3, <2>1, <2>2 DEF ServeStep
<1>4. ASSUME NEW w \in Workers, Tick(w) \/ Offer(w) \/ Fail(w)
      PROVE  Next \/ UNCHANGED vars
  BY <1>4 DEF Tick, Offer, Fail, Next
<1>5. CASE ReceiverStep
  <2>1. CASE SpawnKeepalive \/ DropKeepalive
    BY <1>0, <2>1 DEF SpawnKeepalive, DropKeepalive, Next, UserCall
  <2>2. CASE Receive
    BY <2>2 DEF Receive
  <2> QED
    BY <1>0, <1>4, <1>5, <2>1, <2>2 DEF ReceiverStep
<1>6. CASE KeepaliveStep
  BY <1>0, <1>4, <1>6 DEF KeepaliveStep, Wake
<1> QED
  BY <1>1, <1>2, <1>3, <1>5, <1>6 DEF HandlerNext

\* The program implements Worker.
LEMMA ProgramOfWorkers == HandlerSpec => Spec
<1>1. HandlerInit => Init
  BY DEF HandlerInit
<1>2. [HandlerNext]_handlerVars => [Next]_vars
  BY StepIsWorkers DEF handlerVars
<1> QED
  BY <1>1, <1>2, PTL DEF HandlerSpec, Spec

-----------------------------------------------------------------------------
(* Types, and where an update in somebody's hands is.                      *)

\* The receiver worker has an update while it sends one, the handler while it
\* writes one to a client that is there.
Placed ==
  /\ at[Receiver] \in {"spawn", "recv"} => holds[Receiver] = 0
  /\ at[Receiver] \in {"tick", "send", "sending"} => holds[Receiver] # 0
  /\ holds[Keepalive] = 0
  /\ at[Main] = "emit" => holds[Main] # 0
  /\ peer /\ at[Main] # "emit" => holds[Main] = 0

\* Who stands in line for the handler is in send(), and stands there once.
InLine ==
  /\ \A i \in 1..Len(offers) : at[offers[i]] = "sending"
  /\ \A i, j \in 1..Len(offers) : offers[i] = offers[j] => i = j

HandInv == HandlerTypeOK /\ Placed /\ InLine

\* The places where one step of the code takes a thread.
Moves == {<<"subscribe", "start">>, <<"subscribe", "report">>, <<"start", "recv">>,
          <<"start", "report">>, <<"recv", "drop">>, <<"drop", "report">>,
          <<"report", "done">>, <<"sleep", "tick">>, <<"spawn", "recv">>, <<"spawn", "fail">>,
          <<"tick", "send">>, <<"tick", "fail">>}

\* A step that only moves a thread keeps the invariant.
LEMMA MoveKeeps ==
  ASSUME HandInv, NEW t \in Threads, NEW m \in Moves, Transition(t, m[1], m[2]),
         t = Receiver => m[1] \in {"spawn", "tick"},
         t # Receiver => m[1] # "spawn"
  PROVE  HandInv'
<1> USE HandlerAssumption, WorkerAssumption DEF HandInv, Threads
<1>1. /\ at[t] = m[1]
      /\ at' = [at EXCEPT ![t] = m[2]]
      /\ UNCHANGED <<queued, queue, holds, offers, peer, stream>>
  BY DEF Transition, At, Goto
<1>2. m[1] # "sending" /\ m[1] # "emit" /\ m[2] \notin {"emit", "sending"}
  BY DEF Moves
<1>3. HandlerTypeOK'
  BY <1>1 DEF HandlerTypeOK, Moves
<1>4. Placed'
  BY <1>1, <1>2 DEF Placed, Moves, HandlerTypeOK
<1>5. InLine'
  BY <1>1, <1>2 DEF InLine, HandlerTypeOK
<1> QED
  BY <1>3, <1>4, <1>5

\* Every step keeps the types and the places.
LEMMA HandStep ==
  ASSUME HandInv, [HandlerNext]_handlerVars
  PROVE  HandInv'
<1> USE HandlerAssumption, WorkerAssumption DEF Threads
<1>0. Receiver \in Threads /\ Keepalive \in Threads /\ Main \in Threads
  OBVIOUS
<1>a. ASSUME UNCHANGED programVars
      PROVE  HandInv'
  BY <1>a DEF programVars, HandInv, HandlerTypeOK, Placed, InLine
<1>b. CASE UNCHANGED handlerVars \/ DropKeepalive \/ (\E w \in Workers : Fail(w)) \/ (\E t \in Threads : CrateStep(t))
  BY <1>a, <1>b DEF handlerVars, DropKeepalive, Fail, CrateStep
<1>c. CASE Subscribe \/ Start \/ HangUp \/ DropReceiver \/ Report
  <2>1. \E m \in Moves : Transition(Main, m[1], m[2]) /\ m[1] # "spawn"
    BY <1>c DEF Subscribe, Start, HangUp, DropReceiver, Report, Moves
  <2> QED
    BY <1>0, <2>1, MoveKeeps
<1>d. CASE SpawnKeepalive
  <2>1. \E m \in Moves : Transition(Receiver, m[1], m[2]) /\ m[1] = "spawn"
    BY <1>d DEF SpawnKeepalive, Moves
  <2> QED
    BY <1>0, <2>1, MoveKeeps
<1>e. CASE Wake
  <2>1. \E m \in Moves : Transition(Keepalive, m[1], m[2]) /\ m[1] # "spawn"
    BY <1>e DEF Wake, Moves
  <2> QED
    BY <1>0, <2>1, MoveKeeps
<1>f. ASSUME NEW w \in Workers, Tick(w)
      PROVE  HandInv'
  <2>1. \E m \in Moves : Transition(w, m[1], m[2]) /\ m[1] = "tick"
    BY <1>f DEF Tick, Moves
  <2> QED
    BY <1>0, <2>1, MoveKeeps
<1> USE DEF HandInv, HandlerTypeOK, At, Goto
<1>1. CASE Publish
  BY <1>1, AppendFacts DEF Publish, Placed, InLine
<1>2. CASE Disconnect
  <2>1. ~peer' /\ UNCHANGED <<at, queued, queue, holds, offers, stream>>
    BY <1>2 DEF Disconnect
  <2>2. InLine'
    BY <2>1 DEF InLine
  <2>3. Placed'
    BY <2>1 DEF Placed
  <2>4. HandlerTypeOK'
    BY <1>2, <2>1 DEF Disconnect
  <2> QED
    BY <2>2, <2>3, <2>4
<1>3. CASE Take
  <2> DEFINE t == Head(offers)
             next == IF t = Receiver THEN "emit" ELSE "keepalive"
             again == IF t = Receiver THEN "recv" ELSE "sleep"
  <2>1. /\ offers # <<>> /\ offers \in Seq(Workers)
        /\ t \in Workers /\ t = offers[1] /\ t # Main
        /\ Tail(offers) \in Seq(Workers)
        /\ Len(Tail(offers)) = Len(offers) - 1 /\ Len(offers) \in Nat
        /\ \A i \in 1..Len(Tail(offers)) : Tail(offers)[i] = offers[i + 1]
    BY <1>3, HeadTailProperties DEF Take
  <2>2. /\ offers' = Tail(offers)
        /\ at' = [at EXCEPT ![Main] = next, ![t] = again]
        /\ holds' = [holds EXCEPT ![Main] = holds[t], ![t] = 0]
        /\ UNCHANGED <<queued, queue, peer, stream>>
    BY <1>3 DEF Take
  <2>3. at[t] = "sending"
    BY <2>1 DEF InLine
  <2>4. next \in {"emit", "keepalive"} /\ again \in {"recv", "sleep"}
    OBVIOUS
  <2>4a. /\ at'[Main] = next /\ at'[t] = again
         /\ holds'[Main] = holds[t] /\ holds'[t] = 0
         /\ \A u \in Threads \ {Main, t} : at'[u] = at[u] /\ holds'[u] = holds[u]
    <3> HIDE DEF next, again, t
    <3> QED
      BY <2>1, <2>2
  <2>5. HandlerTypeOK'
    <3> HIDE DEF next, again, t
    <3>1. at' \in [Threads -> {"subscribe", "start", "recv", "emit", "keepalive", "drop", "report",
                              "done", "spawn", "tick", "send", "sending", "fail", "sleep"}]
      BY <2>2, <2>4
    <3>2. holds' \in [Threads -> 0..MaxUpdates]
      <4>1. t \in Threads /\ holds[t] \in 0..MaxUpdates /\ 0 \in 0..MaxUpdates
        BY <2>1
      <4>2. holds \in [Threads -> 0..MaxUpdates] /\ holds' = [holds EXCEPT ![Main] = holds[t], ![t] = 0]
        BY <2>2
      <4> HIDE DEF HandInv, HandlerTypeOK
      <4> QED
        BY <4>1, <4>2
    <3> QED
      BY <2>1, <2>2, <3>1, <3>2
  <2>6. Placed'
    <3>1. CASE t = Receiver
      <4>1. holds[Receiver] # 0
        BY <2>3, <3>1 DEF Placed
      <4>2. at'[Main] = "emit" /\ at'[Receiver] = "recv"
        BY <2>4a, <3>1
      <4>3. holds'[Main] # 0 /\ holds'[Receiver] = 0 /\ holds'[Keepalive] = 0
        BY <2>4a, <3>1, <4>1 DEF Placed
      <4> QED
        BY <4>2, <4>3 DEF Placed
    <3>2. CASE t = Keepalive
      <4>1. at'[Main] = "keepalive" /\ at'[Receiver] = at[Receiver]
        BY <2>4a, <3>2
      <4>2. holds'[Main] = 0 /\ holds'[Keepalive] = 0 /\ holds'[Receiver] = holds[Receiver]
        BY <2>4a, <3>2 DEF Placed
      <4> QED
        BY <4>1, <4>2 DEF Placed
    <3> QED
      BY <2>1, <3>1, <3>2
  <2>7. InLine'
    <3>1. \A i \in 1..Len(offers') : offers'[i] = offers[i + 1] /\ i + 1 \in 1..Len(offers) /\ i + 1 # 1
      BY <2>1, <2>2
    <3>2. \A i \in 1..Len(offers') : offers'[i] \in Workers \ {t} /\ at[offers'[i]] = "sending"
      BY <2>1, <3>1 DEF InLine
    <3>3. \A i \in 1..Len(offers') : at'[offers'[i]] = "sending"
      BY <2>4a, <3>2
    <3>4. \A i, j \in 1..Len(offers') : offers'[i] = offers'[j] => i = j
      BY <2>1, <2>2, <3>1 DEF InLine
    <3> QED
      BY <3>3, <3>4 DEF InLine
  <2> QED
    BY <2>5, <2>6, <2>7
<1>4. CASE Write
  <2>1. at[Main] = "emit" => holds[Main] \in 1..MaxUpdates
    BY DEF Placed
  <2>2. stream' \in Seq(1..MaxUpdates)
    BY <1>4, <2>1, AppendFacts DEF Write
  <2> QED
    BY <1>4, <2>2 DEF Write, Placed, InLine
<1>5. CASE WriteLost
  BY <1>5 DEF WriteLost, Placed, InLine
<1>6. CASE WriteFails
  BY <1>6 DEF WriteFails, Placed, InLine
<1>7. CASE Receive
  <2>1. Head(queue) \in 1..MaxUpdates /\ Tail(queue) \in Seq(1..MaxUpdates)
    BY <1>7, HeadTailProperties DEF Receive
  <2>2. /\ at[Receiver] = "recv" /\ at' = [at EXCEPT ![Receiver] = "tick"]
        /\ holds' = [holds EXCEPT ![Receiver] = Head(queue)] /\ queue' = Tail(queue)
        /\ UNCHANGED <<queued, offers, peer, stream>>
    BY <1>7 DEF Receive
  <2>3. HandlerTypeOK'
    BY <2>1, <2>2
  <2>4. Placed'
    BY <2>1, <2>2 DEF Placed
  <2>5. InLine'
    BY <2>2 DEF InLine
  <2> QED
    BY <2>3, <2>4, <2>5
<1>8. ASSUME NEW w \in Workers, Offer(w)
      PROVE  HandInv'
  <2>1. /\ at[w] = "send" /\ at' = [at EXCEPT ![w] = "sending"] /\ offers' = Append(offers, w)
        /\ UNCHANGED <<queued, queue, holds, peer, stream>>
    BY <1>8 DEF Offer
  <2>2. /\ offers' \in Seq(Workers) /\ Len(offers') = Len(offers) + 1 /\ Len(offers) \in Nat
        /\ \A i \in 1..Len(offers) : offers'[i] = offers[i] /\ offers[i] \in Workers
        /\ offers'[Len(offers) + 1] = w
    BY <2>1, AppendFacts
  <2>3. \A i \in 1..Len(offers) : offers[i] # w
    BY <2>1 DEF InLine
  <2>4. \A i \in 1..Len(offers') : i \in 1..Len(offers) \/ i = Len(offers) + 1
    BY <2>2
  <2>5. InLine'
    BY <2>1, <2>2, <2>3, <2>4 DEF InLine
  <2>6. HandlerTypeOK'
    BY <2>1, <2>2
  <2>7. Placed'
    BY <2>1 DEF Placed
  <2> QED
    BY <2>5, <2>6, <2>7
<1> QED
  BY <1>b, <1>c, <1>d, <1>e, <1>f, <1>1, <1>2, <1>3, <1>4, <1>5, <1>6, <1>7, <1>8
     DEF HandlerNext, ServeStep, ReceiverStep, KeepaliveStep

\* It holds at the start.
LEMMA HandInit == HandlerInit => HandInv
BY HandlerAssumption, WorkerAssumption
   DEF HandlerInit, HandInv, HandlerTypeOK, Placed, InLine, Threads

LEMMA Handed == HandlerSpec => []HandInv
<1>1. HandlerInit => HandInv
  BY HandInit
<1>2. HandInv /\ [HandlerNext]_handlerVars => HandInv'
  BY HandStep
<1> QED
  BY <1>1, <1>2, PTL DEF HandlerSpec

\* Every variable of the program keeps its type.
THEOREM HandlerTypes == HandlerSpec => []HandlerTypeOK
BY Handed, PTL DEF HandInv

-----------------------------------------------------------------------------
(* Who keeps the helper threads.                                           *)

\* The handler keeps the receiver worker only between its start and the drop of
\* its Worker, the receiver worker alone keeps the keepalive worker, and the only
\* call of the handler is that drop.
Kept ==
  /\ owner[Receiver] \in {NoOne, Main}
  /\ owner[Keepalive] \in {NoOne, Receiver}
  /\ pc[Main] # "body" => at[Main] = "report" /\ dropping[Main]
  /\ pc[Main] = "body" /\ at[Main] \in {"subscribe", "start", "report", "done"}
       => owner[Receiver] = NoOne

KeptInv == NoDetach /\ Kept

\* A step inside the crate keeps it.
LEMMA CrateKeeps ==
  ASSUME TypeOK, CallInv, KeptInv, NEW t \in Threads, CrateStep(t)
  PROVE  KeptInv'
<1> USE HandlerAssumption, WorkerAssumption DEF Threads
<1>0. UNCHANGED at /\ Main \in Threads
  BY DEF CrateStep, programVars
<1>1. CASE t \in Workers /\ Epilogue(t)
  <2>1. /\ UNCHANGED <<owner, dropping, detached>>
        /\ \A u \in Threads \ {t} : pc'[u] = pc[u]
        /\ pc'[t] \in Over /\ pc[t] \in Over
    BY <1>1, EpilogueStays DEF TypeOK
  <2>2. NoDetach'
    BY <2>1 DEF KeptInv, NoDetach, Over, Dropping
  <2>3. Kept'
    BY <1>0, <1>1, <2>1 DEF KeptInv, Kept
  <2> QED
    BY <2>2, <2>3 DEF KeptInv
<1>2. CASE Proceed(t)
  <2>1. CallStays(t)
    BY <1>2, CallProgress DEF KeptInv
  <2>2. arg[t] \in Workers /\ owner[arg[t]] = t
    BY <2>1 DEF CallStays, CallInv
  <2>3. t = Main => arg[t] = Receiver /\ pc[Main] # "body"
    BY <2>1, <2>2 DEF CallStays, InCall, KeptInv, Kept
  <2>4. CASE GoesOn(t)
    <3>1. NoDetach'
      BY <2>1, <2>4 DEF CallStays, GoesOn, KeptInv, NoDetach
    <3>2. Kept'
      BY <1>0, <2>1, <2>3, <2>4 DEF CallStays, GoesOn, KeptInv, Kept, InCall
    <3> QED
      BY <3>1, <3>2 DEF KeptInv
  <2>5. CASE ComesBack(t)
    <3>1. NoDetach'
      BY <2>1, <2>5 DEF CallStays, ComesBack, KeptInv, NoDetach
    <3>2. t # Main
      BY <2>3, <2>5 DEF ComesBack, KeptInv, Kept
    <3>3. Kept'
      BY <1>0, <2>1, <2>5, <3>2 DEF CallStays, ComesBack, KeptInv, Kept
    <3> QED
      BY <3>1, <3>3 DEF KeptInv
  <2>6. CASE LetsGo(t)
    <3>1. /\ \A w \in Workers : owner'[w] = IF w = arg[t] THEN NoOne ELSE owner[w]
          /\ \A u \in Threads : dropping'[u] = IF u = t THEN FALSE ELSE dropping[u]
      BY <2>6 DEF LetsGo, TypeOK, ThreadTypes
    <3>2. pc'[t] \in {"body", "unwind"} /\ (t = Main => pc'[t] = "body")
      BY <2>6 DEF LetsGo, Home, Unwinding
    <3>3. NoDetach'
      BY <2>1, <3>1, <3>2 DEF CallStays, KeptInv, NoDetach
    <3>4. Kept'
      <4>1. CASE t = Main
        BY <1>0, <2>3, <3>1, <3>2, <4>1 DEF KeptInv, Kept
      <4>2. CASE t # Main
        BY <1>0, <2>1, <3>1, <4>2 DEF CallStays, KeptInv, Kept
      <4> QED
        BY <4>1, <4>2
    <3> QED
      BY <3>3, <3>4 DEF KeptInv
  <2> QED
    BY <2>1, <2>4, <2>5, <2>6 DEF CallStays
<1> QED
  BY <1>1, <1>2 DEF CrateStep

\* So does a step of the program.
LEMMA KeptStep ==
  ASSUME TypeOK, CallInv, HandInv, KeptInv, [HandlerNext]_handlerVars
  PROVE  KeptInv'
<1> USE HandlerAssumption, WorkerAssumption DEF Threads
<1>0. at \in [Threads -> {at[t] : t \in Threads}] /\ Receiver \in Threads /\ Main \in Threads
  BY DEF HandInv, HandlerTypeOK
<1>1. ASSUME UNCHANGED <<pc, dropping, owner, detached>>,
             at'[Main] \in {"subscribe", "start", "report", "done"}
               => at[Main] \in {"subscribe", "start", "report", "done"},
             pc[Main] = "body" \/ at'[Main] = at[Main]
      PROVE  KeptInv'
  BY <1>1 DEF KeptInv, NoDetach, Kept
<1>2. CASE UNCHANGED handlerVars
  BY <1>1, <1>2 DEF handlerVars, vars, programVars
<1>3. CASE Publish \/ Disconnect \/ Subscribe \/ Take \/ HangUp \/ Write \/ WriteLost \/ WriteFails \/ Report
  <2>1. UNCHANGED <<pc, dropping, owner, detached>>
    BY <1>3 DEF Publish, Disconnect, Subscribe, Take, HangUp, Write, WriteLost, WriteFails, Report, vars
  <2>2. CASE Publish \/ Disconnect
    BY <1>1, <2>1, <2>2 DEF Publish, Disconnect
  <2>3. CASE Subscribe \/ HangUp \/ Report
    BY <1>0, <1>1, <2>1, <2>3 DEF Subscribe, HangUp, Report, Transition, At, Goto
  <2>4. CASE Write \/ WriteLost \/ WriteFails
    BY <1>0, <1>1, <2>1, <2>4 DEF Write, WriteLost, WriteFails, At, Goto
  <2>5. CASE Take
    <3>1. pc[Main] = "body" /\ Head(offers) \in Workers
      BY <2>5, HeadTailProperties DEF Take, At, HandInv, HandlerTypeOK
    <3>2. at'[Main] \in {"emit", "keepalive"}
      BY <1>0, <2>5, <3>1 DEF Take
    <3> QED
      BY <1>1, <2>1, <3>1, <3>2
  <2> QED
    BY <1>3, <2>2, <2>3, <2>4, <2>5
<1>4. CASE Start
  <2>1. CASE UNCHANGED vars
    BY <1>0, <1>1, <1>4, <2>1 DEF Start, Transition, At, Goto, vars
  <2>2. CASE Transition(Main, "start", "recv") /\ Spawn(Main, NoOne, Receiver)
    BY <1>0, <2>2 DEF Transition, At, Goto, Spawn, KeptInv, NoDetach, Kept, Dropping, TypeOK, ThreadTypes
  <2> QED
    BY <1>4, <2>1, <2>2 DEF Start
<1>5. CASE DropReceiver
  BY <1>0, <1>5 DEF DropReceiver, Transition, At, Goto, Drop, KeptInv, NoDetach, Kept, Dropping,
     TypeOK, ThreadTypes, sharedVars
<1>6. CASE SpawnKeepalive
  <2>1. CASE UNCHANGED vars
    BY <1>0, <1>1, <1>6, <2>1 DEF SpawnKeepalive, Transition, At, Goto, vars
  <2>2. CASE Transition(Receiver, "spawn", "recv") /\ Spawn(Receiver, Receiver, Keepalive)
    BY <1>0, <2>2 DEF Transition, At, Goto, Spawn, KeptInv, NoDetach, Kept, Dropping, TypeOK, ThreadTypes
  <2> QED
    BY <1>6, <2>1, <2>2 DEF SpawnKeepalive
<1>7. ASSUME NEW w \in Workers, Receive \/ Wake \/ Tick(w) \/ Offer(w)
      PROVE  KeptInv'
  <2>1. UNCHANGED <<pc, dropping, owner, detached>>
    BY <1>7 DEF Receive, Wake, Tick, Offer, ObserveCancel, vars, threadVars, sharedVars
  <2>2. at'[Main] = at[Main]
    BY <1>0, <1>7 DEF Receive, Wake, Tick, Offer, Transition, At, Goto
  <2> QED
    BY <1>1, <2>1, <2>2
<1>8. ASSUME NEW w \in Workers, Fail(w)
      PROVE  KeptInv'
  <2>1. /\ pc[w] = "body"
        /\ pc' = [pc EXCEPT ![w] = "unwind"]
        /\ UNCHANGED <<owner, dropping, detached, at>>
    BY <1>8 DEF Fail, EndWork, programVars, sharedVars
  <2>2. pc'[w] = "unwind" /\ \A u \in Threads \ {w} : pc'[u] = pc[u]
    BY <2>1 DEF TypeOK, ThreadTypes
  <2>3. NoDetach'
    BY <2>1, <2>2 DEF KeptInv, NoDetach, Dropping
  <2>4. Kept'
    BY <2>1, <2>2 DEF KeptInv, Kept
  <2> QED
    BY <2>3, <2>4 DEF KeptInv
<1>9. CASE DropKeepalive
  BY <1>9 DEF DropKeepalive, Drop, programVars, KeptInv, NoDetach, Kept, Dropping, TypeOK, ThreadTypes, sharedVars
<1>10. ASSUME NEW t \in Threads, CrateStep(t)
       PROVE  KeptInv'
  BY <1>10, CrateKeeps
<1> QED
  BY <1>2, <1>3, <1>4, <1>5, <1>6, <1>7, <1>8, <1>9, <1>10
     DEF HandlerNext, ServeStep, ReceiverStep, KeepaliveStep

\* It holds at the start.
LEMMA KeptAtFirst == HandlerInit => KeptInv
BY HandlerAssumption, WorkerAssumption
   DEF HandlerInit, Init, KeptInv, NoDetach, Kept, Threads

LEMMA Keeping == HandlerSpec => []KeptInv
<1>1. HandlerInit => KeptInv
  BY KeptAtFirst
<1>2. TypeOK /\ CallInv /\ HandInv /\ KeptInv /\ [HandlerNext]_handlerVars => KeptInv'
  BY KeptStep
<1> QED
  BY <1>1, <1>2, Typing, ProgramOfWorkers, Handed, PTL DEF HandlerSpec

\* Without its owner the receiver worker is over, and so is its child.
LEMMA NobodyLeft ==
  ASSUME NoOrphans, HandInv, KeptInv
  PROVE  NoHelperLeft
<1> USE HandlerAssumption, WorkerAssumption DEF Threads
<1> SUFFICES ASSUME pc[Main] = "body", at[Main] \in {"report", "done"}
             PROVE  ~Listening /\ \A w \in Workers : ~Receiving(w)
  BY DEF NoHelperLeft, At
<1>1. ~Receiving(Receiver)
  BY Unkept DEF KeptInv, Kept
<1>2. ~Receiving(Keepalive)
  <2>1. CASE owner[Keepalive] = NoOne
    BY <2>1, Unkept DEF KeptInv
  <2>2. CASE owner[Keepalive] = Receiver
    BY <1>1, <2>2 DEF NoOrphans
  <2> QED
    BY <2>1, <2>2 DEF KeptInv, Kept
<1> QED
  BY <1>1, <1>2 DEF Listening

\* When try_handle has returned, both helper threads and the subscription are gone.
THEOREM NoHelperRemains == HandlerSpec => []NoHelperLeft
BY NobodyLeft, Structured, ProgramOfWorkers, Handed, Keeping, PTL


-----------------------------------------------------------------------------
(* No update is lost.                                                      *)

\* Before subscribe() returns there is nothing.
Nothing ==
  /\ queued = 0
  /\ queue = <<>>
  /\ stream = <<>>
  /\ \A t \in Threads : holds[t] = 0

LostInv == NothingLost /\ (at[Main] = "subscribe" => Nothing)

\* The numbers of the first n updates.
UpTo(n) == [i \in 1..n |-> i]

LEMMA UpToNext ==
  ASSUME NEW n \in Nat
  PROVE  UpTo(n) \o <<n + 1>> = UpTo(n + 1)
<1> DEFINE s == UpTo(n) \o <<n + 1>>
           t == UpTo(n + 1)
<1>1. UpTo(n) \in Seq(Nat) /\ Len(UpTo(n)) = n /\ <<n + 1>> \in Seq(Nat) /\ Len(<<n + 1>>) = 1
  BY DEF UpTo
<1>2. s \in Seq(Nat) /\ Len(s) = n + 1
      /\ \A i \in 1..(n + 1) : s[i] = IF i <= n THEN UpTo(n)[i] ELSE <<n + 1>>[i - n]
  BY <1>1, ConcatProperties
<1>3. t \in Seq(Nat) /\ Len(t) = n + 1 /\ \A i \in 1..(n + 1) : t[i] = i
  BY DEF UpTo
<1>4. \A i \in 1..(n + 1) : s[i] = i
  <2> SUFFICES ASSUME NEW i \in 1..(n + 1)
               PROVE  s[i] = i
    OBVIOUS
  <2>1. CASE i <= n
    <3>1. s[i] = UpTo(n)[i]
      BY <1>2, <2>1
    <3> QED
      BY <2>1, <3>1 DEF UpTo
  <2>2. CASE i = n + 1
    <3>1. s[i] = <<n + 1>>[i - n] /\ i - n = 1
      <4>1. ~(i <= n) /\ i - n = 1
        BY <2>2
      <4> HIDE DEF s, t
      <4> QED
        BY <1>2, <4>1
    <3>2. <<n + 1>>[1] = n + 1
      OBVIOUS
    <3> HIDE DEF s, t
    <3> QED
      BY <2>2, <3>1, <3>2
  <2>3. i <= n \/ i = n + 1
    OBVIOUS
  <2> HIDE DEF s, t
  <2> QED
    BY <2>1, <2>2, <2>3
<1> HIDE DEF s, t
<1>5. s = t
  BY <1>2, <1>3, <1>4, SeqEqual
<1> QED
  BY <1>5 DEF s, t

\* The receiver worker hands an update to the handler.
LEMMA HandedOn ==
  ASSUME NEW a \in Seq(Nat), NEW e \in Nat, NEW d \in Seq(Nat)
  PROVE  a \o <<>> \o <<e>> \o d = a \o <<e>> \o <<>> \o d
<1>1. <<e>> \in Seq(Nat)
  OBVIOUS
<1>2. a \o <<>> = a /\ (a \o <<e>>) \o <<>> = a \o <<e>>
  BY <1>1, ConcatEmptySeq, ConcatProperties
<1> QED
  BY <1>2

\* The client gets an update.
LEMMA Written ==
  ASSUME NEW a \in Seq(Nat), NEW e \in Nat
  PROVE  (a \o <<e>>) \o <<>> = a \o <<e>>
BY ConcatEmptySeq, ConcatProperties

LEMMA Associates ==
  ASSUME NEW s \in Seq(Nat), NEW t \in Seq(Nat), NEW u \in Seq(Nat)
  PROVE  (s \o t) \o u = s \o (t \o u)
OBVIOUS

\* The receiver worker takes an update from the queue.
LEMMA Taken ==
  ASSUME NEW a \in Seq(Nat), NEW b \in Seq(Nat), NEW e \in Nat, NEW d \in Seq(Nat)
  PROVE  a \o b \o <<e>> \o d = a \o b \o <<>> \o (<<e>> \o d)
<1>1. a \o b \in Seq(Nat) /\ <<e>> \in Seq(Nat)
  BY ConcatProperties
<1>2. (a \o b) \o <<>> = a \o b
  BY <1>1, ConcatEmptySeq
<1>3. ((a \o b) \o <<e>>) \o d = (a \o b) \o (<<e>> \o d)
  BY <1>1, Associates, Zenon
<1> QED
  BY <1>2, <1>3, Zenon

\* No step inside the crate makes the listener come back.
LEMMA CrateListens ==
  ASSUME TypeOK, CallInv, KeptInv, NEW t \in Threads, CrateStep(t)
  PROVE  Listening' => Listening
<1> USE HandlerAssumption, WorkerAssumption DEF Threads
<1>1. UNCHANGED at
  BY DEF CrateStep, programVars
<1>2. CASE Proceed(t)
  <2>1. pc[t] \in InCall /\ \A u \in Threads \ {t} : pc'[u] = pc[u]
    BY <1>2, CallProgress DEF KeptInv, CallStays
  <2> QED
    BY <1>1, <2>1 DEF Listening, Receiving, InCall
<1>3. CASE t \in Workers /\ Epilogue(t)
  <2>1. /\ pc' = [pc EXCEPT ![t] = pc'[t]]
        /\ pc'[t] \notin {"unwind", "body"}
        /\ pc'[t] \in {"retired", "failLock", "failDrain", "ended"}
    <3>1. CASE Retire(t) \/ SendDone(t)
      BY <3>1 DEF TypeOK, ThreadTypes, Retire, SendDone, sharedVars
    <3>2. CASE FailParent(t) \/ FailSibling(t) \/ FailDone(t)
      BY <3>2 DEF TypeOK, ThreadTypes, FailParent, FailSibling, FailDone, sharedVars, threadVars
    <3> QED
      BY <1>3, <3>1, <3>2 DEF Epilogue
  <2>2. \A u \in Threads : u # t => pc'[u] = pc[u]
    BY <2>1 DEF TypeOK, ThreadTypes
  <2> QED
    BY <1>1, <2>1, <2>2 DEF Listening, Receiving
<1> QED
  BY <1>2, <1>3 DEF CrateStep

\* A step that leaves the updates alone and does not make the listener come back
\* keeps the invariant.
LEMMA SameUpdates ==
  ASSUME LostInv, UNCHANGED <<queued, queue, stream, holds>>,
         peer' => peer, Listening' => Listening,
         at'[Main] = "subscribe" => at[Main] = "subscribe"
  PROVE  LostInv'
BY DEF LostInv, NothingLost, Nothing, InHand

\* The two steps that change the queue, as equations between the sequences of updates.
LEMMA QueuedLast ==
  ASSUME stream \in Seq(Nat), InHand(Main) \in Seq(Nat), InHand(Receiver) \in Seq(Nat),
         queue \in Seq(Nat), queued + 1 \in Nat
  PROVE  stream \o InHand(Main) \o InHand(Receiver) \o (queue \o <<queued + 1>>)
           = (stream \o InHand(Main) \o InHand(Receiver) \o queue) \o <<queued + 1>>
<1>1. stream \o InHand(Main) \in Seq(Nat)
  BY ConcatProperties
<1>2. stream \o InHand(Main) \o InHand(Receiver) \in Seq(Nat)
  BY <1>1, ConcatProperties
<1>3. <<queued + 1>> \in Seq(Nat)
  OBVIOUS
<1> DEFINE x == stream \o InHand(Main) \o InHand(Receiver)
           e == <<queued + 1>>
<1>4. x \in Seq(Nat) /\ e \in Seq(Nat)
  BY <1>2, <1>3
<1> HIDE DEF x, e
<1>5. (x \o queue) \o e = x \o (queue \o e)
  BY <1>4, Associates, ZenonT(60)
<1> QED
  BY <1>5, Zenon DEF x, e

LEMMA TakenFirst ==
  ASSUME stream \in Seq(Nat), InHand(Main) \in Seq(Nat), Head(queue) \in Nat,
         Tail(queue) \in Seq(Nat)
  PROVE  stream \o InHand(Main) \o <<Head(queue)>> \o Tail(queue)
           = stream \o InHand(Main) \o <<>> \o (<<Head(queue)>> \o Tail(queue))
<1> DEFINE m == InHand(Main)
           h == Head(queue)
           q == Tail(queue)
<1>1. stream \in Seq(Nat) /\ m \in Seq(Nat) /\ h \in Nat /\ q \in Seq(Nat)
  OBVIOUS
<1> HIDE DEF m, h, q
<1>2. stream \o m \o <<h>> \o q = stream \o m \o <<>> \o (<<h>> \o q)
  BY <1>1, Taken, ZenonT(60)
<1> QED
  BY <1>2, Zenon DEF m, h, q

\* Every step keeps it.
LEMMA LostStep ==
  ASSUME TypeOK, CallInv, NoOrphans, HandInv, KeptInv, LostInv, [HandlerNext]_handlerVars
  PROVE  LostInv'
<1> USE HandlerAssumption, WorkerAssumption DEF Threads
<1>0. /\ Receiver \in Threads /\ Keepalive \in Threads /\ Main \in Threads
      /\ Receiver # Main /\ Keepalive # Main /\ Receiver # Keepalive
  OBVIOUS
<1>t. /\ queue \in Seq(Nat) /\ stream \in Seq(Nat) /\ queued \in Nat
      /\ holds \in [Threads -> Nat] /\ at = [u \in Threads |-> at[u]]
      /\ \A u \in Threads : InHand(u) \in Seq(Nat)
  BY DEF HandInv, HandlerTypeOK, InHand
<1>1. CASE UNCHANGED handlerVars
  BY <1>1, SameUpdates DEF handlerVars, vars, programVars, Listening, Receiving
<1>2. CASE Publish
  <2>1. /\ queue' = Append(queue, queued + 1) /\ queued' = queued + 1
        /\ UNCHANGED <<pc, at, holds, peer, stream>> /\ Listening
    BY <1>2 DEF Publish, vars, threadVars
  <2>2. at[Main] # "subscribe"
    <3>1. at[Main] = "subscribe" => pc[Main] = "body" /\ owner[Receiver] = NoOne
      BY DEF KeptInv, Kept
    <3>2. at[Main] = "subscribe" => ~Receiving(Receiver)
      BY <1>0, <3>1, Unkept DEF KeptInv
    <3> QED
      BY <2>1, <3>2 DEF Listening
  <2>3. ASSUME peer
        PROVE  stream \o InHand(Main) \o InHand(Receiver) \o queue' = UpTo(queued + 1)
    <3>1. stream \o InHand(Main) \o InHand(Receiver) \o queue = UpTo(queued)
      BY <2>1, <2>3 DEF LostInv, NothingLost, UpTo
    <3>2. queue' = queue \o <<queued + 1>> /\ queued + 1 \in Nat
      <4>1. queue \in Seq(Nat) /\ queued + 1 \in Nat
        BY <1>t
      <4>2. Append(queue, queued + 1) = queue \o <<queued + 1>>
        BY <4>1, AppendIsConcat
      <4> QED
        BY <2>1, <4>1, <4>2
    <3>3. stream \o InHand(Main) \o InHand(Receiver) \o (queue \o <<queued + 1>>)
            = (stream \o InHand(Main) \o InHand(Receiver) \o queue) \o <<queued + 1>>
      <4>1. InHand(Main) \in Seq(Nat) /\ InHand(Receiver) \in Seq(Nat)
        BY <1>0, <1>t
      <4> QED
        BY <1>t, <3>2, <4>1, QueuedLast, Zenon
    <3> QED
      BY <1>t, <3>1, <3>2, <3>3, UpToNext
  <2>4. InHand(Main)' = InHand(Main) /\ InHand(Receiver)' = InHand(Receiver)
    BY <2>1 DEF InHand
  <2>5. NothingLost'
    BY <2>1, <2>3, <2>4 DEF NothingLost, UpTo
  <2> QED
    BY <2>1, <2>2, <2>5 DEF LostInv
<1>3. CASE Disconnect
  <2>1. ~peer' /\ UNCHANGED <<at, queued, queue, holds, stream>>
    BY <1>3 DEF Disconnect
  <2> QED
    BY <2>1 DEF LostInv, NothingLost, Nothing
<1>4. CASE Subscribe
  <2>1. /\ at[Main] = "subscribe" /\ at'[Main] # "subscribe"
        /\ UNCHANGED <<queued, queue, holds, peer, stream>>
    BY <1>0, <1>t, <1>4 DEF Subscribe, Transition, At, Goto
  <2>2. Nothing'
    BY <2>1 DEF LostInv, Nothing
  <2>3. NothingLost'
    <3>1. queued' = 0 /\ queue' = <<>> /\ stream' = <<>> /\ InHand(Main)' = <<>> /\ InHand(Receiver)' = <<>>
      BY <1>0, <2>2 DEF Nothing, InHand
    <3>2. <<>> \o <<>> \o <<>> \o <<>> = UpTo(0)
      BY ConcatEmptySeq DEF UpTo
    <3> QED
      BY <3>1, <3>2 DEF NothingLost, UpTo
  <2> QED
    BY <2>1, <2>3 DEF LostInv
<1>5. CASE Start \/ HangUp \/ DropReceiver \/ Report
  <2>1. /\ UNCHANGED <<queued, queue, holds, peer, stream>>
        /\ at'[Main] # "subscribe"
    BY <1>0, <1>t, <1>5 DEF Start, HangUp, DropReceiver, Report, Transition, At, Goto
  <2>2. Listening' => Listening
    <3>1. CASE at[Main] = "start"
      BY <3>1 DEF Listening
    <3>2. CASE at[Main] # "start"
      <4>1. at'[Main] # "start"
        BY <1>0, <1>t, <1>5, <3>2 DEF Start, HangUp, DropReceiver, Report, Transition, At, Goto
      <4>2. pc'[Receiver] = pc[Receiver]
        BY <1>0, <1>5, <3>2 DEF Start, HangUp, DropReceiver, Report, Transition, At, Goto, Drop, vars,
           threadVars, TypeOK, ThreadTypes
      <4> QED
        BY <4>1, <4>2 DEF Listening, Receiving
    <3> QED
      BY <3>1, <3>2
  <2> QED
    BY <2>1, <2>2, SameUpdates
<1>6. CASE Take
  <2> DEFINE t == Head(offers)
  <2>1. /\ t \in Workers /\ t = offers[1] /\ 1 \in 1..Len(offers)
        /\ at[Main] = "recv"
        /\ UNCHANGED <<pc, queued, queue, peer, stream>>
    BY <1>6, HeadTailProperties DEF Take, At, HandInv, HandlerTypeOK, vars, threadVars
  <2>2. at[t] = "sending"
    BY <2>1 DEF HandInv, InLine
  <2>3. holds' = [holds EXCEPT ![Main] = holds[t], ![t] = 0]
    BY <1>6 DEF Take
  <2>3a. at' = [at EXCEPT ![Main] = IF t = Receiver THEN "emit" ELSE "keepalive",
                          ![t] = IF t = Receiver THEN "recv" ELSE "sleep"]
    BY <1>6 DEF Take
  <2> HIDE DEF t
  <2>4. /\ holds'[Main] = holds[t] /\ holds'[t] = 0
        /\ \A u \in Threads \ {Main, t} : holds'[u] = holds[u]
        /\ at'[Main] \in {"emit", "keepalive"}
    BY <1>0, <1>t, <2>1, <2>3, <2>3a
  <2>5. Listening' => Listening
    BY <2>1, <2>4 DEF Listening, Receiving
  <2>6. CASE t = Receiver
    <3>1. holds[Receiver] # 0 /\ holds[Receiver] \in Nat /\ (peer => holds[Main] = 0)
      BY <1>t, <2>1, <2>2, <2>6 DEF HandInv, Placed
    <3>2. /\ peer => InHand(Main) = <<>>
          /\ InHand(Receiver) = <<holds[Receiver]>>
          /\ InHand(Main)' = <<holds[Receiver]>> /\ InHand(Receiver)' = <<>>
      BY <2>4, <2>6, <3>1 DEF InHand
    <3>3. stream \o <<>> \o <<holds[Receiver]>> \o queue = stream \o <<holds[Receiver]>> \o <<>> \o queue
      BY <1>t, <3>1, HandedOn
    <3>4. NothingLost'
      BY <2>1, <2>5, <3>2, <3>3 DEF LostInv, NothingLost
    <3> QED
      BY <2>4, <3>4 DEF LostInv
  <2>7. CASE t = Keepalive
    <3>1. holds[Keepalive] = 0 /\ (peer => holds[Main] = 0)
      BY <2>1 DEF HandInv, Placed
    <3>2. peer => InHand(Main)' = InHand(Main) /\ InHand(Receiver)' = InHand(Receiver)
      BY <1>0, <2>4, <2>7, <3>1 DEF InHand
    <3>3. NothingLost'
      BY <2>1, <2>5, <3>2 DEF LostInv, NothingLost
    <3> QED
      BY <2>4, <3>3 DEF LostInv
  <2> QED
    BY <2>1, <2>6, <2>7
<1>7. CASE Write
  <2>1. /\ peer /\ at[Main] \in {"emit", "keepalive"} /\ at'[Main] = "recv"
        /\ stream' = IF at[Main] = "emit" THEN Append(stream, holds[Main]) ELSE stream
        /\ holds'[Main] = 0 /\ holds'[Receiver] = holds[Receiver]
        /\ UNCHANGED <<pc, queued, queue, peer>>
    BY <1>0, <1>t, <1>7 DEF Write, At, Goto, vars, threadVars
  <2>2. Listening' => Listening
    BY <2>1 DEF Listening, Receiving
  <2>3. InHand(Main)' = <<>> /\ InHand(Receiver)' = InHand(Receiver)
    BY <2>1 DEF InHand
  <2>4. CASE at[Main] = "emit"
    <3>1. holds[Main] \in Nat /\ InHand(Main) = <<holds[Main]>>
      BY <1>0, <1>t, <2>4 DEF HandInv, Placed, InHand
    <3>2. stream' = stream \o <<holds[Main]>>
      BY <1>t, <2>1, <2>4, <3>1, AppendIsConcat
    <3>3. stream' \o <<>> = stream \o <<holds[Main]>>
      BY <1>t, <3>1, <3>2, Written
    <3>4. NothingLost'
      BY <2>1, <2>2, <2>3, <3>1, <3>3 DEF LostInv, NothingLost
    <3> QED
      BY <2>1, <3>4 DEF LostInv
  <2>5. CASE at[Main] # "emit"
    <3>1. InHand(Main) = <<>> /\ stream' = stream
      BY <2>1, <2>5 DEF HandInv, Placed, InHand
    <3>2. NothingLost'
      BY <2>1, <2>2, <2>3, <3>1 DEF LostInv, NothingLost
    <3> QED
      BY <2>1, <3>2 DEF LostInv
  <2> QED
    BY <2>4, <2>5
<1>8. CASE WriteLost \/ WriteFails
  <2>1. ~peer /\ UNCHANGED peer /\ at'[Main] # "subscribe"
    BY <1>0, <1>t, <1>8 DEF WriteLost, WriteFails, At, Goto
  <2> QED
    BY <2>1 DEF LostInv, NothingLost
<1>9. CASE SpawnKeepalive
  <2>1. /\ UNCHANGED <<queued, queue, holds, peer, stream>> /\ pc[Receiver] = "body"
        /\ at'[Main] = at[Main]
    BY <1>0, <1>t, <1>9 DEF SpawnKeepalive, Transition, At, Goto
  <2>2. Listening
    BY <2>1 DEF Listening, Receiving
  <2> QED
    BY <2>1, <2>2, SameUpdates
<1>10. CASE Receive
  <2>1. /\ at[Receiver] = "recv" /\ queue # <<>>
        /\ holds' = [holds EXCEPT ![Receiver] = Head(queue)]
        /\ queue' = Tail(queue) /\ at'[Main] = at[Main]
        /\ UNCHANGED <<pc, queued, peer, stream>>
    BY <1>0, <1>t, <1>10 DEF Receive, At, Goto, vars, threadVars
  <2>2. /\ Head(queue) \in 1..MaxUpdates /\ Tail(queue) \in Seq(Nat)
        /\ queue = <<Head(queue)>> \o Tail(queue)
    <3>1. Head(queue) \in 1..MaxUpdates /\ Tail(queue) \in Seq(1..MaxUpdates)
      BY <2>1, HeadTailProperties DEF HandInv, HandlerTypeOK
    <3>2. queue = <<Head(queue)>> \o Tail(queue)
      BY <1>t, <2>1
    <3> QED
      BY <3>1, <3>2
  <2>3. /\ holds[Receiver] = 0 /\ holds'[Receiver] = Head(queue) /\ Head(queue) # 0
        /\ holds'[Main] = holds[Main]
    <3>1. holds[Receiver] = 0
      BY <2>1 DEF HandInv, Placed
    <3> HIDE DEF HandInv
    <3> QED
      BY <1>0, <1>t, <2>1, <2>2, <3>1
  <2>4. /\ InHand(Receiver) = <<>> /\ InHand(Receiver)' = <<Head(queue)>>
        /\ InHand(Main)' = InHand(Main)
    BY <2>3 DEF InHand
  <2>5. stream \o InHand(Main) \o <<Head(queue)>> \o Tail(queue)
          = stream \o InHand(Main) \o <<>> \o (<<Head(queue)>> \o Tail(queue))
    <3>1. stream \in Seq(Nat) /\ InHand(Main) \in Seq(Nat) /\ Head(queue) \in Nat /\ Tail(queue) \in Seq(Nat)
      BY <1>0, <1>t, <2>2
    <3> QED
      BY <3>1, TakenFirst, Zenon
  <2>6. at[Main] # "subscribe"
    BY <2>1 DEF LostInv, Nothing
  <2>7. Listening' => Listening
    BY <2>1 DEF Listening, Receiving
  <2>8. NothingLost'
    BY <2>1, <2>2, <2>4, <2>5, <2>7 DEF LostInv, NothingLost
  <2> QED
    BY <2>1, <2>6, <2>8 DEF LostInv
<1>11. ASSUME NEW w \in Workers, Wake \/ Tick(w) \/ Offer(w) \/ Fail(w)
       PROVE  LostInv'
  <2>1. UNCHANGED <<queued, queue, stream, holds, peer>> /\ at'[Main] = at[Main]
    BY <1>0, <1>t, <1>11 DEF Wake, Tick, Offer, Fail, Transition, At, Goto, programVars
  <2>2. pc'[Receiver] = pc[Receiver] \/ pc[Receiver] = "body"
    BY <1>0, <1>11 DEF Wake, Tick, Offer, Fail, EndWork, ObserveCancel, vars, threadVars, TypeOK, ThreadTypes
  <2>3. Listening' => Listening
    BY <2>1, <2>2 DEF Listening, Receiving
  <2> QED
    BY <2>1, <2>3, SameUpdates
<1>12. CASE DropKeepalive
  <2>1. UNCHANGED programVars /\ pc[Receiver] = "unwind"
    BY <1>12 DEF DropKeepalive
  <2>2. Listening
    BY <2>1 DEF Listening, Receiving
  <2> QED
    BY <2>1, <2>2, SameUpdates DEF programVars
<1>13. ASSUME NEW t \in Threads, CrateStep(t)
       PROVE  LostInv'
  <2>1. UNCHANGED programVars /\ (Listening' => Listening)
    BY <1>13, CrateListens DEF CrateStep
  <2> QED
    BY <2>1, SameUpdates DEF programVars
<1> QED
  BY <1>1, <1>2, <1>3, <1>4, <1>5, <1>6, <1>7, <1>8, <1>9, <1>10, <1>11, <1>12, <1>13
     DEF HandlerNext, ServeStep, ReceiverStep, KeepaliveStep

\* It holds at the start.
LEMMA LostInit == HandlerInit => LostInv
<1> SUFFICES ASSUME HandlerInit
             PROVE  LostInv
  OBVIOUS
<1> USE HandlerAssumption, WorkerAssumption DEF Threads
<1>1. Nothing /\ Main \in Threads /\ Receiver \in Threads
  BY DEF HandlerInit, Nothing
<1>2. queued = 0 /\ queue = <<>> /\ stream = <<>> /\ InHand(Main) = <<>> /\ InHand(Receiver) = <<>>
  BY <1>1 DEF Nothing, InHand
<1>3. <<>> \o <<>> \o <<>> \o <<>> = UpTo(0)
  BY ConcatEmptySeq DEF UpTo
<1> QED
  BY <1>1, <1>2, <1>3 DEF LostInv, NothingLost, UpTo

\* While the client and the listener are there, no update is lost on the way from
\* the queue through two threads to the client, none comes twice or out of order.
THEOREM UpdatesArrive == HandlerSpec => []NothingLost
<1>1. HandlerInit => LostInv
  BY LostInit
<1>2. TypeOK /\ CallInv /\ NoOrphans /\ HandInv /\ KeptInv /\ LostInv /\ [HandlerNext]_handlerVars => LostInv'
  BY LostStep
<1>3. LostInv => NothingLost
  BY DEF LostInv
<1> QED
  BY <1>1, <1>2, <1>3, Typing, Structured, ProgramOfWorkers, Handed, Keeping, PTL DEF HandlerSpec

=============================================================================
