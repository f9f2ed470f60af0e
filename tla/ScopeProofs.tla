----------------------------- MODULE ScopeProofs ------------------------------
(***************************************************************************)
(* Worker implements Scopes, for every set of workers and every use of the *)
(* handles, and what follows from the promise.                             *)
(***************************************************************************)
EXTENDS WorkerProofs

Dropping == {"dropCheck", "dropWait", "terminate", "waitLock", "wait"}
Over == {"unwind", "retired", "failLock", "failDrain", "ended"}

\* A work function that has returned is past its own code, or drops its locals.
WorkInv ==
  /\ \A t \in Threads : dropping[t] => pc[t] \in Dropping
  /\ \A w \in Workers : pc[w] \in Over => outcome[w] # "none"
  /\ \A w \in Workers :
       outcome[w] # "none" => pc[w] \in Over \/ (dropping[w] /\ pc[w] \in Dropping)

\* Every action keeps WorkInv.
LEMMA WorkStep ==
  ASSUME TypeOK, CallInv, WorkInv, Next
  PROVE  WorkInv'
<1> USE WorkerAssumption DEF TypeOK, ThreadTypes, WorkTypes, Threads
<1>1. ASSUME NEW t \in Threads, NEW p \in Workers \cup {NoOne}, NEW h \in Workers, Spawn(t, p, h)
      PROVE  WorkInv'
  BY <1>1 DEF WorkInv, Dropping, Over, Spawn, Free, workVars
<1>2. ASSUME NEW t \in Threads, AttachLock(t)
      PROVE  WorkInv'
  BY <1>2 DEF WorkInv, Dropping, Over, AttachLock, workVars
<1>3. ASSUME NEW t \in Threads, AttachChild(t)
      PROVE  WorkInv'
  BY <1>3 DEF WorkInv, Dropping, Over, AttachChild, workVars
<1>4. ASSUME NEW t \in Threads, NEW h \in Workers, NEW f \in DOMAIN Entry, Call(t, h, f)
      PROVE  WorkInv'
  BY <1>4 DEF WorkInv, Dropping, Over, Call, Entry, Free, workVars
<1>5. ASSUME NEW t \in Threads, NEW h \in Workers, Drop(t, h)
      PROVE  WorkInv'
  BY <1>5 DEF WorkInv, Dropping, Over, Drop, Free, workVars
<1>6. ASSUME NEW t \in Threads, DropCheck(t)
      PROVE  WorkInv'
  BY <1>6 DEF WorkInv, Dropping, Over, DropCheck, Dropped, Home, Unwinding, workVars
<1>7. ASSUME NEW t \in Threads, DropWait(t)
      PROVE  WorkInv'
  BY <1>7 DEF WorkInv, Dropping, Over, DropWait, Dropped, Home, Unwinding, workVars
<1>8. ASSUME NEW t \in Threads, NEW h \in Workers, Poll(t, h)
      PROVE  WorkInv'
  BY <1>8 DEF WorkInv, Dropping, Over, Poll, Free, workVars
<1>9. ASSUME NEW t \in Threads, Terminate(t)
      PROVE  WorkInv'
  BY <1>9 DEF WorkInv, Dropping, Over, Terminate, Answer, Dropped, Home, Unwinding, workVars
<1>10. ASSUME NEW t \in Threads, DetachLock(t)
      PROVE  WorkInv'
  BY <1>10 DEF WorkInv, Dropping, Over, DetachLock, workVars
<1>11. ASSUME NEW t \in Threads, DetachParent(t)
      PROVE  WorkInv'
  BY <1>11 DEF WorkInv, Dropping, Over, DetachParent, workVars
<1>12. ASSUME NEW t \in Threads, WaitLock(t)
      PROVE  WorkInv'
  BY <1>12 DEF WorkInv, Dropping, Over, WaitLock, Answer, Dropped, Home, Unwinding, workVars
<1>13. ASSUME NEW t \in Threads, SignalChild(t)
      PROVE  WorkInv'
  BY <1>13 DEF WorkInv, Dropping, Over, SignalChild, threadVars, workVars
<1>14. ASSUME NEW t \in Threads, Join(t)
      PROVE  WorkInv'
  BY <1>14 DEF WorkInv, Dropping, Over, Join, threadVars, workVars
<1>15. ASSUME NEW t \in Threads, WaitChild(t)
      PROVE  WorkInv'
  BY <1>15 DEF WorkInv, Dropping, Over, WaitChild, threadVars, workVars
<1>16. ASSUME NEW t \in Threads, CloseFrame(t)
      PROVE  WorkInv'
  <2>1. pc[t] = "wait" /\ UNCHANGED outcome
    BY <1>16 DEF CloseFrame, workVars
  <2>2. UNCHANGED threadVars \/ \E r : Answer(t, Current(t), r)
    BY <1>16 DEF CloseFrame
  <2>3. CASE UNCHANGED threadVars
    BY <2>1, <2>3 DEF WorkInv, threadVars
  <2>4. ASSUME NEW r, Answer(t, Current(t), r)
        PROVE  WorkInv'
    BY <2>1, <2>4 DEF WorkInv, Dropping, Over, Answer, Dropped, Home, Unwinding
  <2> QED
    BY <2>2, <2>3, <2>4
<1>17. ASSUME NEW w \in Workers, ObserveCancel(w)
      PROVE  WorkInv'
  BY <1>17 DEF WorkInv, Dropping, Over, ObserveCancel, threadVars, workVars
<1>18. ASSUME NEW w \in Workers, NEW o \in Outcomes, EndWork(w, o)
      PROVE  WorkInv'
  BY <1>18 DEF WorkInv, Dropping, Over, EndWork, workVars
<1>19. ASSUME NEW w \in Workers, Retire(w)
      PROVE  WorkInv'
  BY <1>19 DEF WorkInv, Dropping, Over, Retire, workVars
<1>20. ASSUME NEW w \in Workers, SendDone(w)
      PROVE  WorkInv'
  BY <1>20 DEF WorkInv, Dropping, Over, SendDone, workVars
<1>21. ASSUME NEW w \in Workers, FailParent(w)
      PROVE  WorkInv'
  BY <1>21 DEF WorkInv, Dropping, Over, FailParent, workVars
<1>22. ASSUME NEW w \in Workers, FailSibling(w)
      PROVE  WorkInv'
  BY <1>22 DEF WorkInv, Dropping, Over, FailSibling, threadVars, workVars
<1>23. ASSUME NEW w \in Workers, FailDone(w)
      PROVE  WorkInv'
  BY <1>23 DEF WorkInv, Dropping, Over, FailDone, workVars
<1> QED
  BY <1>1, <1>2, <1>3, <1>4, <1>5, <1>6, <1>7, <1>8, <1>9, <1>10, <1>11, <1>12, <1>13, <1>14, <1>15, <1>16, <1>17, <1>18, <1>19, <1>20, <1>21, <1>22, <1>23
     DEF Next, Proceed, Epilogue, UserCall

\* A worker on which a wait() frame is open has no result yet.
OpenInv == \A w \in Workers : frame[w].phase # "idle" => result[w] = "none"

\* Every action keeps OpenInv.
LEMMA OpenStep ==
  ASSUME TypeOK, CallInv, OpenInv, Next
  PROVE  OpenInv'
<1>0. ASSUME UNCHANGED <<frame, result>>
      PROVE  OpenInv'
  BY <1>0 DEF OpenInv
<1>1. ASSUME NEW t \in Threads, NEW p \in Workers \cup {NoOne}, NEW h \in Workers, Spawn(t, p, h)
      PROVE  OpenInv'
  BY <1>0, <1>1 DEF Spawn, waitVars
<1>2. ASSUME NEW t \in Threads, AttachLock(t)
      PROVE  OpenInv'
  BY <1>0, <1>2 DEF AttachLock, waitVars
<1>3. ASSUME NEW t \in Threads, AttachChild(t)
      PROVE  OpenInv'
  BY <1>0, <1>3 DEF AttachChild, waitVars
<1>4. ASSUME NEW t \in Threads, NEW h \in Workers, NEW f \in DOMAIN Entry, Call(t, h, f)
      PROVE  OpenInv'
  BY <1>0, <1>4 DEF Call, waitVars
<1>5. ASSUME NEW t \in Threads, NEW h \in Workers, Drop(t, h)
      PROVE  OpenInv'
  BY <1>0, <1>5 DEF Drop, waitVars
<1>6. ASSUME NEW t \in Threads, DropCheck(t)
      PROVE  OpenInv'
  BY <1>0, <1>6 DEF DropCheck, waitVars
<1>7. ASSUME NEW t \in Threads, DropWait(t)
      PROVE  OpenInv'
  BY <1>0, <1>7 DEF DropWait, waitVars
<1>8. ASSUME NEW t \in Threads, NEW h \in Workers, Poll(t, h)
      PROVE  OpenInv'
  BY <1>0, <1>8 DEF Poll, waitVars
<1>9. ASSUME NEW t \in Threads, Terminate(t)
      PROVE  OpenInv'
  BY <1>0, <1>9 DEF Terminate, waitVars
<1>10. ASSUME NEW t \in Threads, DetachLock(t)
      PROVE  OpenInv'
  BY <1>0, <1>10 DEF DetachLock, waitVars
<1>11. ASSUME NEW t \in Threads, DetachParent(t)
      PROVE  OpenInv'
  BY <1>0, <1>11 DEF DetachParent, waitVars
<1>12. ASSUME NEW t \in Threads, WaitLock(t)
      PROVE  OpenInv'
  <2>1. UNCHANGED result
    BY <1>12 DEF WaitLock
  <2>2. \A v \in Workers : frame'[v].phase # "idle" => frame[v].phase # "idle" \/ result[v] = "none"
    BY <1>12, WaitLockFrames
  <2> QED
    BY <2>1, <2>2 DEF OpenInv
<1>13. ASSUME NEW t \in Threads, SignalChild(t)
      PROVE  OpenInv'
  BY <1>13, SignalChildFrames DEF OpenInv, SignalChild
<1>14. ASSUME NEW t \in Threads, Join(t)
      PROVE  OpenInv'
  <2>1. UNCHANGED result
    BY <1>14 DEF Join
  <2>2. \A v \in Workers : frame'[v].phase # "idle" => frame[v].phase # "idle"
    BY <1>14, JoinFrames
  <2> QED
    BY <2>1, <2>2 DEF OpenInv
<1>15. ASSUME NEW t \in Threads, WaitChild(t)
      PROVE  OpenInv'
  <2>1. UNCHANGED result
    BY <1>15 DEF WaitChild
  <2>2. \A v \in Workers : frame'[v].phase # "idle" => frame[v].phase # "idle" \/ result[v] = "none"
    BY <1>15, WaitChildFrames
  <2> QED
    BY <2>1, <2>2 DEF OpenInv
<1>16. ASSUME NEW t \in Threads, CloseFrame(t)
      PROVE  OpenInv'
  <2> DEFINE w == Current(t)
             res == And(frame[w].state, frame[w].low)
  <2>1. w \in Workers /\ \A v \in Workers : frame'[v].phase = IF v = w THEN "idle" ELSE frame[v].phase
    BY <1>16, CloseFrameFrames
  <2>2. result' = [result EXCEPT ![w] = res]
    BY <1>16 DEF CloseFrame
  <2> HIDE DEF w, res
  <2> QED
    BY <2>1, <2>2 DEF OpenInv, TypeOK, WaitTypes
<1>17. ASSUME NEW w \in Workers, ObserveCancel(w)
      PROVE  OpenInv'
  BY <1>0, <1>17 DEF ObserveCancel, waitVars
<1>18. ASSUME NEW w \in Workers, NEW o \in Outcomes, EndWork(w, o)
      PROVE  OpenInv'
  BY <1>0, <1>18 DEF EndWork, waitVars
<1>19. ASSUME NEW w \in Workers, Retire(w)
      PROVE  OpenInv'
  BY <1>0, <1>19 DEF Retire, waitVars
<1>20. ASSUME NEW w \in Workers, SendDone(w)
      PROVE  OpenInv'
  BY <1>0, <1>20 DEF SendDone, waitVars
<1>21. ASSUME NEW w \in Workers, FailParent(w)
      PROVE  OpenInv'
  BY <1>0, <1>21 DEF FailParent, waitVars
<1>22. ASSUME NEW w \in Workers, FailSibling(w)
      PROVE  OpenInv'
  BY <1>0, <1>22 DEF FailSibling, waitVars
<1>23. ASSUME NEW w \in Workers, FailDone(w)
      PROVE  OpenInv'
  BY <1>0, <1>23 DEF FailDone, waitVars
<1> QED
  BY <1>1, <1>2, <1>3, <1>4, <1>5, <1>6, <1>7, <1>8, <1>9, <1>10, <1>11, <1>12, <1>13, <1>14, <1>15, <1>16, <1>17, <1>18, <1>19, <1>20, <1>21, <1>22, <1>23
     DEF Next, Proceed, Epilogue, UserCall

-----------------------------------------------------------------------------
(* Refinement.                                                             *)

\* Where a thread is outside its work function's life.
Still == {"unborn", "retired", "failLock", "failDrain", "ended"}

\* A step within the life of a work function does not show.
LEMMA SameStages ==
  ASSUME ThreadTypes, NEW t \in Threads,
         UNCHANGED pc \/ \E x : x \notin Still /\ pc[t] \notin Still /\ pc' = [pc EXCEPT ![t] = x]
  PROVE  \A w \in Workers : Stage(w)' = Stage(w)
<1> SUFFICES ASSUME NEW w \in Workers
             PROVE  Stage(w)' = Stage(w)
  OBVIOUS
<1>1. CASE pc'[w] = pc[w]
  BY <1>1 DEF Stage
<1>2. CASE pc'[w] # pc[w]
  <2>1. pc[w] \notin Still /\ pc'[w] \notin Still
    BY <1>2 DEF ThreadTypes, Threads
  <2> QED
    BY <2>1 DEF Stage, Still
<1> QED
  BY <1>1, <1>2

\* A step that shows in none of the promised variables is a stutter.
LEMMA Stutters ==
  ASSUME \A w \in Workers : Stage(w)' = Stage(w), UNCHANGED <<outcome, owner, detached, result>>
  PROVE  UNCHANGED Promise!vars
BY DEF Promise!vars

\* The end of a Drop lets go of the worker.
LEMMA DropReleases ==
  ASSUME TypeOK, CallInv, NEW t \in Threads, pc[t] \in InCall, Dropped(t, arg[t]),
         UNCHANGED <<outcome, detached, result>>,
         detached[arg[t]] \/ ~Receiving(arg[t])
  PROVE  Promise!Release(arg[t])
<1> DEFINE h == arg[t]
<1>1. h \in Workers /\ owner[h] = t /\ t # NoOne /\ pc[h] # "unborn"
  BY ArgBorn, WorkerAssumption DEF CallInv
<1>2. \A w \in Workers : Stage(w)' = Stage(w)
  <2>1. pc[t] \notin Still /\ Home(t) \notin Still
    BY DEF InCall, Home, Still
  <2> QED
    BY <2>1, SameStages DEF Dropped, TypeOK
<1>3. owner' = [owner EXCEPT ![h] = NoOne]
  BY DEF Dropped
<1>4. detached[h] \/ Stage(h) \in {"closing", "ended"}
  BY <1>1 DEF Receiving, Stage
<1> QED
  BY <1>1, <1>2, <1>3, <1>4 DEF Promise!Release, Promise!LetGo

\* A call that answers without a new result is a Release or does not show.
LEMMA AnswerImplements ==
  ASSUME TypeOK, CallInv, NEW t \in Threads, pc[t] \in InCall, NEW r, Answer(t, arg[t], r),
         UNCHANGED <<outcome, detached, result>>, ~Receiving(arg[t])
  PROVE  Promise!Release(arg[t]) \/ UNCHANGED Promise!vars
<1>1. CASE Dropped(t, arg[t])
  BY <1>1, DropReleases
<1>2. CASE ~Dropped(t, arg[t])
  <2>1. /\ UNCHANGED owner
        /\ \E x \in {"body", "dropWait"} : pc' = [pc EXCEPT ![t] = x]
    BY <1>2 DEF Answer
  <2>2. pc[t] \notin Still /\ {"body", "dropWait"} \cap Still = {}
    BY DEF InCall, Still
  <2>3. \A w \in Workers : Stage(w)' = Stage(w)
    BY <2>1, <2>2, SameStages DEF TypeOK
  <2> QED
    BY <2>1, <2>3, Stutters
<1> QED
  BY <1>1, <1>2

\* Every step of a worker is a step that the promise allows, or does not show.
LEMMA StepImplements ==
  ASSUME TypeOK, CallInv, BornInv, ResultInv, WorkInv, OpenInv, Next
  PROVE  Promise!Next \/ UNCHANGED Promise!vars
<1> USE DEF TypeOK
<1>0. ASSUME NEW t \in Threads, UNCHANGED <<outcome, owner, detached, result>>,
             UNCHANGED pc \/ \E x : x \notin Still /\ pc[t] \notin Still /\ pc' = [pc EXCEPT ![t] = x]
      PROVE  UNCHANGED Promise!vars
  BY <1>0, SameStages, Stutters
<1>1. ASSUME NEW t \in Threads, NEW p \in Workers \cup {NoOne}, NEW h \in Workers, Spawn(t, p, h)
      PROVE  Promise!Next \/ UNCHANGED Promise!vars
  <2>1. \A w \in Workers : Stage(w)' = IF w = h THEN "live" ELSE Stage(w)
    <3>1. pc'[h] = "body" /\ \A w \in Workers \ {h, t} : pc'[w] = pc[w]
      BY <1>1 DEF Spawn, Free, ThreadTypes, Threads
    <3>2. t \in Workers => pc[t] = "body" /\ pc'[t] \in {"body", "attachLock"}
      BY <1>1 DEF Spawn, Free, ThreadTypes
    <3> QED
      BY <3>1, <3>2 DEF Stage
  <2>2. Stage(h) = "fresh" /\ (t \in Workers => Stage(t) = "live")
    BY <1>1 DEF Spawn, Free, Stage
  <2>3. owner' = [owner EXCEPT ![h] = t] /\ UNCHANGED <<outcome, detached, result>>
    BY <1>1 DEF Spawn, workVars
  <2>4. Promise!Begin(t, h)
    BY <2>1, <2>2, <2>3 DEF Promise!Begin
  <2> QED
    BY <2>4 DEF Promise!Next
<1>2. ASSUME NEW t \in Threads, AttachLock(t)
      PROVE  Promise!Next \/ UNCHANGED Promise!vars
  <2>1. UNCHANGED <<outcome, owner, detached, result>>
    BY <1>2 DEF AttachLock, workVars, sharedVars, waitVars
  <2>2. \E x : x \notin Still /\ pc[t] \notin Still /\ pc' = [pc EXCEPT ![t] = x]
    BY <1>2 DEF AttachLock, Still
  <2> QED
    BY <1>0, <2>1, <2>2
<1>3. ASSUME NEW t \in Threads, AttachChild(t)
      PROVE  Promise!Next \/ UNCHANGED Promise!vars
  <2>1. UNCHANGED <<outcome, owner, detached, result>>
    BY <1>3 DEF AttachChild, workVars, sharedVars, waitVars
  <2>2. \E x : x \notin Still /\ pc[t] \notin Still /\ pc' = [pc EXCEPT ![t] = x]
    BY <1>3 DEF AttachChild, Still
  <2> QED
    BY <1>0, <2>1, <2>2
<1>4. ASSUME NEW t \in Threads, NEW h \in Workers, NEW f \in DOMAIN Entry, Call(t, h, f)
      PROVE  Promise!Next \/ UNCHANGED Promise!vars
  <2>1. UNCHANGED <<outcome, owner, detached, result>>
    BY <1>4 DEF Call, Entry, Free, workVars, sharedVars, waitVars
  <2>2. \E x : x \notin Still /\ pc[t] \notin Still /\ pc' = [pc EXCEPT ![t] = x]
    <3>1. Entry[f] \in {"waitLock", "terminate", "detachLock"}
      BY DEF Entry
    <3> QED
      BY <1>4, <3>1 DEF Call, Free, Still
  <2> QED
    BY <1>0, <2>1, <2>2
<1>5. ASSUME NEW t \in Threads, NEW h \in Workers, Drop(t, h)
      PROVE  Promise!Next \/ UNCHANGED Promise!vars
  <2>1. UNCHANGED <<outcome, owner, detached, result>>
    BY <1>5 DEF Drop, Free, workVars, sharedVars, waitVars
  <2>2. \E x : x \notin Still /\ pc[t] \notin Still /\ pc' = [pc EXCEPT ![t] = x]
    BY <1>5 DEF Drop, Free, Still
  <2> QED
    BY <1>0, <2>1, <2>2
<1>6. ASSUME NEW t \in Threads, DropCheck(t)
      PROVE  Promise!Next \/ UNCHANGED Promise!vars
  <2>1. pc[t] \in InCall /\ UNCHANGED <<outcome, detached, result>>
    BY <1>6 DEF DropCheck, InCall, workVars, sharedVars, waitVars
  <2>2. CASE Dropped(t, arg[t])
    <3>1. arg[t] \in Workers /\ (detached[arg[t]] \/ result[arg[t]] # "none")
      BY <1>6, <2>1, <2>2 DEF DropCheck, Dropped, CallInv, Home, ThreadTypes
    <3>2. detached[arg[t]] \/ ~Receiving(arg[t])
      BY <3>1 DEF ResultInv, ResultAfterJoin, Receiving
    <3>3. Promise!Release(arg[t])
      BY <2>1, <2>2, <3>2, DropReleases
    <3> QED
      BY <3>1, <3>3 DEF Promise!Next
  <2>3. CASE ~Dropped(t, arg[t])
    <3>1. UNCHANGED owner /\ pc' = [pc EXCEPT ![t] = "terminate"]
      BY <1>6, <2>3 DEF DropCheck
    <3> QED
      BY <1>0, <2>1, <3>1 DEF InCall, Still
  <2> QED
    BY <2>2, <2>3
<1>7. ASSUME NEW t \in Threads, DropWait(t)
      PROVE  Promise!Next \/ UNCHANGED Promise!vars
  <2>1. pc[t] \in InCall /\ UNCHANGED <<outcome, detached, result>> /\ Dropped(t, arg[t])
    BY <1>7 DEF DropWait, InCall, workVars, sharedVars, waitVars
  <2>2. arg[t] \in Workers /\ result[arg[t]] # "none"
    BY <1>7, <2>1 DEF DropWait, CallInv, ResultInv
  <2>3. ~Receiving(arg[t])
    BY <2>2 DEF ResultInv, ResultAfterJoin, Receiving
  <2> QED
    BY <2>1, <2>2, <2>3, DropReleases DEF Promise!Next
<1>8. ASSUME NEW t \in Threads, NEW h \in Workers, Poll(t, h)
      PROVE  Promise!Next \/ UNCHANGED Promise!vars
  <2>1. UNCHANGED <<outcome, owner, detached, result>>
    BY <1>8 DEF Poll, sharedVars
  <2>2. UNCHANGED pc \/ \E x : x \notin Still /\ pc[t] \notin Still /\ pc' = [pc EXCEPT ![t] = x]
    BY <1>8 DEF Poll, Free, Still
  <2> QED
    BY <1>0, <2>1, <2>2
<1>9. ASSUME NEW t \in Threads, Terminate(t)
      PROVE  Promise!Next \/ UNCHANGED Promise!vars
  <2>1. pc[t] \in InCall /\ UNCHANGED <<outcome, detached, result>> /\ arg[t] \in Workers
    BY <1>9 DEF Terminate, InCall, sharedVars, waitVars, CallInv
  <2>2. CASE Receiving(arg[t])
    <3>1. UNCHANGED owner /\ pc' = [pc EXCEPT ![t] = "waitLock"]
      BY <1>9, <2>2 DEF Terminate
    <3> QED
      BY <1>0, <2>1, <3>1 DEF InCall, Still
  <2>3. CASE ~Receiving(arg[t])
    <3>1. Answer(t, arg[t], "Aborted")
      BY <1>9, <2>3 DEF Terminate
    <3> QED
      BY <2>1, <2>3, <3>1, AnswerImplements DEF Promise!Next
  <2> QED
    BY <2>2, <2>3
<1>10. ASSUME NEW t \in Threads, DetachLock(t)
      PROVE  Promise!Next \/ UNCHANGED Promise!vars
  <2>0. arg[t] \in Workers /\ pc[arg[t]] # "unborn"
    BY <1>10, ArgBorn DEF DetachLock, InCall
  <2>1. PICK h \in Workers : h = arg[t] /\ pc[h] # "unborn"
    BY <2>0
  <2>2. detached' = [detached EXCEPT ![h] = TRUE] /\ UNCHANGED <<outcome, owner, result>>
    BY <1>10, <2>1 DEF DetachLock, workVars, waitVars
  <2>3. \E x : x \notin Still /\ pc[t] \notin Still /\ pc' = [pc EXCEPT ![t] = x]
    BY <1>10 DEF DetachLock, Still
  <2>4. \A w \in Workers : Stage(w)' = Stage(w)
    BY <2>3, SameStages
  <2>5. Stage(h) # "fresh"
    BY <2>1 DEF Stage
  <2>6. {w \in Workers : detached[w]}' = {w \in Workers : detached[w]} \cup {h}
    BY <2>1, <2>2 DEF SharedTypes
  <2>7. Promise!SetFree(h)
    BY <2>1, <2>2, <2>4, <2>5, <2>6 DEF Promise!SetFree
  <2> QED
    BY <2>7 DEF Promise!Next
<1>11. ASSUME NEW t \in Threads, DetachParent(t)
      PROVE  Promise!Next \/ UNCHANGED Promise!vars
  <2>1. UNCHANGED <<outcome, owner, detached, result>>
    BY <1>11 DEF DetachParent, workVars, sharedVars, waitVars
  <2>2. \E x : x \notin Still /\ pc[t] \notin Still /\ pc' = [pc EXCEPT ![t] = x]
    BY <1>11 DEF DetachParent, Still
  <2> QED
    BY <1>0, <2>1, <2>2
<1>12. ASSUME NEW t \in Threads, WaitLock(t)
      PROVE  Promise!Next \/ UNCHANGED Promise!vars
  <2>1. pc[t] \in InCall /\ UNCHANGED <<outcome, detached, result>> /\ arg[t] \in Workers
    BY <1>12 DEF WaitLock, InCall, workVars, CallInv
  <2>2. CASE result[arg[t]] = "none"
    <3>1. UNCHANGED owner /\ pc' = [pc EXCEPT ![t] = "wait"]
      BY <1>12, <2>2 DEF WaitLock
    <3> QED
      BY <1>0, <2>1, <3>1 DEF InCall, Still
  <2>3. CASE result[arg[t]] # "none"
    <3>1. Answer(t, arg[t], result[arg[t]])
      BY <1>12, <2>3 DEF WaitLock
    <3>2. ~Receiving(arg[t])
      BY <2>1, <2>3 DEF ResultInv, ResultAfterJoin, Receiving
    <3> QED
      BY <2>1, <3>1, <3>2, AnswerImplements DEF Promise!Next
  <2> QED
    BY <2>2, <2>3
<1>13. ASSUME NEW t \in Threads, SignalChild(t)
      PROVE  Promise!Next \/ UNCHANGED Promise!vars
  BY <1>0, <1>13 DEF SignalChild, threadVars, workVars, sharedVars
<1>14. ASSUME NEW t \in Threads, Join(t)
      PROVE  Promise!Next \/ UNCHANGED Promise!vars
  BY <1>0, <1>14 DEF Join, threadVars, workVars, sharedVars
<1>15. ASSUME NEW t \in Threads, WaitChild(t)
      PROVE  Promise!Next \/ UNCHANGED Promise!vars
  BY <1>0, <1>15 DEF WaitChild, threadVars, workVars, sharedVars
<1>16. ASSUME NEW t \in Threads, CloseFrame(t)
      PROVE  Promise!Next \/ UNCHANGED Promise!vars
  <2> DEFINE w == Current(t)
             res == And(frame[w].state, frame[w].low)
             rest == Front(waiting[t])
  <2>1. /\ waiting[t] \in Seq(Workers) /\ waiting[t][1] = arg[t]
        /\ w \in Workers /\ w = waiting[t][Len(waiting[t])]
        /\ Len(rest) = Len(waiting[t]) - 1 /\ rest \in Seq(Workers)
        /\ frame[w].phase = "drain"
    BY <1>16, CloseFrameFrames
  <2>2. res \in {"Ok", "Failed", "Aborted"} /\ (res = "Ok" => frame[w].state = "Ok")
    BY <2>1 DEF And, WaitTypes, Frames
  <2>3. result' = [result EXCEPT ![w] = res] /\ UNCHANGED <<outcome, detached>>
    BY <1>16 DEF CloseFrame, workVars
  <2>4. Stage(w) = "ended" /\ result[w] = "none" /\ (res = "Ok" => outcome[w] = "Ok")
    BY <2>1, <2>2 DEF ResultInv, OpenInv, Stage
  <2>5. (\A v \in Workers : Stage(v)' = Stage(v)) /\ (UNCHANGED owner \/ (owner' = [owner EXCEPT ![w] = NoOne] /\ owner[w] = t))
    <3>1. CASE UNCHANGED threadVars
      <4>1. UNCHANGED pc /\ UNCHANGED owner
        BY <3>1 DEF threadVars
      <4>2. \A v \in Workers : Stage(v)' = Stage(v)
        BY <4>1, SameStages
      <4> QED
        BY <4>1, <4>2
    <3>2. CASE rest = <<>> /\ Answer(t, w, res)
      <4>1. w = arg[t] /\ owner[w] = t
        BY <1>16, <2>1, <3>2 DEF CloseFrame, InCall, CallInv
      <4>2. pc[t] \notin Still
        BY <1>16 DEF CloseFrame, Still
      <4>3. \E x : x \notin Still /\ pc' = [pc EXCEPT ![t] = x]
        <5> HIDE DEF w, res
        <5> QED
          BY <3>2 DEF Answer, Dropped, Home, Still
      <4>4. UNCHANGED owner \/ owner' = [owner EXCEPT ![w] = NoOne]
        <5> HIDE DEF w, res
        <5> QED
          BY <3>2 DEF Answer, Dropped
      <4> QED
        BY <4>1, <4>2, <4>3, <4>4, SameStages
    <3> QED
      BY <1>16, <3>1, <3>2 DEF CloseFrame
  <2> HIDE DEF w, res, rest
  <2>6. t # NoOne
    BY WorkerAssumption
  <2>7. Promise!Answer(w, res)
    BY <2>1, <2>2, <2>3, <2>4, <2>5, <2>6 DEF Promise!Answer, Promise!LetGo
  <2> QED
    BY <2>1, <2>2, <2>7 DEF Promise!Next
<1>17. ASSUME NEW w \in Workers, ObserveCancel(w)
      PROVE  Promise!Next \/ UNCHANGED Promise!vars
  BY <1>0, <1>17, WorkerAssumption DEF ObserveCancel, threadVars, sharedVars, waitVars, Threads
<1>18. ASSUME NEW w \in Workers, NEW o \in Outcomes, EndWork(w, o)
      PROVE  Promise!Next \/ UNCHANGED Promise!vars
  <2>1. \A v \in Workers : Stage(v)' = Stage(v)
    BY <1>18, SameStages DEF EndWork, Still, Threads
  <2>2. Stage(w) = "live" /\ outcome[w] = "none"
    BY <1>18 DEF EndWork, Stage, WorkInv, Over, Dropping
  <2>3. outcome' = [outcome EXCEPT ![w] = o] /\ UNCHANGED <<owner, detached, result>>
    BY <1>18 DEF EndWork, sharedVars, waitVars
  <2>4. Promise!Return(w, o)
    BY <2>1, <2>2, <2>3 DEF Promise!Return
  <2> QED
    BY <2>4, WorkerAssumption DEF Promise!Next
<1>19. ASSUME NEW w \in Workers, Retire(w)
      PROVE  Promise!Next \/ UNCHANGED Promise!vars
  <2>1. \A v \in Workers : Stage(v)' = IF v = w THEN "closing" ELSE Stage(v)
    <3>1. pc'[w] = "retired" /\ \A v \in Workers : v # w => pc'[v] = pc[v]
      BY <1>19 DEF Retire, ThreadTypes, Threads
    <3> QED
      BY <3>1 DEF Stage
  <2>2. Stage(w) = "live" /\ outcome[w] # "none" /\ \A h \in Workers : owner[h] # w
    BY <1>19 DEF Retire, Stage, WorkInv, Over
  <2>3. UNCHANGED <<outcome, owner, detached, result>>
    BY <1>19 DEF Retire, workVars, sharedVars, waitVars
  <2>4. Promise!Close(w)
    BY <2>1, <2>2, <2>3 DEF Promise!Close
  <2> QED
    BY <2>4 DEF Promise!Next
<1>20. ASSUME NEW w \in Workers, SendDone(w)
      PROVE  Promise!Next \/ UNCHANGED Promise!vars
  <2>1. UNCHANGED <<outcome, owner, detached, result>>
    BY <1>20 DEF SendDone, workVars, sharedVars, waitVars
  <2>2. Stage(w) = "closing" /\ (Stage(w)' = "closing" \/ Stage(w)' = "ended")
    BY <1>20 DEF SendDone, Stage, ThreadTypes, Threads
  <2>3. \A v \in Workers : v # w => Stage(v)' = Stage(v)
    BY <1>20 DEF SendDone, Stage, ThreadTypes, Threads
  <2>4. CASE Stage(w)' = "closing"
    BY <2>1, <2>2, <2>3, <2>4, Stutters
  <2>5. CASE Stage(w)' = "ended"
    <3>1. Promise!Exit(w)
      BY <2>1, <2>2, <2>3, <2>5 DEF Promise!Exit
    <3> QED
      BY <3>1 DEF Promise!Next
  <2> QED
    BY <2>2, <2>4, <2>5
<1>21. ASSUME NEW w \in Workers, FailParent(w)
      PROVE  Promise!Next \/ UNCHANGED Promise!vars
  <2>1. UNCHANGED <<outcome, owner, detached, result>>
    BY <1>21 DEF FailParent, workVars, sharedVars, waitVars
  <2>2. Stage(w) = "closing" /\ (Stage(w)' = "closing" \/ Stage(w)' = "ended")
    BY <1>21 DEF FailParent, Stage, ThreadTypes, Threads
  <2>3. \A v \in Workers : v # w => Stage(v)' = Stage(v)
    BY <1>21 DEF FailParent, Stage, ThreadTypes, Threads
  <2>4. CASE Stage(w)' = "closing"
    BY <2>1, <2>2, <2>3, <2>4, Stutters
  <2>5. CASE Stage(w)' = "ended"
    <3>1. Promise!Exit(w)
      BY <2>1, <2>2, <2>3, <2>5 DEF Promise!Exit
    <3> QED
      BY <3>1 DEF Promise!Next
  <2> QED
    BY <2>2, <2>4, <2>5
<1>22. ASSUME NEW w \in Workers, FailSibling(w)
      PROVE  Promise!Next \/ UNCHANGED Promise!vars
  BY <1>0, <1>22, WorkerAssumption DEF FailSibling, threadVars, waitVars, Threads
<1>23. ASSUME NEW w \in Workers, FailDone(w)
      PROVE  Promise!Next \/ UNCHANGED Promise!vars
  <2>1. UNCHANGED <<outcome, owner, detached, result>>
    BY <1>23 DEF FailDone, workVars, sharedVars, waitVars
  <2>2. Stage(w) = "closing" /\ (Stage(w)' = "closing" \/ Stage(w)' = "ended")
    BY <1>23 DEF FailDone, Stage, ThreadTypes, Threads
  <2>3. \A v \in Workers : v # w => Stage(v)' = Stage(v)
    BY <1>23 DEF FailDone, Stage, ThreadTypes, Threads
  <2>4. CASE Stage(w)' = "closing"
    BY <2>1, <2>2, <2>3, <2>4, Stutters
  <2>5. CASE Stage(w)' = "ended"
    <3>1. Promise!Exit(w)
      BY <2>1, <2>2, <2>3, <2>5 DEF Promise!Exit
    <3> QED
      BY <3>1 DEF Promise!Next
  <2> QED
    BY <2>2, <2>4, <2>5
<1> QED
  BY <1>1, <1>2, <1>3, <1>4, <1>5, <1>6, <1>7, <1>8, <1>9, <1>10, <1>11, <1>12, <1>13, <1>14, <1>15, <1>16, <1>17, <1>18, <1>19, <1>20, <1>21, <1>22, <1>23
     DEF Next, Proceed, Epilogue, UserCall

-----------------------------------------------------------------------------
\* The invariants the refinement rests on hold in every state.
LEMMA Invariants ==
  Spec => [](TypeOK /\ CallInv /\ BornInv /\ ResultInv /\ WorkInv /\ OpenInv)
<1> DEFINE I == WorkInv /\ OpenInv
           J == TypeOK /\ CallInv /\ BornInv /\ ResultInv
<1>1. Init => I
  BY WorkerAssumption DEF Init, WorkInv, OpenInv, Over, NoFrame, Threads
<1>2. J /\ I /\ [Next]_vars => I'
  <2> SUFFICES ASSUME J, WorkInv, OpenInv, [Next]_vars
               PROVE  WorkInv' /\ OpenInv'
    OBVIOUS
  <2>1. CASE Next
    BY <2>1, WorkStep, OpenStep
  <2>2. CASE UNCHANGED vars
    BY <2>2 DEF vars, WorkInv, OpenInv
  <2> QED
    BY <2>1, <2>2
<1>3. Spec => []J
  BY Resulting
<1>4. J /\ I => TypeOK /\ CallInv /\ BornInv /\ ResultInv /\ WorkInv /\ OpenInv
  OBVIOUS
<1> HIDE DEF I, J
<1> QED
  BY <1>1, <1>2, <1>3, <1>4, PTL DEF Spec

\* The threads, mutexes, channels and nested wait() calls of the crate do
\* together what Scopes promises of a spawned work, and nothing else.
THEOREM KeepsThePromise == Spec => Scoped
<1> DEFINE J == TypeOK /\ CallInv /\ BornInv /\ ResultInv /\ WorkInv /\ OpenInv
<1>1. Init => Promise!Init
  BY WorkerAssumption DEF Init, Promise!Init, Stage, Threads
<1>2. J /\ [Next]_vars => [Promise!Next]_(Promise!vars)
  <2> SUFFICES ASSUME J, [Next]_vars
               PROVE  Promise!Next \/ UNCHANGED Promise!vars
    OBVIOUS
  <2>1. CASE Next
    BY <2>1, StepImplements
  <2>2. CASE UNCHANGED vars
    BY <2>2 DEF vars, Promise!vars, Stage
  <2> QED
    BY <2>1, <2>2
<1>3. Spec => []J
  BY Invariants
<1> HIDE DEF J
<1> QED
  BY <1>1, <1>2, <1>3, PTL DEF Spec, Scoped, Promise!Spec

\* What the promise says of nesting is an invariant of it.
LEMMA PromiseNests == Scoped /\ []ThreadTypes => []Promise!Nested
<1>1. Promise!Init => Promise!Nested
  BY WorkerAssumption DEF Promise!Init, Promise!Nested, Threads
<1>2. ThreadTypes /\ Promise!Nested /\ [Promise!Next]_(Promise!vars) => Promise!Nested'
  <2> SUFFICES ASSUME ThreadTypes, Promise!Nested, [Promise!Next]_(Promise!vars)
               PROVE  Promise!Nested'
    OBVIOUS
  <2>1. ASSUME NEW t \in Threads, NEW w \in Workers, Promise!Begin(t, w)
        PROVE  Promise!Nested'
    <3>1. \A v \in Workers : owner'[v] = IF v = w THEN t ELSE owner[v]
      BY <2>1 DEF Promise!Begin, ThreadTypes
    <3>2. \A v \in Workers : Stage(v)' = IF v = w THEN "live" ELSE Stage(v)
      BY <2>1 DEF Promise!Begin
    <3>3. t # NoOne /\ (t \in Workers => Stage(t) = "live")
      BY <2>1, WorkerAssumption DEF Promise!Begin
    <3>4. UNCHANGED {v \in Workers : detached[v]}
      BY <2>1 DEF Promise!Begin
    <3> QED
      BY <3>1, <3>2, <3>3, <3>4 DEF Promise!Nested
  <2>2. ASSUME NEW w \in Workers, NEW o \in {"Ok", "Err", "Panic"}, Promise!Return(w, o)
        PROVE  Promise!Nested'
    BY <2>2 DEF Promise!Return, Promise!Nested
  <2>3. ASSUME NEW w \in Workers, NEW a \in {"Ok", "Failed", "Aborted"}, Promise!Answer(w, a)
        PROVE  Promise!Nested'
    <3>1. \/ UNCHANGED owner
          \/ \A v \in Workers : owner'[v] = IF v = w THEN NoOne ELSE owner[v]
      BY <2>3 DEF Promise!Answer, Promise!LetGo, ThreadTypes
    <3>2. \A v \in Workers : Stage(v)' = Stage(v)
      BY <2>3 DEF Promise!Answer
    <3>3. NoOne \notin Workers /\ Stage(w) = "ended"
      BY <2>3, WorkerAssumption DEF Promise!Answer, Threads
    <3>4. UNCHANGED {v \in Workers : detached[v]}
      BY <2>3 DEF Promise!Answer
    <3> QED
      BY <3>1, <3>2, <3>3, <3>4 DEF Promise!Nested
  <2>4. ASSUME NEW w \in Workers, Promise!SetFree(w)
        PROVE  Promise!Nested'
    BY <2>4 DEF Promise!SetFree, Promise!Nested
  <2>5. ASSUME NEW w \in Workers, Promise!Close(w)
        PROVE  Promise!Nested'
    BY <2>5 DEF Promise!Close, Promise!Nested
  <2>6. ASSUME NEW w \in Workers, Promise!Exit(w)
        PROVE  Promise!Nested'
    BY <2>6 DEF Promise!Exit, Promise!Nested
  <2>7. ASSUME NEW w \in Workers, Promise!Release(w)
        PROVE  Promise!Nested'
    BY <2>7, WorkerAssumption DEF ThreadTypes, Promise!Release, Promise!LetGo, Promise!Nested, Threads
  <2>8. CASE UNCHANGED Promise!vars
    BY <2>8 DEF Promise!vars, Promise!Nested
  <2> QED
    BY <2>1, <2>2, <2>3, <2>4, <2>5, <2>6, <2>7, <2>8 DEF Promise!Next
<1> QED
  BY <1>1, <1>2, PTL DEF Scoped, Promise!Spec

\* No work is orphaned, and no thread ends before what it has spawned.
THEOREM Structured == Spec => []NoOrphans
<1>1. Promise!Nested => NoOrphans
  BY WorkerAssumption DEF Promise!Nested, NoOrphans, Stage, Receiving, Threads
<1>2. TypeOK => ThreadTypes
  BY DEF TypeOK
<1> QED
  BY <1>1, <1>2, KeepsThePromise, PromiseNests, TypeCorrect, PTL

-----------------------------------------------------------------------------
(* Failure.                                                                *)

\* A step within the life of a work function that takes no message away.
LEMMA FailureKept ==
  ASSUME ThreadTypes, NEW t \in Threads,
         UNCHANGED pc \/ \E x : x \notin Still /\ pc[t] \notin Still /\ pc' = [pc EXCEPT ![t] = x],
         UNCHANGED <<outcome, cancelled, parent>>,
         \A p \in Workers : signal[p] > 0 => signal'[p] > 0,
         SharedTypes, FailureReachesParent
  PROVE  FailureReachesParent'
<1>1. \A w \in Workers : pc'[w] = pc[w] \/ (pc[w] \notin Still /\ pc'[w] \notin Still)
  BY DEF ThreadTypes, Threads
<1> QED
  BY <1>1 DEF FailureReachesParent, Receiving, Still, SharedTypes

\* Every action keeps the promise to a parent: what fails it is told by
\* FailParent, a message is lost only to ObserveCancel, and a parent that has
\* been spawned never receives again once its WorkerSelf is gone.
LEMMA FailureStep ==
  ASSUME TypeOK, CallInv, BornInv, FailureReachesParent, Next
  PROVE  FailureReachesParent'
<1> USE WorkerAssumption DEF TypeOK, ThreadTypes, WorkTypes, SharedTypes, Threads
<1>1. ASSUME NEW t \in Threads, NEW p \in Workers \cup {NoOne}, NEW h \in Workers, Spawn(t, p, h)
      PROVE  FailureReachesParent'
  BY <1>1 DEF FailureReachesParent, BornInv, Receiving, Spawn, Free, Send, workVars, sharedVars
<1>2. ASSUME NEW t \in Threads, AttachLock(t)
      PROVE  FailureReachesParent'
  BY <1>2 DEF FailureReachesParent, BornInv, Receiving, AttachLock, Send, workVars, sharedVars
<1>3. ASSUME NEW t \in Threads, AttachChild(t)
      PROVE  FailureReachesParent'
  BY <1>3 DEF FailureReachesParent, BornInv, Receiving, AttachChild, Send, workVars, sharedVars
<1>4. ASSUME NEW t \in Threads, NEW h \in Workers, NEW f \in DOMAIN Entry, Call(t, h, f)
      PROVE  FailureReachesParent'
  BY <1>4 DEF FailureReachesParent, BornInv, Receiving, Call, Entry, Free, Send, workVars, sharedVars
<1>5. ASSUME NEW t \in Threads, NEW h \in Workers, Drop(t, h)
      PROVE  FailureReachesParent'
  BY <1>5 DEF FailureReachesParent, BornInv, Receiving, Drop, Free, Send, workVars, sharedVars
<1>6. ASSUME NEW t \in Threads, DropCheck(t)
      PROVE  FailureReachesParent'
  <2>1. UNCHANGED <<outcome, cancelled, parent>> /\ \A p \in Workers : signal[p] > 0 => signal'[p] > 0
    BY <1>6 DEF DropCheck, workVars, sharedVars, Send
  <2>2. \E x : x \notin Still /\ pc[t] \notin Still /\ pc' = [pc EXCEPT ![t] = x]
    BY <1>6 DEF DropCheck, Dropped, Home, Still
  <2> QED
    BY <2>1, <2>2, FailureKept
<1>7. ASSUME NEW t \in Threads, DropWait(t)
      PROVE  FailureReachesParent'
  BY <1>7 DEF FailureReachesParent, BornInv, Receiving, DropWait, Dropped, Home, Unwinding, Send, workVars, sharedVars
<1>8. ASSUME NEW t \in Threads, NEW h \in Workers, Poll(t, h)
      PROVE  FailureReachesParent'
  <2>1. UNCHANGED <<outcome, cancelled, parent, signal>>
    BY <1>8 DEF Poll, sharedVars
  <2>2. UNCHANGED pc \/ \E x : x \notin Still /\ pc[t] \notin Still /\ pc' = [pc EXCEPT ![t] = x]
    BY <1>8 DEF Poll, Free, Still
  <2> QED
    BY <2>1, <2>2, FailureKept
<1>9. ASSUME NEW t \in Threads, Terminate(t)
      PROVE  FailureReachesParent'
  <2>1. UNCHANGED <<outcome, cancelled, parent>> /\ \A p \in Workers : signal[p] > 0 => signal'[p] > 0
    BY <1>9 DEF Terminate, workVars, sharedVars, Send
  <2>2. \E x : x \notin Still /\ pc[t] \notin Still /\ pc' = [pc EXCEPT ![t] = x]
    BY <1>9 DEF Terminate, Answer, Dropped, Home, Still
  <2> QED
    BY <2>1, <2>2, FailureKept
<1>10. ASSUME NEW t \in Threads, DetachLock(t)
      PROVE  FailureReachesParent'
  <2>1. UNCHANGED <<outcome, cancelled, parent>> /\ \A p \in Workers : signal[p] > 0 => signal'[p] > 0
    BY <1>10 DEF DetachLock, workVars, sharedVars, Send
  <2>2. \E x : x \notin Still /\ pc[t] \notin Still /\ pc' = [pc EXCEPT ![t] = x]
    BY <1>10 DEF DetachLock, Still
  <2> QED
    BY <2>1, <2>2, FailureKept
<1>11. ASSUME NEW t \in Threads, DetachParent(t)
      PROVE  FailureReachesParent'
  BY <1>11 DEF FailureReachesParent, BornInv, Receiving, DetachParent, Send, workVars, sharedVars
<1>12. ASSUME NEW t \in Threads, WaitLock(t)
      PROVE  FailureReachesParent'
  BY <1>12 DEF FailureReachesParent, BornInv, Receiving, WaitLock, Answer, Dropped, Home, Unwinding, Send, workVars, sharedVars
<1>13. ASSUME NEW t \in Threads, SignalChild(t)
      PROVE  FailureReachesParent'
  <2>1. UNCHANGED <<pc, outcome, cancelled, parent>>
    BY <1>13 DEF SignalChild, threadVars
  <2>2. \A p \in Workers : signal[p] > 0 => signal'[p] > 0
    BY <1>13 DEF SignalChild, Send
  <2> QED
    BY <2>1, <2>2, FailureKept
<1>14. ASSUME NEW t \in Threads, Join(t)
      PROVE  FailureReachesParent'
  BY <1>14 DEF FailureReachesParent, BornInv, Receiving, Join, threadVars, Send, workVars, sharedVars
<1>15. ASSUME NEW t \in Threads, WaitChild(t)
      PROVE  FailureReachesParent'
  BY <1>15 DEF FailureReachesParent, BornInv, Receiving, WaitChild, threadVars, Send, workVars, sharedVars
<1>16. ASSUME NEW t \in Threads, CloseFrame(t)
      PROVE  FailureReachesParent'
  <2>1. UNCHANGED <<outcome, cancelled, parent, signal>>
    BY <1>16 DEF CloseFrame, workVars
  <2>2. UNCHANGED threadVars \/ \E r : Answer(t, Current(t), r)
    BY <1>16 DEF CloseFrame
  <2>3. UNCHANGED pc \/ \E x : x \notin Still /\ pc' = [pc EXCEPT ![t] = x]
    BY <2>2 DEF Answer, Dropped, Home, Still, threadVars
  <2>4. pc[t] \notin Still
    BY <1>16 DEF CloseFrame, Still
  <2> QED
    BY <2>1, <2>3, <2>4, FailureKept
<1>17. ASSUME NEW w \in Workers, ObserveCancel(w)
      PROVE  FailureReachesParent'
  BY <1>17 DEF FailureReachesParent, BornInv, Receiving, ObserveCancel, threadVars, Send, workVars, sharedVars
<1>18. ASSUME NEW w \in Workers, NEW o \in Outcomes, EndWork(w, o)
      PROVE  FailureReachesParent'
  BY <1>18 DEF FailureReachesParent, BornInv, Receiving, EndWork, Send, workVars, sharedVars
<1>19. ASSUME NEW w \in Workers, Retire(w)
      PROVE  FailureReachesParent'
  BY <1>19 DEF FailureReachesParent, BornInv, Receiving, Retire, Send, workVars, sharedVars
<1>20. ASSUME NEW w \in Workers, SendDone(w)
      PROVE  FailureReachesParent'
  BY <1>20 DEF FailureReachesParent, BornInv, Receiving, SendDone, Send, workVars, sharedVars
<1>21. ASSUME NEW w \in Workers, FailParent(w)
      PROVE  FailureReachesParent'
  BY <1>21 DEF FailureReachesParent, BornInv, Receiving, FailParent, Send, workVars, sharedVars
<1>22. ASSUME NEW w \in Workers, FailSibling(w)
      PROVE  FailureReachesParent'
  BY <1>22 DEF FailureReachesParent, BornInv, Receiving, FailSibling, threadVars, Send, workVars, sharedVars
<1>23. ASSUME NEW w \in Workers, FailDone(w)
      PROVE  FailureReachesParent'
  BY <1>23 DEF FailureReachesParent, BornInv, Receiving, FailDone, Send, workVars, sharedVars
<1> QED
  BY <1>1, <1>2, <1>3, <1>4, <1>5, <1>6, <1>7, <1>8, <1>9, <1>10, <1>11, <1>12, <1>13, <1>14, <1>15, <1>16, <1>17, <1>18, <1>19, <1>20, <1>21, <1>22, <1>23
     DEF Next, Proceed, Epilogue, UserCall

\* A failed thread's parent is stopped, or over, once the thread has reported.
THEOREM FailuresReach == Spec => []FailureReachesParent
<1> DEFINE J == TypeOK /\ CallInv /\ BornInv /\ ResultInv
<1>1. Init => FailureReachesParent
  BY DEF Init, FailureReachesParent
<1>2. J /\ FailureReachesParent /\ [Next]_vars => FailureReachesParent'
  <2> SUFFICES ASSUME J, FailureReachesParent, [Next]_vars
               PROVE  FailureReachesParent'
    OBVIOUS
  <2>1. CASE Next
    BY <2>1, FailureStep
  <2>2. CASE UNCHANGED vars
    BY <2>2 DEF vars, FailureReachesParent, Receiving
  <2> QED
    BY <2>1, <2>2
<1>3. Spec => []J
  BY Resulting
<1> HIDE DEF J
<1> QED
  BY <1>1, <1>2, <1>3, PTL DEF Spec

-----------------------------------------------------------------------------
(* Children.                                                               *)

\* The work of c is over, or has been or will be polled to stop.
Told(c) == ~Receiving(c) \/ signal[c] > 0 \/ cancelled[c]

\* What RemoveAt leaves of a sequence.
LEMMA RemoveAtFacts ==
  ASSUME NEW S, NEW s \in Seq(S), NEW i \in 1..Len(s)
  PROVE  /\ Len(RemoveAt(s, i)) = Len(s) - 1
         /\ \A k \in 1..(i - 1) : RemoveAt(s, i)[k] = s[k]
         /\ \A k \in i..(Len(s) - 1) : RemoveAt(s, i)[k] = s[k + 1]
<1> DEFINE a == SubSeq(s, 1, i - 1)
           b == SubSeq(s, i + 1, Len(s))
<1>0. i \in Nat /\ i >= 1 /\ i <= Len(s) /\ Len(s) \in Nat /\ \A j \in 1..Len(s) : s[j] \in S
  OBVIOUS
<1>1. a \in Seq(S) /\ Len(a) = i - 1 /\ \A k \in 1..(i - 1) : a[k] = s[k]
  <2>1. i - 1 \in Int /\ \A j \in 1..(i - 1) : s[j] \in S
    BY <1>0
  <2>2. /\ a \in Seq(S)
        /\ Len(a) = IF 1 <= i - 1 THEN i - 1 - 1 + 1 ELSE 0
        /\ \A k \in 1..(i - 1 - 1 + 1) : a[k] = s[1 + k - 1]
    BY <2>1, SubSeqProperties
  <2> HIDE DEF a
  <2> QED
    BY <1>0, <2>2
<1>2. b \in Seq(S) /\ Len(b) = Len(s) - i /\ \A k \in 1..(Len(s) - i) : b[k] = s[i + k]
  <2>1. i + 1 \in Int /\ Len(s) \in Int /\ \A j \in (i + 1)..Len(s) : s[j] \in S
    BY <1>0
  <2>2. /\ b \in Seq(S)
        /\ Len(b) = IF i + 1 <= Len(s) THEN Len(s) - (i + 1) + 1 ELSE 0
        /\ \A k \in 1..(Len(s) - (i + 1) + 1) : b[k] = s[i + 1 + k - 1]
    BY <2>1, SubSeqProperties
  <2> HIDE DEF b
  <2> QED
    BY <1>0, <2>2
<1> HIDE DEF a, b
<1>3. /\ Len(a \o b) = Len(a) + Len(b)
      /\ \A k \in 1..(Len(a) + Len(b)) : (a \o b)[k] = IF k <= Len(a) THEN a[k] ELSE b[k - Len(a)]
  BY <1>1, <1>2, ConcatProperties
<1>4. Len(a \o b) = Len(s) - 1
  BY <1>0, <1>1, <1>2, <1>3
<1>5. \A k \in 1..(i - 1) : (a \o b)[k] = s[k]
  BY <1>0, <1>1, <1>2, <1>3
<1>6. \A k \in i..(Len(s) - 1) : (a \o b)[k] = s[k + 1]
  <2> SUFFICES ASSUME NEW k \in i..(Len(s) - 1)
               PROVE  (a \o b)[k] = s[k + 1]
    OBVIOUS
  <2>1. k \in 1..(Len(a) + Len(b)) /\ ~(k <= Len(a)) /\ k - Len(a) \in 1..(Len(s) - i)
    BY <1>0, <1>1, <1>2
  <2>2. (a \o b)[k] = b[k - Len(a)] /\ b[k - Len(a)] = s[i + (k - Len(a))]
    BY <1>2, <1>3, <2>1
  <2>3. i + (k - Len(a)) = k + 1
    BY <1>0, <1>1
  <2> QED
    BY <2>2, <2>3
<1> QED
  BY <1>4, <1>5, <1>6 DEF RemoveAt, a, b

\* A message that was sent waits to be polled, or has been.
LEMMA MessagesKept ==
  ASSUME TypeOK, Next
  PROVE  \A c \in Workers : signal[c] > 0 \/ cancelled[c] => signal'[c] > 0 \/ cancelled'[c]
<1> DEFINE Kept == \A c \in Workers : signal[c] > 0 \/ cancelled[c] => signal'[c] > 0 \/ cancelled'[c]
<1> USE DEF TypeOK, WorkTypes
<1>0. ASSUME UNCHANGED <<signal, cancelled>>
      PROVE  Kept
  BY <1>0
<1>a. ASSUME NEW c, Send(c), UNCHANGED cancelled
      PROVE  Kept
  BY <1>a DEF Send
<1> HIDE DEF Kept
<1>1. ASSUME NEW t \in Threads, NEW h \in Workers, UserCall(t, h)
      PROVE  Kept
  <2>1. UNCHANGED <<signal, cancelled>>
    BY <1>1 DEF UserCall, Spawn, Call, Poll, Drop, workVars
  <2> QED
    BY <1>0, <2>1
<1>2. ASSUME NEW t \in Threads, Proceed(t)
      PROVE  Kept
  <2>1. CASE Terminate(t)
    BY <1>a, <2>1 DEF Terminate
  <2>2. CASE SignalChild(t)
    BY <1>a, <2>2 DEF SignalChild
  <2>3. CASE ~Terminate(t) /\ ~SignalChild(t)
    <3>1. UNCHANGED <<signal, cancelled>>
      BY <1>2, <2>3 DEF Proceed, AttachLock, AttachChild, DropCheck, DropWait, DetachLock,
         DetachParent, WaitLock, Join, WaitChild, CloseFrame, workVars
    <3> QED
      BY <1>0, <3>1
  <2> QED
    BY <2>1, <2>2, <2>3
<1>3. ASSUME NEW w \in Workers, Epilogue(w)
      PROVE  Kept
  <2>1. CASE FailParent(w)
    BY <1>a, <2>1 DEF FailParent
  <2>2. CASE FailSibling(w)
    BY <1>a, <2>2 DEF FailSibling
  <2>3. CASE Retire(w) \/ SendDone(w) \/ FailDone(w)
    BY <1>0, <2>3 DEF Retire, SendDone, FailDone, workVars
  <2> QED
    BY <1>3, <2>1, <2>2, <2>3 DEF Epilogue
<1>4. ASSUME NEW w \in Workers, ObserveCancel(w)
      PROVE  Kept
  BY <1>4 DEF ObserveCancel, Kept
<1>5. ASSUME NEW w \in Workers, NEW o \in Outcomes, EndWork(w, o)
      PROVE  Kept
  BY <1>0, <1>5 DEF EndWork
<1>6. Kept
  BY <1>1, <1>2, <1>3, <1>4, <1>5 DEF Next
<1> QED
  BY <1>6 DEF Kept

\* A work that is over stays so, and what is free stays free.
Grows ==
  \A c \in Workers :
    /\ Stage(c) \in {"closing", "ended"} => Stage(c)' \in {"closing", "ended"}
    /\ detached[c] => detached'[c]

\* The promise says so.
LEMMA PromiseGrows ==
  ASSUME Promise!Next \/ UNCHANGED Promise!vars
  PROVE  Grows
<1> DEFINE free == {w \in Workers : detached[w]}
<1>0. ASSUME free' = free \/ \E w \in Workers : free' = free \cup {w},
             \A c \in Workers : Stage(c) \in {"closing", "ended"} => Stage(c)' \in {"closing", "ended"}
      PROVE  Grows
  BY <1>0 DEF Grows
<1>1. CASE UNCHANGED Promise!vars
  BY <1>0, <1>1 DEF Promise!vars
<1>2. ASSUME NEW t \in Threads, NEW w \in Workers, Promise!Begin(t, w)
      PROVE  Grows
  BY <1>0, <1>2 DEF Promise!Begin
<1>3. ASSUME NEW w \in Workers, NEW o \in {"Ok", "Err", "Panic"}, Promise!Return(w, o)
      PROVE  Grows
  BY <1>0, <1>3 DEF Promise!Return
<1>4. ASSUME NEW w \in Workers, NEW a \in {"Ok", "Failed", "Aborted"}, Promise!Answer(w, a)
      PROVE  Grows
  BY <1>0, <1>4 DEF Promise!Answer
<1>5. ASSUME NEW w \in Workers, Promise!SetFree(w) \/ Promise!Release(w)
      PROVE  Grows
  BY <1>0, <1>5 DEF Promise!SetFree, Promise!Release
<1>6. ASSUME NEW w \in Workers, Promise!Close(w) \/ Promise!Exit(w)
      PROVE  Grows
  BY <1>0, <1>6 DEF Promise!Close, Promise!Exit
<1> QED
  BY <1>1, <1>2, <1>3, <1>4, <1>5, <1>6 DEF Promise!Next

\* What a worker has been told stays true, and what is detached stays so: the
\* refinement says that a work which is over is not taken up again.
LEMMA ToldGrows ==
  ASSUME TypeOK, CallInv, BornInv, ResultInv, WorkInv, OpenInv, Next
  PROVE  \A c \in Workers : /\ pc[c] # "unborn" /\ Told(c) => Told(c)'
                            /\ detached[c] => detached'[c]
<1>1. Grows
  BY StepImplements, PromiseGrows
<1>2. \A c \in Workers : pc[c] # "unborn" => (~Receiving(c) <=> Stage(c) \in {"closing", "ended"})
  BY DEF Receiving, Stage
<1>3. \A c \in Workers : Stage(c)' \in {"closing", "ended"} => ~Receiving(c)'
  BY DEF Receiving, Stage
<1> QED
  BY <1>1, <1>2, <1>3, MessagesKept DEF Grows, Told

\* wait() has told the children it is past, all of them once it drains.
SignalledInv ==
  /\ \A w \in Workers : frame[w].phase = "idle" => frame[w].next = 1
  /\ \A w, c \in Workers : \A i \in 1..Len(children[w]) :
       /\ children[w][i] = c
       /\ frame[w].phase = "drain" \/ i < frame[w].next
       => Told(c)

\* A thread that detaches a worker has marked it before it touches the list.
ToldInv ==
  /\ ListedOrTold
  /\ SignalledInv
  /\ \A t \in Threads : pc[t] = "detachParent" => detached[arg[t]]

Attaching == {"attachLock", "attachChild"}

\* No child leaves the list of p but one that is detached or told.
StillListed(p) ==
  \A c \in Workers :
    (\E i \in 1..Len(children[p]) : children[p][i] = c)
    => \/ detached[c]
       \/ Told(c)'
       \/ \E j \in 1..Len(children'[p]) : children'[p][j] = c

\* A step that takes from the lists only what may leave, spawns no child but
\* one that is about to be attached, and attaches the child when it says so.
LEMMA ListedKeeps ==
  ASSUME TypeOK, CallInv, BornInv, ResultInv, WorkInv, OpenInv, ListedOrTold, Next,
         \A c \in Workers : pc[c] # "unborn" => parent'[c] = parent[c],
         \A c \in Workers : pc[c] = "unborn" =>
           \/ pc'[c] = "unborn"
           \/ parent'[c] = NoOne
           \/ \E u \in Threads : pc'[u] \in Attaching /\ arg'[u] = c,
         \A u \in Threads : pc[u] \in Attaching =>
           \/ pc'[u] \in Attaching /\ arg'[u] = arg[u]
           \/ parent'[arg[u]] \in Workers =>
                \E j \in 1..Len(children'[parent'[arg[u]]]) :
                   children'[parent'[arg[u]]][j] = arg[u],
         \A p \in Workers : StillListed(p)
  PROVE  ListedOrTold'
<1> SUFFICES ASSUME NEW c \in Workers,
                    parent'[c] # NoOne,
                    Receiving(c)',
                    ~detached'[c],
                    \A u \in Threads : arg'[u] = c => pc'[u] \notin Attaching
             PROVE  \/ \E j \in 1..Len(children'[parent'[c]]) : children'[parent'[c]][j] = c
                    \/ Told(c)'
  BY DEF ListedOrTold, Attaching, Told
<1>1. pc[c] # "unborn" /\ parent'[c] = parent[c] /\ parent[c] \in Workers
  <2>1. pc'[c] # "unborn"
    BY DEF Receiving
  <2> QED
    BY <2>1 DEF TypeOK, SharedTypes
<1>2. CASE Told(c)
  BY <1>1, <1>2, ToldGrows
<1>3. CASE \E u \in Threads : arg[u] = c /\ pc[u] \in Attaching
  BY <1>1, <1>3
<1>4. CASE ~Told(c) /\ \A u \in Threads : arg[u] = c => pc[u] \notin Attaching
  <2>1. ~detached[c]
    BY ToldGrows
  <2>2. PICK i \in 1..Len(children[parent[c]]) : children[parent[c]][i] = c
    BY <1>1, <1>4, <2>1 DEF ListedOrTold, Told, Attaching
  <2>3. StillListed(parent[c])
    BY <1>1
  <2> QED
    BY <1>1, <2>1, <2>2, <2>3 DEF StillListed
<1> QED
  BY <1>2, <1>3, <1>4

\* A list that does not change.
LEMMA SameListed ==
  ASSUME NEW p \in Workers, children'[p] = children[p]
  PROVE  StillListed(p)
BY DEF StillListed

\* A step after which wait() is not past children it has not told.
LEMMA SignalledKeeps ==
  ASSUME TypeOK, CallInv, BornInv, ResultInv, WorkInv, OpenInv, SignalledInv, Next,
         \A w \in Workers : frame'[w].phase = "idle" => frame'[w].next = 1,
         \A w, c \in Workers : \A i \in 1..Len(children'[w]) :
           /\ children'[w][i] = c
           /\ frame'[w].phase = "drain" \/ i < frame'[w].next
           => \/ Told(c)'
              \/ /\ i \in 1..Len(children[w])
                 /\ children[w][i] = c
                 /\ frame[w].phase = "drain" \/ i < frame[w].next
  PROVE  SignalledInv'
<1> SUFFICES ASSUME NEW w \in Workers, NEW c \in Workers, NEW i \in 1..Len(children'[w]),
                    children'[w][i] = c,
                    frame'[w].phase = "drain" \/ i < frame'[w].next
             PROVE  Told(c)'
  BY DEF SignalledInv
<1>1. CASE /\ i \in 1..Len(children[w])
           /\ children[w][i] = c
           /\ frame[w].phase = "drain" \/ i < frame[w].next
  <2>1. Told(c) /\ pc[c] # "unborn"
    BY <1>1 DEF SignalledInv, BornInv
  <2> QED
    BY <2>1, ToldGrows
<1> QED
  BY <1>1

\* What is being detached was marked before.
LEMMA DetachKept ==
  ASSUME TypeOK, CallInv, BornInv, ResultInv, WorkInv, OpenInv, ToldInv, Next,
         NEW u \in Threads, pc[u] = "detachParent", arg'[u] = arg[u]
  PROVE  detached'[arg'[u]]
<1>1. arg[u] \in Workers /\ detached[arg[u]]
  BY ArgBorn DEF ToldInv, InCall
<1> QED
  BY <1>1, ToldGrows

\* A step of thread t that neither attaches nor begins to detach.
LEMMA ToldMoves ==
  ASSUME TypeOK, CallInv, BornInv, ResultInv, WorkInv, OpenInv, ToldInv, Next,
         NEW t \in Threads, pc[t] \notin {"unborn", "attachLock", "attachChild"},
         pc'[t] # "detachParent",
         \A u \in Threads \ {t} : pc'[u] = pc[u] /\ arg'[u] = arg[u],
         UNCHANGED parent,
         SignalledInv',
         \A w \in Workers : StillListed(w)
  PROVE  ToldInv'
<1>1. ASSUME NEW u \in Threads, pc'[u] = "detachParent"
      PROVE  detached'[arg'[u]]
  <2>1. pc[u] = "detachParent" /\ arg'[u] = arg[u]
    BY <1>1
  <2> QED
    BY <2>1, DetachKept
<1>2. ListedOrTold'
  <2>1. \A c \in Workers : pc[c] = "unborn" => pc'[c] = "unborn"
    BY DEF Threads
  <2>2. \A u \in Threads : pc[u] \in Attaching => pc'[u] \in Attaching /\ arg'[u] = arg[u]
    BY DEF Attaching
  <2>3. ListedOrTold
    BY DEF ToldInv
  <2> QED
    BY <2>1, <2>2, <2>3, ListedKeeps
<1> QED
  BY <1>1, <1>2 DEF ToldInv

\* Such a step outside wait(), which leaves the lists of those who wait alone.
LEMMA SignalledStays ==
  ASSUME TypeOK, CallInv, BornInv, ResultInv, WorkInv, OpenInv, SignalledInv, Next,
         UNCHANGED frame,
         \A w \in Workers : children'[w] = children[w] \/ frame[w].phase = "idle"
  PROVE  SignalledInv'
<1>1. \A w \in Workers : frame[w].phase = "idle" => frame[w].next = 1
  BY DEF SignalledInv
<1>2. ASSUME NEW w \in Workers, NEW c \in Workers, NEW i \in 1..Len(children'[w]),
             children'[w][i] = c,
             frame[w].phase = "drain" \/ i < frame[w].next
      PROVE  i \in 1..Len(children[w]) /\ children[w][i] = c
  <2>1. frame[w].phase # "idle"
    BY <1>1, <1>2
  <2> QED
    BY <1>2, <2>1
<1> QED
  BY <1>1, <1>2, SignalledKeeps

LEMMA ToldQuietly ==
  ASSUME TypeOK, CallInv, BornInv, ResultInv, WorkInv, OpenInv, ToldInv, Next,
         NEW t \in Threads, pc[t] \notin {"unborn", "attachLock", "attachChild"},
         pc'[t] # "detachParent",
         \A u \in Threads \ {t} : pc'[u] = pc[u] /\ arg'[u] = arg[u],
         UNCHANGED <<parent, frame>>,
         \A w \in Workers : \/ children'[w] = children[w]
                            \/ frame[w].phase = "idle" /\ StillListed(w)
  PROVE  ToldInv'
<1>1. SignalledInv'
  BY SignalledStays DEF ToldInv
<1>2. \A w \in Workers : StillListed(w)
  BY SameListed
<1> QED
  BY <1>1, <1>2, ToldMoves

\* A child that wait() signals is told, one that leaves the list has nothing to hear.
LEMMA ToldSignals ==
  ASSUME TypeOK, CallInv, BornInv, ResultInv, WorkInv, OpenInv, ToldInv, Next,
         NEW t \in Threads, SignalChild(t)
  PROVE  ToldInv'
<1> DEFINE w == Current(t)
           n == frame[w].next
           s == children[w]
<1>1. w \in Workers /\ pc[t] = "wait" /\ n \in 1..Len(s) /\ s \in Seq(Workers) /\ s[n] \in Workers
  <2>1. w \in Workers /\ pc[t] = "wait" /\ n <= Len(s)
    BY CurrentWorker DEF SignalChild
  <2>2. n \in Nat \ {0} /\ s \in Seq(Workers)
    BY <2>1 DEF TypeOK, WaitTypes, SharedTypes, Frames
  <2> HIDE DEF w, n, s
  <2> QED
    BY <2>1, <2>2
<1>0. PICK c \in Workers : c = s[n]
  BY <1>1
<1>2. frame[w].phase = "signal" /\ Send(c) /\ UNCHANGED <<pc, arg, parent>>
  BY <1>0 DEF SignalChild, threadVars
<1>3. CASE Receiving(c)
  <2>1. frame' = [frame EXCEPT ![w].next = n + 1] /\ UNCHANGED children
    BY <1>0, <1>3 DEF SignalChild
  <2> HIDE DEF w, n, s
  <2>2. \A v \in Workers : /\ frame'[v].phase = frame[v].phase
                           /\ frame'[v].next = IF v = w THEN n + 1 ELSE frame[v].next
    BY <1>1, <2>1 DEF TypeOK, WaitTypes, Frames
  <2>3. Told(c)'
    BY <1>1, <1>2, <1>3 DEF Send, Told, TypeOK, WorkTypes
  <2>4. \A v \in Workers : frame'[v].phase = "idle" => frame'[v].next = 1
    BY <1>2, <2>2 DEF ToldInv, SignalledInv
  <2>5. ASSUME NEW v \in Workers, NEW x \in Workers, NEW i \in 1..Len(children'[v]),
               children'[v][i] = x,
               frame'[v].phase = "drain" \/ i < frame'[v].next
        PROVE  Told(x)' \/ (/\ i \in 1..Len(children[v])
                            /\ children[v][i] = x
                            /\ frame[v].phase = "drain" \/ i < frame[v].next)
    <3>1. i \in 1..Len(children[v]) /\ children[v][i] = x
      BY <2>1, <2>5
    <3>2. CASE v = w /\ i = n
      BY <1>0, <2>3, <3>1, <3>2 DEF s
    <3>3. CASE v # w \/ i # n
      BY <1>1, <2>2, <2>5, <3>1, <3>3 DEF n
    <3> QED
      BY <3>2, <3>3
  <2>6. SignalledInv'
    BY <2>4, <2>5, SignalledKeeps DEF ToldInv
  <2> QED
    BY <1>1, <1>2, <2>1, <2>6, SameListed, ToldMoves
<1>4. CASE ~Receiving(c)
  <2>1. /\ children' = [children EXCEPT ![w] = RemoveAt(s, n)]
        /\ frame' = [frame EXCEPT ![w].low = "Aborted"]
    BY <1>0, <1>4 DEF SignalChild
  <2>2. Told(c)'
    <3>1. Told(c)
      BY <1>4 DEF Told
    <3> HIDE DEF w, n
    <3>2. pc[c] # "unborn"
      BY <1>0, <1>1 DEF BornInv
    <3> QED
      BY <3>1, <3>2, ToldGrows
  <2>3. /\ RemoveAt(s, n) \in Seq(Workers)
        /\ Len(RemoveAt(s, n)) = Len(s) - 1
        /\ \A k \in 1..(n - 1) : RemoveAt(s, n)[k] = s[k]
        /\ \A k \in n..(Len(s) - 1) : RemoveAt(s, n)[k] = s[k + 1]
    <3> HIDE DEF s, n
    <3> QED
      BY <1>1, RemoveAtType, RemoveAtFacts
  <2> DEFINE r == RemoveAt(s, n)
  <2>4. children'[w] = r /\ \A v \in Workers \ {w} : children'[v] = children[v]
    <3> HIDE DEF w, r, s
    <3> QED
      BY <1>1, <2>1 DEF TypeOK, SharedTypes, r
  <2>5. \A v \in Workers : /\ frame'[v].phase = frame[v].phase
                           /\ frame'[v].next = frame[v].next
    <3> HIDE DEF w, r, s
    <3> QED
      BY <1>1, <2>1 DEF TypeOK, WaitTypes, Frames
  <2> HIDE DEF w, n, s, r
  <2>6. \A v \in Workers : frame'[v].phase = "idle" => frame'[v].next = 1
    BY <2>5 DEF ToldInv, SignalledInv
  <2>7. ASSUME NEW v \in Workers, NEW x \in Workers, NEW i \in 1..Len(children'[v]),
               children'[v][i] = x,
               frame'[v].phase = "drain" \/ i < frame'[v].next
        PROVE  /\ i \in 1..Len(children[v])
               /\ children[v][i] = x
               /\ frame[v].phase = "drain" \/ i < frame[v].next
    <3>1. CASE v # w
      BY <2>4, <2>5, <2>7, <3>1
    <3>2. CASE v = w
      <4>1. i < n
        BY <1>2, <2>5, <2>7, <3>2 DEF n
      <4>2. i \in 1..Len(s) /\ i \in 1..(n - 1) /\ r[i] = x
        BY <1>1, <2>3, <2>4, <2>7, <3>2, <4>1 DEF r
      <4>3. s[i] = x
        BY <2>3, <4>2 DEF r
      <4> QED
        BY <3>2, <4>1, <4>2, <4>3 DEF s, n
    <3> QED
      BY <3>1, <3>2
  <2>8. SignalledInv'
    BY <2>6, <2>7, SignalledKeeps DEF ToldInv
  <2>9. StillListed(w)
    <3> SUFFICES ASSUME NEW x \in Workers, NEW k \in 1..Len(s), s[k] = x, x # c
                 PROVE  \E j \in 1..Len(r) : r[j] = x
      BY <2>2, <2>4 DEF StillListed, s
    <3>1. k < n \/ k > n
      BY <1>0, <1>1
    <3>2. CASE k < n
      BY <1>1, <2>3, <3>2 DEF r
    <3>3. CASE k > n
      <4>1. k - 1 \in n..(Len(s) - 1) /\ k - 1 \in 1..Len(r) /\ k - 1 + 1 = k
        BY <1>1, <2>3, <3>3 DEF r
      <4> QED
        BY <2>3, <4>1 DEF r
    <3> QED
      BY <3>1, <3>2, <3>3
  <2>10. \A v \in Workers : StillListed(v)
    BY <2>4, <2>9, SameListed
  <2> QED
    BY <1>1, <1>2, <2>8, <2>10, ToldMoves
<1> QED
  BY <1>3, <1>4

\* Popping a child that is told.
LEMMA PopKeeps ==
  ASSUME SharedTypes, NEW p \in Workers, children[p] # <<>>,
         children' = [children EXCEPT ![p] = Front(@)],
         NEW c \in Workers, c = Last(children[p]), Told(c)'
  PROVE  \A w \in Workers :
           /\ StillListed(w)
           /\ \A i \in 1..Len(children'[w]) :
                i \in 1..Len(children[w]) /\ children'[w][i] = children[w][i]
<1> DEFINE s == children[p]
           r == Front(s)
<1>1. s \in Seq(Workers) /\ s # <<>>
  BY DEF SharedTypes
<1>2. /\ Len(r) = Len(s) - 1
      /\ \A i \in 1..(Len(s) - 1) : r[i] = s[i]
      /\ Len(s) \in Nat \ {0}
      /\ c = s[Len(s)]
  <2> HIDE DEF s
  <2> QED
    BY <1>1, FrontLast DEF s
<1>3. children'[p] = r /\ \A w \in Workers \ {p} : children'[w] = children[w]
  <2> HIDE DEF r
  <2> QED
    BY DEF SharedTypes, r
<1> HIDE DEF r, s
<1>4. StillListed(p)
  <2> SUFFICES ASSUME NEW x \in Workers, NEW k \in 1..Len(s), s[k] = x, x # c
               PROVE  \E j \in 1..Len(r) : r[j] = x
    BY <1>3 DEF StillListed, s
  <2>1. k \in 1..Len(r) /\ r[k] = s[k]
    BY <1>2
  <2> QED
    BY <2>1
<1>5. \A i \in 1..Len(children'[p]) : i \in 1..Len(children[p]) /\ children'[p][i] = children[p][i]
  BY <1>2, <1>3 DEF s
<1> QED
  BY <1>3, <1>4, <1>5, SameListed

\* A thread about to be joined has told all its children.
LEMMA ToldJoins ==
  ASSUME TypeOK, CallInv, BornInv, ResultInv, WorkInv, OpenInv, ToldInv, Next,
         NEW t \in Threads, Join(t)
  PROVE  ToldInv'
<1> DEFINE w == Current(t)
           st == IF thread[w] THEN Joined(w) ELSE "Aborted"
<1>1. /\ w \in Workers /\ pc[t] = "wait" /\ UNCHANGED <<pc, arg, parent, children>>
      /\ frame[w].next > Len(children[w])
      /\ frame' = [frame EXCEPT ![w].phase = "drain", ![w].state = st]
  BY CurrentWorker DEF Join, threadVars, sharedVars
<1> HIDE DEF w, st
<1>2. \A v \in Workers : /\ frame'[v].phase = IF v = w THEN "drain" ELSE frame[v].phase
                         /\ frame'[v].next = frame[v].next
  BY <1>1 DEF TypeOK, WaitTypes, Frames
<1>3. frame[w].next \in Nat /\ Len(children[w]) \in Nat
  BY <1>1 DEF TypeOK, WaitTypes, SharedTypes, Frames
<1>4. \A v \in Workers : frame'[v].phase = "idle" => frame'[v].next = 1
  BY <1>2 DEF ToldInv, SignalledInv
<1>5. ASSUME NEW v \in Workers, NEW i \in 1..Len(children'[v]),
             frame'[v].phase = "drain" \/ i < frame'[v].next
      PROVE  i \in 1..Len(children[v]) /\ (frame[v].phase = "drain" \/ i < frame[v].next)
  BY <1>1, <1>2, <1>3, <1>5
<1>6. SignalledInv'
  BY <1>1, <1>4, <1>5, SignalledKeeps DEF ToldInv
<1> QED
  BY <1>1, <1>6, SameListed, ToldMoves

\* An opened frame starts at the first child.
LEMMA OpenNext ==
  ASSUME TypeOK, NEW t \in Threads, NEW v \in Workers, OpenFrame(t, v)
  PROVE  \A w \in Workers : /\ frame'[w].phase = IF w = v THEN "signal" ELSE frame[w].phase
                            /\ frame'[w].next = frame[w].next
BY DEF OpenFrame, TypeOK, WaitTypes, Frames

\* A frame is opened on a worker that nobody waits for.
LEMMA OpensIdle ==
  ASSUME JoinInv, NEW v \in Workers, lock[v] = NoOne
  PROVE  frame[v].phase = "idle"
BY DEF JoinInv

\* A child that wait() takes off the list to wait for it is told.
LEMMA ToldWaits ==
  ASSUME TypeOK, CallInv, BornInv, ResultInv, WorkInv, OpenInv, JoinInv, ToldInv, Next,
         NEW t \in Threads, WaitChild(t)
  PROVE  ToldInv'
<1> DEFINE w == Current(t)
           s == children[w]
<1>1. /\ w \in Workers /\ frame[w].phase = "drain"
      /\ Last(s) \in Workers /\ lock[Last(s)] = NoOne
      /\ Len(s) \in 1..Len(s) /\ Last(s) = s[Len(s)]
  BY WaitChildFrames
<1>2. PICK c \in Workers : c = Last(s)
  BY <1>1
<1>3. /\ pc[t] = "wait" /\ UNCHANGED <<pc, arg, parent>>
      /\ s # <<>> /\ children' = [children EXCEPT ![w] = Front(@)]
      /\ \/ OpenFrame(t, c)
         \/ frame' = [frame EXCEPT ![w].state = And(@, result[c])]
  BY <1>2 DEF WaitChild, threadVars
<1>4. Told(c)'
  <2>1. Told(c)
    BY <1>1, <1>2 DEF ToldInv, SignalledInv
  <2> HIDE DEF w
  <2>2. pc[c] # "unborn"
    BY <1>1, <1>2 DEF BornInv
  <2> QED
    BY <2>1, <2>2, ToldGrows
<1> HIDE DEF w
<1>5. \A v \in Workers :
        /\ StillListed(v)
        /\ \A i \in 1..Len(children'[v]) :
             i \in 1..Len(children[v]) /\ children'[v][i] = children[v][i]
  BY <1>1, <1>2, <1>3, <1>4, PopKeeps DEF TypeOK
<1>6. \A v \in Workers :
        /\ \/ frame'[v].phase = frame[v].phase
           \/ frame[v].phase = "idle" /\ frame'[v].phase = "signal"
        /\ frame'[v].next = frame[v].next
  <2>1. CASE OpenFrame(t, c)
    <3>1. frame[c].phase = "idle"
      BY <1>1, <1>2, OpensIdle
    <3>2. \A v \in Workers : /\ frame'[v].phase = IF v = c THEN "signal" ELSE frame[v].phase
                             /\ frame'[v].next = frame[v].next
      BY <2>1, OpenNext
    <3> QED
      BY <3>1, <3>2
  <2>2. ASSUME NEW x, frame' = [frame EXCEPT ![w].state = x]
        PROVE  \A v \in Workers : frame'[v].phase = frame[v].phase /\ frame'[v].next = frame[v].next
    BY <1>1, <2>2 DEF TypeOK, WaitTypes, Frames
  <2>3. OpenFrame(t, c) \/ \E x : frame' = [frame EXCEPT ![w].state = x]
    BY <1>3
  <2> QED
    BY <2>1, <2>2, <2>3
<1>7. \A v \in Workers : frame'[v].phase = "idle" => frame'[v].next = 1
  BY <1>6 DEF ToldInv, SignalledInv
<1>8. \A v \in Workers : \A i \in 1..Len(children'[v]) :
        frame'[v].phase = "drain" \/ i < frame'[v].next
        => frame[v].phase = "drain" \/ i < frame[v].next
  BY <1>6
<1>9. SignalledInv'
  BY <1>5, <1>7, <1>8, SignalledKeeps DEF ToldInv
<1> QED
  BY <1>3, <1>5, <1>9, ToldMoves

\* The end of wait() leaves a fresh frame.
LEMMA ToldCloses ==
  ASSUME TypeOK, CallInv, BornInv, ResultInv, WorkInv, OpenInv, ToldInv, Next,
         NEW t \in Threads, CloseFrame(t)
  PROVE  ToldInv'
<1> DEFINE w == Current(t)
           f == [frame EXCEPT ![w] = NoFrame]
<1>1. w \in Workers /\ \A v \in Workers : frame'[v].phase = IF v = w THEN "idle" ELSE frame[v].phase
  BY CloseFrameFrames
<1>2. pc[t] = "wait" /\ UNCHANGED <<parent, children>>
  BY DEF CloseFrame
<1>3. /\ pc'[t] # "detachParent"
      /\ \A u \in Threads \ {t} : pc'[u] = pc[u] /\ arg'[u] = arg[u]
  <2>1. UNCHANGED threadVars \/ \E r : Answer(t, w, r)
    BY DEF CloseFrame
  <2>2. CASE UNCHANGED threadVars
    BY <1>2, <2>2 DEF threadVars
  <2>3. ASSUME NEW r, Answer(t, w, r)
        PROVE  <1>3
    <3>1. Returns(t, w)
      BY <1>1, <2>3, AnswerReturns DEF TypeOK
    <3> QED
      BY <3>1, ReturnsFree DEF TypeOK, Holding
  <2> QED
    BY <2>1, <2>2, <2>3
<1>4. \A v \in Workers : frame'[v].next = IF v = w THEN 1 ELSE frame[v].next
  <2>1. f \in [Workers -> Frames] /\ \A v \in Workers : f[v] = IF v = w THEN NoFrame ELSE frame[v]
    <3>1. NoFrame \in Frames
      BY DEF NoFrame, Frames
    <3> HIDE DEF w
    <3> QED
      BY <1>1, <3>1 DEF TypeOK, WaitTypes
  <2>2. NoFrame.next = 1
    BY DEF NoFrame
  <2>3. frame' = f \/ \E u, x : frame' = [f EXCEPT ![u].state = x]
    BY DEF CloseFrame
  <2> HIDE DEF f, w
  <2>4. \A v \in Workers : frame'[v].next = f[v].next
    BY <2>1, <2>3 DEF Frames
  <2>5. ASSUME NEW v \in Workers
        PROVE  f[v].next = IF v = w THEN 1 ELSE frame[v].next
    BY <2>1, <2>2
  <2> QED
    BY <2>4, <2>5
<1> HIDE DEF w, f
<1>5. \A v \in Workers : frame'[v].phase = "idle" => frame'[v].next = 1
  BY <1>1, <1>4 DEF ToldInv, SignalledInv
<1>6. \A v \in Workers : \A i \in 1..Len(children'[v]) :
        frame'[v].phase = "drain" \/ i < frame'[v].next
        => frame[v].phase = "drain" \/ i < frame[v].next
  BY <1>1, <1>4
<1>7. SignalledInv'
  BY <1>2, <1>5, <1>6, SignalledKeeps DEF ToldInv
<1> QED
  BY <1>2, <1>3, <1>7, SameListed, ToldMoves
\* A worker whose mutex somebody holds outside wait(), or nobody, has no frame.
LEMMA NoFrameOpen ==
  ASSUME JoinInv, NEW w \in Workers, lock[w] = NoOne \/ pc[lock[w]] # "wait"
  PROVE  frame[w].phase = "idle"
BY DEF JoinInv

\* Every action keeps ToldInv.
LEMMA ToldStep ==
  ASSUME TypeOK, CallInv, BornInv, ResultInv, WorkInv, OpenInv, HeldInv, JoinInv, ToldInv, Next
  PROVE  ToldInv'
<1> DEFINE Quiet(t) ==
             /\ pc[t] \notin {"unborn", "attachLock", "attachChild"}
             /\ pc'[t] # "detachParent"
             /\ \A u \in Threads \ {t} : pc'[u] = pc[u] /\ arg'[u] = arg[u]
             /\ UNCHANGED <<parent, frame>>
<1>a. ASSUME NEW t \in Threads, Quiet(t), UNCHANGED children
      PROVE  ToldInv'
  BY <1>a, ToldQuietly
<1>b. ASSUME NEW t \in Threads, NEW p, Quiet(t),
             \A w \in Workers : w # p => children'[w] = children[w],
             p \in Workers => frame[p].phase = "idle" /\ StillListed(p)
      PROVE  ToldInv'
  BY <1>b, ToldQuietly
<1>c. ASSUME NEW t \in Threads, NEW w, Returns(t, w),
             pc[t] \notin {"unborn", "attachLock", "attachChild"},
             UNCHANGED <<parent, frame, children>>
      PROVE  ToldInv'
  <2>1. Quiet(t)
    BY <1>c, ReturnsFree DEF Holding, TypeOK
  <2> HIDE DEF Quiet
  <2> QED
    BY <1>a, <1>c, <2>1
<1> USE DEF TypeOK, ThreadTypes
<1>1. ASSUME NEW t \in Threads, NEW p \in Workers \cup {NoOne}, NEW h \in Workers, Spawn(t, p, h)
      PROVE  ToldInv'
  <2>1. /\ pc[t] = "body" /\ pc[h] = "unborn" /\ pc'[h] = "body"
        /\ pc'[t] = IF p = NoOne THEN "body" ELSE "attachLock"
        /\ p # NoOne => arg'[t] = h
        /\ \A u \in Threads \ {t, h} : pc'[u] = pc[u] /\ arg'[u] = arg[u]
        /\ UNCHANGED <<children, frame>>
    BY <1>1 DEF Spawn, Free, Threads, waitVars
  <2>2. parent'[h] = p /\ \A c \in Workers \ {h} : parent'[c] = parent[c]
    BY <1>1 DEF Spawn, SharedTypes
  <2>3. \A c \in Workers : pc[c] # "unborn" => parent'[c] = parent[c]
    BY <2>1, <2>2
  <2>4. ASSUME NEW c \in Workers, pc[c] = "unborn"
        PROVE  \/ pc'[c] = "unborn"
               \/ parent'[c] = NoOne
               \/ \E u \in Threads : pc'[u] \in Attaching /\ arg'[u] = c
    <3>1. CASE c = h
      BY <2>1, <2>2, <3>1 DEF Attaching
    <3>2. CASE c # h
      BY <2>1, <2>4, <3>2 DEF Threads
    <3> QED
      BY <3>1, <3>2
  <2>5. \A u \in Threads : pc[u] \in Attaching => pc'[u] \in Attaching /\ arg'[u] = arg[u]
    BY <2>1 DEF Attaching
  <2>6. ListedOrTold
    BY DEF ToldInv
  <2>7. ListedOrTold'
    BY <2>1, <2>3, <2>4, <2>5, <2>6, SameListed, ListedKeeps
  <2>8. SignalledInv'
    BY <2>1, SignalledStays DEF ToldInv
  <2>9. \A u \in Threads : pc'[u] = "detachParent" => pc[u] = "detachParent" /\ arg'[u] = arg[u]
    BY <2>1
  <2> QED
    BY <2>7, <2>8, <2>9, DetachKept DEF ToldInv
<1>2. ASSUME NEW t \in Threads, AttachLock(t)
      PROVE  ToldInv'
  <2>1. /\ pc[t] = "attachLock" /\ pc'[t] = "attachChild"
        /\ \A u \in Threads \ {t} : pc'[u] = pc[u]
        /\ UNCHANGED <<arg, parent, children, frame>>
    BY <1>2 DEF AttachLock, waitVars
  <2>2. \A c \in Workers : pc[c] = "unborn" => pc'[c] = "unborn"
    BY <2>1 DEF Threads
  <2>3. \A u \in Threads : pc[u] \in Attaching => pc'[u] \in Attaching /\ arg'[u] = arg[u]
    BY <2>1 DEF Attaching
  <2>4. ListedOrTold
    BY DEF ToldInv
  <2>5. ListedOrTold'
    BY <2>1, <2>2, <2>3, <2>4, SameListed, ListedKeeps
  <2>6. SignalledInv'
    BY <2>1, SignalledStays DEF ToldInv
  <2>7. \A u \in Threads : pc'[u] = "detachParent" => pc[u] = "detachParent" /\ arg'[u] = arg[u]
    BY <2>1
  <2> QED
    BY <2>5, <2>6, <2>7, DetachKept DEF ToldInv
<1>3. ASSUME NEW t \in Threads, AttachChild(t)
      PROVE  ToldInv'
  <2>1. /\ pc[t] = "attachChild" /\ pc'[t] = "body"
        /\ \A u \in Threads \ {t} : pc'[u] = pc[u] /\ arg'[u] = arg[u]
        /\ UNCHANGED <<parent, frame>>
    BY <1>3 DEF AttachChild, waitVars
  <2>2. PICK c \in Workers : c = arg[t]
    BY <2>1, ArgBorn DEF InCall
  <2>3. PICK p : p = parent[c]
    OBVIOUS
  <2>4. children' = [children EXCEPT ![p] = Append(@, c)]
    BY <1>3, <2>2, <2>3 DEF AttachChild
  <2>5. \A w \in Workers : children'[w] = IF w = p THEN Append(children[w], c) ELSE children[w]
    BY <2>4 DEF SharedTypes
  <2>6. ASSUME p \in Workers
        PROVE  /\ StillListed(p)
               /\ frame[p].phase = "idle"
               /\ \E j \in 1..Len(children'[p]) : children'[p][j] = c
    <3>1. children[p] \in Seq(Workers)
      BY <2>6 DEF SharedTypes
    <3>2. /\ Len(children'[p]) = Len(children[p]) + 1
          /\ Len(children[p]) \in Nat
          /\ \A i \in 1..Len(children[p]) : children'[p][i] = children[p][i]
          /\ children'[p][Len(children[p]) + 1] = c
      <4>1. children'[p] = Append(children[p], c)
        BY <2>5, <2>6
      <4> QED
        BY <3>1, <4>1, AppendFacts
    <3>3. Holds(t, p)
      BY <2>1, <2>2, <2>3 DEF Holds
    <3>4. lock[p] = t
      BY <2>6, <3>3 DEF HeldInv
    <3>5. frame[p].phase = "idle"
      BY <2>1, <2>6, <3>4, NoFrameOpen
    <3>6. StillListed(p)
      BY <3>2 DEF StillListed
    <3>7. \E j \in 1..Len(children'[p]) : children'[p][j] = c
      BY <3>2
    <3> QED
      BY <3>5, <3>6, <3>7
  <2>7. \A w \in Workers : StillListed(w) /\ (children'[w] = children[w] \/ frame[w].phase = "idle")
    BY <2>5, <2>6, SameListed
  <2>8. \A x \in Workers : pc[x] = "unborn" => pc'[x] = "unborn"
    BY <2>1 DEF Threads
  <2>9. \A u \in Threads : pc[u] \in Attaching =>
          \/ pc'[u] \in Attaching /\ arg'[u] = arg[u]
          \/ parent'[arg[u]] \in Workers =>
               \E j \in 1..Len(children'[parent'[arg[u]]]) :
                  children'[parent'[arg[u]]][j] = arg[u]
    <3> SUFFICES ASSUME NEW u \in Threads, pc[u] \in Attaching, u = t, p \in Workers
                 PROVE  \E j \in 1..Len(children'[parent'[arg[u]]]) :
                           children'[parent'[arg[u]]][j] = arg[u]
      BY <2>1, <2>2, <2>3
    <3> QED
      BY <2>1, <2>2, <2>3, <2>6
  <2>10. ListedOrTold
    BY DEF ToldInv
  <2>11. ListedOrTold'
    BY <2>1, <2>7, <2>8, <2>9, <2>10, ListedKeeps
  <2>12. SignalledInv'
    BY <2>1, <2>7, SignalledStays DEF ToldInv
  <2>13. \A u \in Threads : pc'[u] = "detachParent" => pc[u] = "detachParent" /\ arg'[u] = arg[u]
    BY <2>1
  <2> QED
    BY <2>11, <2>12, <2>13, DetachKept DEF ToldInv
<1>4. ASSUME NEW t \in Threads, NEW h \in Workers, NEW f \in DOMAIN Entry, Call(t, h, f)
      PROVE  ToldInv'
  BY <1>a, <1>4 DEF Call, Entry, Free, sharedVars, waitVars
<1>5. ASSUME NEW t \in Threads, NEW h \in Workers, Drop(t, h)
      PROVE  ToldInv'
  BY <1>a, <1>5 DEF Drop, Free, sharedVars, waitVars
<1>6. ASSUME NEW t \in Threads, DropCheck(t)
      PROVE  ToldInv'
  <2>1. pc[t] = "dropCheck" /\ UNCHANGED <<parent, frame, children>>
    BY <1>6 DEF DropCheck, sharedVars, waitVars
  <2>2. CASE Dropped(t, arg[t])
    <3>1. arg[t] \in Workers
      BY <2>1, ArgBorn DEF InCall
    <3>2. Returns(t, arg[t])
      BY <2>2, <3>1, AnswerReturns
    <3> HIDE DEF Quiet
    <3> QED
      BY <1>c, <2>1, <3>2
  <2>3. CASE pc' = [pc EXCEPT ![t] = "terminate"] /\ UNCHANGED arg
    BY <1>a, <2>1, <2>3
  <2> QED
    BY <1>6, <2>2, <2>3 DEF DropCheck
<1>7. ASSUME NEW t \in Threads, DropWait(t)
      PROVE  ToldInv'
  <2>1. pc[t] = "dropWait" /\ UNCHANGED <<parent, frame, children>> /\ Dropped(t, arg[t])
    BY <1>7 DEF DropWait, sharedVars, waitVars
  <2>2. arg[t] \in Workers
    BY <2>1, ArgBorn DEF InCall
  <2>3. Returns(t, arg[t])
    BY <2>1, <2>2, AnswerReturns
  <2> HIDE DEF Quiet
  <2> QED
    BY <1>c, <2>1, <2>3
<1>8. ASSUME NEW t \in Threads, NEW h \in Workers, Poll(t, h)
      PROVE  ToldInv'
  BY <1>a, <1>8 DEF Poll, Free, sharedVars
<1>9. ASSUME NEW t \in Threads, Terminate(t)
      PROVE  ToldInv'
  <2>1. pc[t] = "terminate" /\ UNCHANGED <<parent, frame, children>>
    BY <1>9 DEF Terminate, sharedVars, waitVars
  <2>2. ASSUME Answer(t, arg[t], "Aborted")
        PROVE  ToldInv'
    <3>1. arg[t] \in Workers
      BY <2>1, ArgBorn DEF InCall
    <3>2. Returns(t, arg[t])
      BY <2>2, <3>1, AnswerReturns
    <3> HIDE DEF Quiet
    <3> QED
      BY <1>c, <2>1, <3>2
  <2>3. CASE pc' = [pc EXCEPT ![t] = "waitLock"] /\ UNCHANGED arg
    BY <1>a, <2>1, <2>3
  <2> QED
    BY <1>9, <2>2, <2>3 DEF Terminate
<1>10. ASSUME NEW t \in Threads, DetachLock(t)
       PROVE  ToldInv'
  <2>1. /\ pc[t] = "detachLock" /\ pc'[t] \in {"body", "detachParent"}
        /\ pc'[t] = "detachParent" => UNCHANGED arg
        /\ detached' = [detached EXCEPT ![arg[t]] = TRUE]
        /\ \A u \in Threads \ {t} : pc'[u] = pc[u] /\ arg'[u] = arg[u]
        /\ UNCHANGED <<parent, frame, children>>
    BY <1>10 DEF DetachLock, waitVars
  <2>2. \A c \in Workers : pc[c] = "unborn" => pc'[c] = "unborn"
    BY <2>1 DEF Threads
  <2>3. \A u \in Threads : pc[u] \in Attaching => pc'[u] \in Attaching /\ arg'[u] = arg[u]
    BY <2>1 DEF Attaching
  <2>4. ListedOrTold
    BY DEF ToldInv
  <2>5. ListedOrTold'
    BY <2>1, <2>2, <2>3, <2>4, SameListed, ListedKeeps
  <2>6. SignalledInv'
    BY <2>1, SignalledStays DEF ToldInv
  <2>7. ASSUME NEW u \in Threads, pc'[u] = "detachParent"
        PROVE  detached'[arg'[u]]
    <3>1. CASE u = t
      <4>1. arg[t] \in Workers
        BY <2>1, ArgBorn DEF InCall
      <4> QED
        BY <2>1, <2>7, <3>1, <4>1 DEF SharedTypes
    <3>2. CASE u # t
      BY <2>1, <2>7, <3>2, DetachKept
    <3> QED
      BY <3>1, <3>2
  <2> QED
    BY <2>5, <2>6, <2>7 DEF ToldInv
<1>11. ASSUME NEW t \in Threads, DetachParent(t)
       PROVE  ToldInv'
  <2>1. /\ pc[t] = "detachParent" /\ lock[parent[arg[t]]] = NoOne
        /\ pc'[t] = "body"
        /\ \A u \in Threads \ {t} : pc'[u] = pc[u] /\ arg'[u] = arg[u]
        /\ UNCHANGED <<parent, frame>>
    BY <1>11 DEF DetachParent, waitVars
  <2>2. PICK h \in Workers : h = arg[t] /\ detached[h]
    BY <2>1, ArgBorn DEF InCall, ToldInv
  <2>3. PICK p : p = parent[h]
    OBVIOUS
  <2>4. CASE UNCHANGED children
    BY <1>a, <2>1, <2>4
  <2>5. ASSUME NEW i \in DOMAIN children[p], children[p][i] = h,
               children' = [children EXCEPT ![p] = RemoveAt(@, i)]
        PROVE  ToldInv'
    <3>1. \A w \in Workers : children'[w] = IF w = p THEN RemoveAt(children[w], i) ELSE children[w]
      BY <2>5 DEF SharedTypes
    <3>2. ASSUME p \in Workers
          PROVE  frame[p].phase = "idle" /\ StillListed(p)
      <4>1. frame[p].phase = "idle"
        BY <2>1, <2>2, <2>3, <3>2, NoFrameOpen
      <4>2. children[p] \in Seq(Workers)
        BY <3>2 DEF SharedTypes
      <4>3. i \in 1..Len(children[p]) /\ Len(children[p]) \in Nat
        BY <2>5, <4>2
      <4>4. /\ Len(children'[p]) = Len(children[p]) - 1
            /\ \A k \in 1..(i - 1) : children'[p][k] = children[p][k]
            /\ \A k \in i..(Len(children[p]) - 1) : children'[p][k] = children[p][k + 1]
        <5>1. PICK s \in Seq(Workers) : s = children[p]
          BY <4>2
        <5>2. children'[p] = RemoveAt(s, i)
          BY <3>1, <3>2, <5>1
        <5>3. /\ Len(RemoveAt(s, i)) = Len(s) - 1
              /\ \A k \in 1..(i - 1) : RemoveAt(s, i)[k] = s[k]
              /\ \A k \in i..(Len(s) - 1) : RemoveAt(s, i)[k] = s[k + 1]
          BY <4>3, <5>1, RemoveAtFacts
        <5> QED
          BY <5>1, <5>2, <5>3
      <4>5. ASSUME NEW x \in Workers, NEW k \in 1..Len(children[p]), children[p][k] = x
            PROVE  x = h \/ \E j \in 1..Len(children'[p]) : children'[p][j] = x
        <5>1. CASE k = i
          BY <2>5, <4>5, <5>1
        <5>2. CASE k < i
          <6>1. k \in 1..Len(children'[p]) /\ children'[p][k] = x
            BY <4>3, <4>4, <4>5, <5>2
          <6> QED
            BY <6>1
        <5>3. CASE k > i
          <6>1. k - 1 \in i..(Len(children[p]) - 1) /\ k - 1 \in 1..Len(children'[p]) /\ k - 1 + 1 = k
            BY <4>3, <4>4, <5>3
          <6>2. children'[p][k - 1] = x
            BY <4>4, <4>5, <6>1
          <6> QED
            BY <6>1, <6>2
        <5> QED
          BY <4>3, <5>1, <5>2, <5>3
      <4>6. StillListed(p)
        BY <2>2, <4>5 DEF StillListed
      <4> QED
        BY <4>1, <4>6
    <3>3. Quiet(t)
      BY <2>1
    <3> HIDE DEF Quiet
    <3> QED
      BY <1>b, <3>1, <3>2, <3>3
  <2>6. UNCHANGED children
        \/ \E i \in DOMAIN children[p] : /\ children[p][i] = h
                                         /\ children' = [children EXCEPT ![p] = RemoveAt(@, i)]
    BY <1>11, <2>2, <2>3 DEF DetachParent
  <2> QED
    BY <2>4, <2>5, <2>6
<1>12. ASSUME NEW t \in Threads, WaitLock(t)
       PROVE  ToldInv'
  <2>1. pc[t] = "waitLock" /\ lock[arg[t]] = NoOne /\ UNCHANGED <<parent, children>>
    BY <1>12 DEF WaitLock
  <2>2. PICK h \in Workers : h = arg[t]
    BY <2>1, ArgBorn DEF InCall
  <2>3. ASSUME NEW r, Answer(t, h, r), UNCHANGED frame
        PROVE  ToldInv'
    <3>1. Returns(t, h)
      BY <2>3, AnswerReturns
    <3> HIDE DEF Quiet
    <3> QED
      BY <1>c, <2>1, <2>3, <3>1
  <2>4. CASE OpenFrame(t, h) /\ pc' = [pc EXCEPT ![t] = "wait"] /\ UNCHANGED arg
    <3>1. frame[h].phase = "idle"
      BY <2>1, <2>2, NoFrameOpen
    <3>2. \A v \in Workers : /\ frame'[v].phase = IF v = h THEN "signal" ELSE frame[v].phase
                             /\ frame'[v].next = frame[v].next
      BY <2>4, OpenNext
    <3>3. \A v \in Workers : frame'[v].phase = "idle" => frame'[v].next = 1
      BY <3>2 DEF ToldInv, SignalledInv
    <3>4. \A v \in Workers : \A i \in 1..Len(children'[v]) :
            frame'[v].phase = "drain" \/ i < frame'[v].next
            => frame[v].phase = "drain" \/ i < frame[v].next
      BY <3>2
    <3>5. SignalledInv'
      BY <2>1, <3>3, <3>4, SignalledKeeps DEF ToldInv
    <3> QED
      BY <2>1, <2>4, <3>5, SameListed, ToldMoves
  <2>5. \/ \E r : Answer(t, h, r) /\ UNCHANGED frame
        \/ OpenFrame(t, h) /\ pc' = [pc EXCEPT ![t] = "wait"] /\ UNCHANGED arg
    BY <1>12, <2>2 DEF WaitLock
  <2> QED
    BY <2>3, <2>4, <2>5
<1>13. ASSUME NEW t \in Threads, SignalChild(t)
       PROVE  ToldInv'
  BY <1>13, ToldSignals
<1>14. ASSUME NEW t \in Threads, Join(t)
       PROVE  ToldInv'
  BY <1>14, ToldJoins
<1>15. ASSUME NEW t \in Threads, WaitChild(t)
       PROVE  ToldInv'
  BY <1>15, ToldWaits
<1>16. ASSUME NEW t \in Threads, CloseFrame(t)
       PROVE  ToldInv'
  BY <1>16, ToldCloses
<1>17. ASSUME NEW w \in Workers, ObserveCancel(w)
       PROVE  ToldInv'
  BY <1>a, <1>17 DEF ObserveCancel, threadVars, sharedVars, waitVars, Threads
<1>18. ASSUME NEW w \in Workers, NEW o \in Outcomes, EndWork(w, o)
       PROVE  ToldInv'
  BY <1>a, <1>18 DEF EndWork, sharedVars, waitVars, Threads
<1>19. ASSUME NEW w \in Workers, Retire(w)
       PROVE  ToldInv'
  BY <1>a, <1>19 DEF Retire, sharedVars, waitVars, Threads
<1>20. ASSUME NEW w \in Workers, SendDone(w)
       PROVE  ToldInv'
  BY <1>a, <1>20 DEF SendDone, sharedVars, waitVars, Threads
<1>21. ASSUME NEW w \in Workers, FailParent(w)
       PROVE  ToldInv'
  BY <1>a, <1>21 DEF FailParent, waitVars, Threads
<1>22. ASSUME NEW w \in Workers, FailSibling(w)
       PROVE  ToldInv'
  <2>1. /\ pc[w] = "failDrain" /\ children[parent[w]] # <<>>
        /\ children' = [children EXCEPT ![parent[w]] = Front(@)]
        /\ Send(Last(children[parent[w]]))
        /\ UNCHANGED <<pc, arg, parent, frame>>
    BY <1>22 DEF FailSibling, threadVars, waitVars
  <2>2. PICK p : p = parent[w]
    OBVIOUS
  <2>3. Quiet(w) /\ w \in Threads
    BY <2>1 DEF Threads
  <2> HIDE DEF Quiet
  <2>4. ASSUME p \in Workers
        PROVE  frame[p].phase = "idle" /\ StillListed(p)
    <3>1. Holds(w, p)
      BY <2>1, <2>2 DEF Holds
    <3>2. lock[p] = w
      BY <2>3, <2>4, <3>1 DEF HeldInv
    <3>3. frame[p].phase = "idle"
      BY <2>1, <2>4, <3>2, NoFrameOpen
    <3>4. children[p] \in Seq(Workers) /\ children[p] # <<>>
      BY <2>1, <2>2, <2>4 DEF SharedTypes
    <3>5. /\ Last(children[p]) \in Workers
          /\ Last(children[p]) = children[p][Len(children[p])]
          /\ Len(children[p]) \in 1..Len(children[p])
      <4>1. Len(children[p]) \in 1..Len(children[p])
        BY <3>4
      <4> QED
        BY <3>4, <4>1, FrontLast
    <3>6. PICK c \in Workers : c = Last(children[p])
      BY <3>5
    <3>7. pc[c] # "unborn" /\ Send(c)
      BY <2>1, <2>2, <2>4, <3>5, <3>6 DEF BornInv
    <3>8. Told(c)'
      <4>1. CASE Receiving(c)
        BY <3>7, <4>1 DEF Send, Told, WorkTypes
      <4>2. CASE ~Receiving(c)
        <5>1. Told(c)
          BY <4>2 DEF Told
        <5> QED
          BY <3>7, <5>1, ToldGrows
      <4> QED
        BY <4>1, <4>2
    <3>9. StillListed(p)
      BY <2>1, <2>2, <2>4, <3>4, <3>6, <3>8, PopKeeps
    <3> QED
      BY <3>3, <3>9
  <2>5. \A v \in Workers : v # p => children'[v] = children[v]
    BY <2>1, <2>2 DEF SharedTypes
  <2> QED
    BY <1>b, <2>3, <2>4, <2>5
<1>23. ASSUME NEW w \in Workers, FailDone(w)
       PROVE  ToldInv'
  BY <1>a, <1>23 DEF FailDone, waitVars, Threads
<1> QED
  BY <1>1, <1>2, <1>3, <1>4, <1>5, <1>6, <1>7, <1>8, <1>9, <1>10, <1>11, <1>12, <1>13, <1>14, <1>15, <1>16, <1>17, <1>18, <1>19, <1>20, <1>21, <1>22, <1>23
     DEF Next, Proceed, Epilogue, UserCall

\* The mutexes, the frames and the lists of children, in every state.
LEMMA Telling == Spec => []ToldInv
<1> DEFINE J == TypeOK /\ CallInv /\ BornInv /\ ResultInv /\ WorkInv /\ OpenInv
           L == HeldInv /\ JoinInv
<1>1. Init => ToldInv
  BY DEF Init, ToldInv, ListedOrTold, SignalledInv, NoFrame
<1>2. J /\ L /\ ToldInv /\ [Next]_vars => ToldInv'
  <2> SUFFICES ASSUME J, L, ToldInv, [Next]_vars
               PROVE  ToldInv'
    OBVIOUS
  <2>1. CASE Next
    BY <2>1, ToldStep
  <2>2. CASE UNCHANGED vars
    BY <2>2 DEF vars, ToldInv, ListedOrTold, SignalledInv, Told, Receiving
  <2> QED
    BY <2>1, <2>2
<1>3. Spec => []J /\ []L
  BY Invariants, Locking, PTL
<1> HIDE DEF J, L
<1> QED
  BY <1>1, <1>2, <1>3, PTL DEF Spec

\* A linked child that its parent no longer lists is detached, over, or told
\* to stop, whatever attaches, detaches, waits and fails at the same time.
THEOREM ChildrenTold == Spec => []ListedOrTold
<1>1. ToldInv => ListedOrTold
  BY DEF ToldInv
<1> QED
  BY <1>1, Telling, PTL

-----------------------------------------------------------------------------
(* Programs that never detach, as Handler and Iysr: what a step inside the  *)
(* crate does to them.                                                     *)

\* The program never detaches, and is in a Drop where it says it is.
NoDetach ==
  /\ \A w \in Workers : ~detached[w]
  /\ \A t \in Threads : pc[t] \notin {"detachLock", "detachParent"}
  /\ \A t \in Threads : dropping[t] => pc[t] \in Dropping

\* A call goes on, or returns, or lets go of its handle at the end of a Drop.
GoesOn(t) ==
  /\ UNCHANGED <<owner, dropping>>
  /\ pc'[t] \in InCall \ {"detachLock", "detachParent"}
  /\ dropping[t] => pc'[t] \in Dropping

ComesBack(t) ==
  /\ UNCHANGED <<owner, dropping>>
  /\ ~dropping[t]
  /\ pc'[t] = "body"

LetsGo(t) ==
  /\ owner' = [owner EXCEPT ![arg[t]] = NoOne]
  /\ dropping' = [dropping EXCEPT ![t] = FALSE]
  /\ pc'[t] = Home(t)

CallStays(t) ==
  /\ UNCHANGED detached
  /\ \A u \in Threads \ {t} : pc'[u] = pc[u]
  /\ pc[t] \in InCall
  /\ GoesOn(t) \/ ComesBack(t) \/ LetsGo(t)

\* Answer goes on with the Drop, returns, or lets go.
LEMMA AnswerProgress ==
  ASSUME TypeOK, NEW t \in Threads, NEW r, pc[t] \in InCall, UNCHANGED detached,
         Answer(t, arg[t], r)
  PROVE  CallStays(t)
BY DEF TypeOK, ThreadTypes, Answer, Dropped, CallStays, GoesOn, ComesBack, LetsGo, InCall, Dropping

\* What a step inside a call does to the thread and its handles.
LEMMA CallProgress ==
  ASSUME TypeOK, CallInv, NoDetach, NEW t \in Threads, Proceed(t)
  PROVE  CallStays(t)
<1> USE DEF TypeOK, ThreadTypes, CallStays, GoesOn, ComesBack, LetsGo, InCall, Dropping
<1>1. CASE AttachLock(t)
  BY <1>1 DEF AttachLock, NoDetach
<1>2. CASE AttachChild(t)
  BY <1>2 DEF AttachChild, NoDetach
<1>3. CASE DropCheck(t)
  BY <1>3 DEF DropCheck, Dropped, sharedVars
<1>4. CASE DropWait(t)
  BY <1>4 DEF DropWait, Dropped, sharedVars
<1>5. CASE Terminate(t)
  <2>1. pc[t] = "terminate" /\ UNCHANGED detached
    BY <1>5 DEF Terminate, sharedVars
  <2>2. CASE Answer(t, arg[t], "Aborted")
    BY <2>1, <2>2, AnswerProgress
  <2>3. CASE pc' = [pc EXCEPT ![t] = "waitLock"] /\ UNCHANGED <<dropping, owner>>
    BY <2>1, <2>3
  <2> QED
    BY <1>5, <2>2, <2>3 DEF Terminate
<1>6. CASE DetachLock(t) \/ DetachParent(t)
  BY <1>6 DEF DetachLock, DetachParent, NoDetach
<1>7. CASE WaitLock(t)
  <2>1. pc[t] = "waitLock" /\ UNCHANGED detached
    BY <1>7 DEF WaitLock
  <2>2. CASE Answer(t, arg[t], result[arg[t]])
    BY <2>1, <2>2, AnswerProgress
  <2>3. CASE pc' = [pc EXCEPT ![t] = "wait"] /\ UNCHANGED <<dropping, owner>>
    BY <2>1, <2>3
  <2> QED
    BY <1>7, <2>2, <2>3 DEF WaitLock
<1>8. CASE SignalChild(t) \/ Join(t) \/ WaitChild(t)
  BY <1>8 DEF SignalChild, Join, WaitChild, threadVars, sharedVars
<1>9. CASE CloseFrame(t)
  <2>1. pc[t] = "wait" /\ UNCHANGED detached
    BY <1>9 DEF CloseFrame
  <2>2. CASE UNCHANGED threadVars
    BY <2>1, <2>2 DEF threadVars
  <2>3. CASE ~UNCHANGED threadVars
    <3>1. Front(waiting[t]) = <<>> /\ \E r : Answer(t, Current(t), r)
      BY <1>9, <2>3 DEF CloseFrame
    <3>2. Current(t) = arg[t]
      <4>1. waiting[t] \in Seq(Workers) /\ waiting[t] # <<>> /\ waiting[t][1] = arg[t]
        BY <2>1 DEF CallInv, WaitTypes
      <4>2. Len(waiting[t]) = 1
        <5>1. Len(Front(waiting[t])) = Len(waiting[t]) - 1 /\ Len(waiting[t]) \in Nat
          BY <4>1, FrontLast
        <5> QED
          BY <3>1, <5>1
      <4> QED
        BY <4>1, <4>2, FrontLast DEF Current
    <3> QED
      BY <2>1, <3>1, <3>2, AnswerProgress
  <2> QED
    BY <2>2, <2>3
<1> QED
  BY <1>1, <1>2, <1>3, <1>4, <1>5, <1>6, <1>7, <1>8, <1>9 DEF Proceed

\* The epilogue of a thread leaves the handles alone.
LEMMA EpilogueStays ==
  ASSUME ThreadTypes, NEW w \in Workers, Epilogue(w)
  PROVE  /\ UNCHANGED <<owner, dropping, detached>>
         /\ \A u \in Threads \ {w} : pc'[u] = pc[u]
         /\ pc[w] \in Over
         /\ pc'[w] \in Over
<1>1. CASE Retire(w) \/ SendDone(w)
  BY <1>1 DEF ThreadTypes, Retire, SendDone, Over, sharedVars, Threads
<1>2. CASE FailParent(w) \/ FailSibling(w) \/ FailDone(w)
  BY <1>2 DEF ThreadTypes, FailParent, FailSibling, FailDone, Over, sharedVars, threadVars, Threads
<1> QED
  BY <1>1, <1>2 DEF Epilogue

\* Once nobody keeps a worker any more, its work function is over.
LEMMA Unkept ==
  ASSUME NoOrphans, NoDetach, NEW w \in Workers, owner[w] = NoOne
  PROVE  ~Receiving(w)
BY DEF NoOrphans, NoDetach

=============================================================================
