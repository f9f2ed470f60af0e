----------------------------- MODULE WorkerProofs -----------------------------
(***************************************************************************)
(* Proofs about Worker, for every set of workers, every tree of spawns and *)
(* every use of the handles.                                               *)
(***************************************************************************)
EXTENDS Worker, SequenceTheorems, TLAPS

InCall == {"attachLock", "attachChild", "dropCheck", "dropWait", "terminate",
           "detachLock", "detachParent", "waitLock", "wait"}

\* A thread inside a call is there with a handle of its own, and has wait()
\* frames open exactly when it runs wait(), the first of them for that handle.
CallInv ==
  /\ \A t \in Threads : pc[t] \in InCall => arg[t] \in Workers /\ owner[arg[t]] = t
  /\ \A t \in Threads : pc[t] = "wait" <=> waiting[t] # <<>>
  /\ \A t \in Threads : waiting[t] # <<>> => waiting[t][1] = arg[t]
  /\ \A w \in Workers : owner[w] # NoOne => pc[w] # "unborn"

-----------------------------------------------------------------------------
(* Sequences.                                                              *)

\* Front and Last of a sequence that is not empty: its type, its members.
LEMMA FrontLast ==
  ASSUME NEW S, NEW s \in Seq(S), s # <<>>
  PROVE  /\ Front(s) \in Seq(S)
         /\ Len(Front(s)) = Len(s) - 1
         /\ \A i \in 1..(Len(s) - 1) : Front(s)[i] = s[i]
         /\ Len(s) \in Nat \ {0}
         /\ Last(s) \in S
         /\ Last(s) = s[Len(s)]
<1> DEFINE n == Len(s) - 1
<1>1. Len(s) \in Nat \ {0}
  OBVIOUS
<1>2. n \in Nat /\ \A i \in 1..n : s[i] \in S
  BY <1>1
<1>3. /\ SubSeq(s, 1, n) \in Seq(S)
      /\ Len(SubSeq(s, 1, n)) = IF 1 <= n THEN n - 1 + 1 ELSE 0
      /\ \A i \in 1..(n - 1 + 1) : SubSeq(s, 1, n)[i] = s[1 + i - 1]
  <2> HIDE DEF n
  <2> QED
    BY <1>2, SubSeqProperties
<1>4. Len(SubSeq(s, 1, n)) = n /\ \A i \in 1..n : SubSeq(s, 1, n)[i] = s[i]
  <2> HIDE DEF n
  <2> QED
    BY <1>2, <1>3
<1>5. Last(s) \in S /\ Last(s) = s[Len(s)]
  BY <1>1 DEF Last
<1> QED
  BY <1>1, <1>3, <1>4, <1>5 DEF Front

\* RemoveAt keeps the type of a sequence, and adds no member.
LEMMA RemoveAtType ==
  ASSUME NEW S, NEW s \in Seq(S), NEW i \in 1..Len(s)
  PROVE  /\ RemoveAt(s, i) \in Seq(S)
         /\ \A j \in 1..Len(RemoveAt(s, i)) : \E k \in 1..Len(s) : RemoveAt(s, i)[j] = s[k]
<1> DEFINE a == SubSeq(s, 1, i - 1)
           b == SubSeq(s, i + 1, Len(s))
           T == {s[k] : k \in 1..Len(s)}
<1>1. \A j \in 1..Len(s) : s[j] \in S /\ s[j] \in T
  OBVIOUS
<1>2. a \in Seq(S) /\ a \in Seq(T)
  <2>1. i - 1 \in Int /\ \A j \in 1..(i - 1) : s[j] \in S /\ s[j] \in T
    BY <1>1
  <2> HIDE DEF T
  <2> QED
    BY <2>1, SubSeqProperties
<1>3. b \in Seq(S) /\ b \in Seq(T)
  <2>1. i + 1 \in Int /\ Len(s) \in Int /\ \A j \in (i + 1)..Len(s) : s[j] \in S /\ s[j] \in T
    BY <1>1
  <2> HIDE DEF T
  <2> QED
    BY <2>1, SubSeqProperties
<1>4. a \o b \in Seq(S) /\ a \o b \in Seq(T)
  <2> HIDE DEF a, b, T
  <2> QED
    BY <1>2, <1>3
<1>5. \A j \in 1..Len(a \o b) : (a \o b)[j] \in T
  <2> HIDE DEF a, b, T
  <2> QED
    BY <1>4
<1> QED
  BY <1>4, <1>5 DEF RemoveAt

\* Append: its type, its length, its members.
LEMMA AppendFacts ==
  ASSUME NEW S, NEW s \in Seq(S), NEW e \in S
  PROVE  /\ Append(s, e) \in Seq(S)
         /\ Append(s, e) # <<>>
         /\ Len(Append(s, e)) = Len(s) + 1
         /\ \A i \in 1..Len(s) : Append(s, e)[i] = s[i]
         /\ Append(s, e)[Len(s) + 1] = e
OBVIOUS

\* Sending on a channel keeps its type.
LEMMA SendType ==
  ASSUME WorkTypes, NEW w, Send(w)
  PROVE  signal' \in [Workers -> Nat]
<1>1. CASE w \in Workers
  <2>1. signal[w] + 1 \in Nat
    BY <1>1 DEF WorkTypes
  <2> QED
    BY <2>1 DEF WorkTypes, Send
<1>2. CASE w \notin Workers
  <2>1. [signal EXCEPT ![w] = @ + 1] = signal
    BY <1>2 DEF WorkTypes
  <2> QED
    BY <2>1 DEF WorkTypes, Send
<1> QED
  BY <1>1, <1>2

\* Updating a field of a wait() frame keeps the type.
LEMMA FrameTypes ==
  ASSUME NEW f \in [Workers -> Frames], NEW w \in Workers,
         NEW n \in Nat \ {0}
  PROVE  /\ [f EXCEPT ![w].next = n] \in [Workers -> Frames]
         /\ [f EXCEPT ![w].low = "Aborted"] \in [Workers -> Frames]
BY DEF Frames

\* Opening a wait() frame keeps the types.
LEMMA OpenFrameTypes ==
  ASSUME SharedTypes, WaitTypes, NEW t \in Threads, NEW w \in Workers, OpenFrame(t, w)
  PROVE  /\ lock' \in [Workers -> Threads \cup {NoOne}]
         /\ frame' \in [Workers -> Frames]
         /\ waiting' \in [Threads -> Seq(Workers)]
<1>1. lock' \in [Workers -> Threads \cup {NoOne}]
  BY DEF OpenFrame, SharedTypes
<1>2. frame' \in [Workers -> Frames]
  BY DEF OpenFrame, WaitTypes, Frames
<1>3. waiting' \in [Threads -> Seq(Workers)]
  BY AppendFacts DEF OpenFrame, WaitTypes
<1> QED
  BY <1>1, <1>2, <1>3

\* The end of a call on a handle keeps the types.
LEMMA AnswerTypes ==
  ASSUME ThreadTypes, NEW t \in Threads, NEW w \in Workers, NEW r, Answer(t, w, r)
  PROVE  ThreadTypes'
BY DEF ThreadTypes, Answer, Dropped, Home, Unwinding, PCs

\* A group of variables that does not change keeps its types.
LEMMA SameTypes ==
  /\ UNCHANGED threadVars /\ ThreadTypes => ThreadTypes'
  /\ UNCHANGED workVars /\ WorkTypes => WorkTypes'
  /\ UNCHANGED sharedVars /\ SharedTypes => SharedTypes'
  /\ UNCHANGED waitVars /\ WaitTypes => WaitTypes'
BY DEF threadVars, workVars, sharedVars, waitVars,
       ThreadTypes, WorkTypes, SharedTypes, WaitTypes

\* Every action keeps the types of the variables it assigns.
LEMMA TypeStep ==
  ASSUME TypeOK, CallInv, Next
  PROVE  TypeOK'
<1> USE WorkerAssumption DEF Threads, TypeOK
<1>1. ASSUME NEW t \in Threads, NEW p \in Workers \cup {NoOne}, NEW h \in Workers, Spawn(t, p, h)
      PROVE  TypeOK'
  <2>1. ThreadTypes'
    BY <1>1 DEF ThreadTypes, Spawn, PCs
  <2>2. SharedTypes'
    BY <1>1 DEF SharedTypes, Spawn
  <2>3. WaitTypes'
    BY <1>1 DEF WaitTypes, Spawn
  <2>4. UNCHANGED workVars
    BY <1>1 DEF Spawn, workVars
  <2> QED
    BY <2>1, <2>2, <2>3, <2>4, SameTypes
<1>2. ASSUME NEW t \in Threads, AttachLock(t)
      PROVE  TypeOK'
  <2>1. arg[t] \in Workers
    BY <1>2 DEF AttachLock, CallInv, InCall
  <2>2. ThreadTypes'
    BY <1>2, <2>1 DEF ThreadTypes, AttachLock, PCs
  <2>3. SharedTypes'
    BY <1>2, <2>1 DEF SharedTypes, AttachLock
  <2>4. UNCHANGED <<workVars, waitVars>>
    BY <1>2 DEF AttachLock, workVars, waitVars
  <2> QED
    BY <2>2, <2>3, <2>4, SameTypes
<1>3. ASSUME NEW t \in Threads, AttachChild(t)
      PROVE  TypeOK'
  <2>1. arg[t] \in Workers
    BY <1>3 DEF AttachChild, CallInv, InCall
  <2>2. ThreadTypes'
    BY <1>3, <2>1 DEF ThreadTypes, AttachChild, PCs
  <2>3. SharedTypes'
    BY <1>3, <2>1, AppendFacts DEF SharedTypes, AttachChild
  <2>4. UNCHANGED <<workVars, waitVars>>
    BY <1>3 DEF AttachChild, workVars, waitVars
  <2> QED
    BY <2>2, <2>3, <2>4, SameTypes
<1>4. ASSUME NEW t \in Threads, NEW h \in Workers, NEW f \in DOMAIN Entry, Call(t, h, f)
      PROVE  TypeOK'
  <2>1. ThreadTypes'
    BY <1>4 DEF ThreadTypes, Call, Entry, PCs
  <2>2. UNCHANGED <<workVars, sharedVars, waitVars>>
    BY <1>4 DEF Call, workVars, sharedVars, waitVars
  <2> QED
    BY <2>1, <2>2, SameTypes
<1>5. ASSUME NEW t \in Threads, NEW h \in Workers, Drop(t, h)
      PROVE  TypeOK'
  <2>1. ThreadTypes'
    BY <1>5 DEF ThreadTypes, Drop, PCs
  <2>2. UNCHANGED <<workVars, sharedVars, waitVars>>
    BY <1>5 DEF Drop, workVars, sharedVars, waitVars
  <2> QED
    BY <2>1, <2>2, SameTypes
<1>6. ASSUME NEW t \in Threads, DropCheck(t)
      PROVE  TypeOK'
  <2>1. arg[t] \in Workers
    BY <1>6 DEF DropCheck, CallInv, InCall
  <2>2. ThreadTypes'
    BY <1>6, <2>1 DEF ThreadTypes, DropCheck, Dropped, Home, Unwinding, PCs
  <2>3. UNCHANGED <<workVars, sharedVars, waitVars>>
    BY <1>6 DEF DropCheck, workVars, sharedVars, waitVars
  <2> QED
    BY <2>2, <2>3, SameTypes
<1>7. ASSUME NEW t \in Threads, DropWait(t)
      PROVE  TypeOK'
  <2>1. arg[t] \in Workers
    BY <1>7 DEF DropWait, CallInv, InCall
  <2>2. ThreadTypes'
    BY <1>7, <2>1 DEF ThreadTypes, DropWait, Dropped, Home, Unwinding, PCs
  <2>3. UNCHANGED <<workVars, sharedVars, waitVars>>
    BY <1>7 DEF DropWait, workVars, sharedVars, waitVars
  <2> QED
    BY <2>2, <2>3, SameTypes
<1>8. ASSUME NEW t \in Threads, NEW h \in Workers, Poll(t, h)
      PROVE  TypeOK'
  <2>1. ThreadTypes'
    BY <1>8 DEF ThreadTypes, Poll, PCs
  <2>2. WorkTypes'
    BY <1>8 DEF WorkTypes, Poll
  <2>3. WaitTypes'
    BY <1>8 DEF WaitTypes, Poll
  <2>4. UNCHANGED sharedVars
    BY <1>8 DEF Poll, sharedVars
  <2> QED
    BY <2>1, <2>2, <2>3, <2>4, SameTypes
<1>9. ASSUME NEW t \in Threads, Terminate(t)
      PROVE  TypeOK'
  <2>1. arg[t] \in Workers
    BY <1>9 DEF Terminate, CallInv, InCall
  <2>2. ThreadTypes'
    BY <1>9, <2>1, AnswerTypes DEF ThreadTypes, Terminate, PCs
  <2>3. WorkTypes'
    BY <1>9, SendType DEF WorkTypes, Terminate
  <2>4. UNCHANGED <<sharedVars, waitVars>>
    BY <1>9 DEF Terminate, sharedVars, waitVars
  <2> QED
    BY <2>2, <2>3, <2>4, SameTypes
<1>10. ASSUME NEW t \in Threads, DetachLock(t)
      PROVE  TypeOK'
  <2>1. arg[t] \in Workers
    BY <1>10 DEF DetachLock, CallInv, InCall
  <2>2. ThreadTypes'
    BY <1>10, <2>1 DEF ThreadTypes, DetachLock, PCs
  <2>3. SharedTypes'
    BY <1>10, <2>1 DEF SharedTypes, DetachLock
  <2>4. UNCHANGED <<workVars, waitVars>>
    BY <1>10 DEF DetachLock, workVars, waitVars
  <2> QED
    BY <2>2, <2>3, <2>4, SameTypes
<1>11. ASSUME NEW t \in Threads, DetachParent(t)
      PROVE  TypeOK'
  <2>1. arg[t] \in Workers
    BY <1>11 DEF DetachParent, CallInv, InCall
  <2>2. ThreadTypes'
    BY <1>11, <2>1 DEF ThreadTypes, DetachParent, PCs
  <2>3. SharedTypes'
    <3> DEFINE p == parent[arg[t]]
    <3>1. \A i \in DOMAIN children[p] :
            p \in Workers => RemoveAt(children[p], i) \in Seq(Workers)
      BY RemoveAtType DEF SharedTypes
    <3>2. children' \in [Workers -> Seq(Workers)]
      <4>1. CASE UNCHANGED children
        BY <4>1 DEF SharedTypes
      <4>2. CASE \E i \in DOMAIN children[p] :
                   children' = [children EXCEPT ![p] = RemoveAt(@, i)]
        <5>1. PICK i \in DOMAIN children[p] : children' = [children EXCEPT ![p] = RemoveAt(@, i)]
          BY <4>2
        <5>2. CASE p \in Workers
          <6>1. RemoveAt(children[p], i) \in Seq(Workers)
            BY <3>1, <5>2
          <6> QED
            BY <5>1, <6>1 DEF SharedTypes
        <5>3. CASE p \notin Workers
          BY <5>1, <5>3 DEF SharedTypes
        <5> QED
          BY <5>2, <5>3
      <4> QED
        BY <1>11, <4>1, <4>2 DEF DetachParent
    <3> QED
      BY <1>11, <3>2 DEF SharedTypes, DetachParent
  <2>4. UNCHANGED <<workVars, waitVars>>
    BY <1>11 DEF DetachParent, workVars, waitVars
  <2> QED
    BY <2>2, <2>3, <2>4, SameTypes
<1>12. ASSUME NEW t \in Threads, WaitLock(t)
      PROVE  TypeOK'
  <2>1. arg[t] \in Workers
    BY <1>12 DEF WaitLock, CallInv, InCall
  <2>2. ThreadTypes'
    BY <1>12, <2>1, AnswerTypes DEF ThreadTypes, WaitLock, PCs
  <2>3. SharedTypes'
    BY <1>12, <2>1, OpenFrameTypes DEF SharedTypes, WaitLock
  <2>4. WaitTypes'
    BY <1>12, <2>1, OpenFrameTypes DEF WaitTypes, WaitLock
  <2>5. UNCHANGED workVars
    BY <1>12 DEF WaitLock, OpenFrame, workVars
  <2> QED
    BY <2>2, <2>3, <2>4, <2>5, SameTypes
<1>13. ASSUME NEW t \in Threads, SignalChild(t)
      PROVE  TypeOK'
  <2>1. Current(t) \in Workers
    BY <1>13, FrontLast DEF SignalChild, CallInv, InCall, Current, WaitTypes
  <2>2. WorkTypes'
    BY <1>13, SendType DEF WorkTypes, SignalChild
  <2>3. SharedTypes'
    <3> DEFINE w == Current(t)
               i == frame[w].next
    <3>1. i \in 1..Len(children[w]) /\ children[w] \in Seq(Workers)
      BY <1>13, <2>1 DEF SignalChild, SharedTypes, WaitTypes, Frames
    <3>2. RemoveAt(children[w], i) \in Seq(Workers)
      BY <3>1, RemoveAtType
    <3>3. children' = children \/ children' = [children EXCEPT ![w] = RemoveAt(@, i)]
      BY <1>13 DEF SignalChild
    <3>4. children' \in [Workers -> Seq(Workers)]
      BY <2>1, <3>2, <3>3 DEF SharedTypes
    <3> QED
      BY <1>13, <3>4 DEF SharedTypes, SignalChild
  <2>4. WaitTypes'
    <3> DEFINE w == Current(t)
               n == frame[w].next + 1
    <3>1. n \in Nat \ {0}
      BY <2>1 DEF WaitTypes, Frames
    <3>2. \/ frame' = [frame EXCEPT ![w].next = n]
          \/ frame' = [frame EXCEPT ![w].low = "Aborted"]
      BY <1>13 DEF SignalChild
    <3>3. /\ [frame EXCEPT ![w].next = n] \in [Workers -> Frames]
          /\ [frame EXCEPT ![w].low = "Aborted"] \in [Workers -> Frames]
      <4> HIDE DEF n, w
      <4> QED
        BY <2>1, <3>1, FrameTypes DEF WaitTypes
    <3> QED
      BY <1>13, <3>2, <3>3 DEF SignalChild, WaitTypes
  <2>5. UNCHANGED threadVars
    BY <1>13 DEF SignalChild, threadVars
  <2> QED
    BY <2>2, <2>3, <2>4, <2>5, SameTypes
<1>14. ASSUME NEW t \in Threads, Join(t)
      PROVE  TypeOK'
  <2>1. Current(t) \in Workers
    BY <1>14, FrontLast DEF Join, CallInv, InCall, Current, WaitTypes
  <2>2. WaitTypes'
    <3> DEFINE w == Current(t)
               st == IF thread[w] THEN Joined(w) ELSE "Aborted"
    <3>1. st \in {"Ok", "Failed", "Aborted"}
      BY DEF Joined
    <3>2. frame' = [frame EXCEPT ![w].phase = "drain", ![w].state = st]
      BY <1>14 DEF Join
    <3>3. frame' \in [Workers -> Frames]
      <4> DEFINE r == [frame[w] EXCEPT !.phase = "drain", !.state = st]
      <4>1. w \in Workers /\ frame \in [Workers -> Frames]
        BY <2>1 DEF WaitTypes
      <4>2. r \in Frames
        <5> HIDE DEF st, w
        <5> QED
          BY <3>1, <4>1 DEF Frames
      <4>3. frame' = [frame EXCEPT ![w] = r]
        BY <3>2
      <4> HIDE DEF r, w
      <4> QED
        BY <4>1, <4>2, <4>3
    <3> QED
      BY <1>14, <3>3 DEF Join, WaitTypes
  <2>3. UNCHANGED <<threadVars, workVars, sharedVars>>
    BY <1>14 DEF Join, threadVars, workVars, sharedVars
  <2> QED
    BY <2>2, <2>3, SameTypes
<1>15. ASSUME NEW t \in Threads, WaitChild(t)
      PROVE  TypeOK'
  <2>1. Current(t) \in Workers
    BY <1>15, FrontLast DEF WaitChild, CallInv, InCall, Current, WaitTypes
  <2>2. SharedTypes'
    <3> DEFINE w == Current(t)
    <3>1. /\ Last(children[w]) \in Workers
          /\ Front(children[w]) \in Seq(Workers)
      BY <1>15, <2>1, FrontLast DEF WaitChild, SharedTypes
    <3>2. children' \in [Workers -> Seq(Workers)]
      BY <1>15, <2>1, <3>1 DEF WaitChild, SharedTypes
    <3> QED
      BY <1>15, <3>1, <3>2, OpenFrameTypes DEF WaitChild, SharedTypes
  <2>3. WaitTypes'
    <3> DEFINE w == Current(t)
               c == Last(children[w])
    <3>1. c \in Workers
      BY <1>15, <2>1, FrontLast DEF WaitChild, SharedTypes
    <3>2. CASE result[c] = "none"
      BY <1>15, <3>1, <3>2, OpenFrameTypes DEF WaitChild, WaitTypes
    <3>3. CASE result[c] # "none"
      <4>1. And(frame[w].state, result[c]) \in {"Ok", "Failed", "Aborted"}
        BY <2>1, <3>1, <3>3 DEF And, WaitTypes, Frames, Results
      <4>2. frame' \in [Workers -> Frames]
        <5> DEFINE st == And(frame[w].state, result[c])
        <5>1. frame' = [frame EXCEPT ![w].state = st]
          BY <1>15, <3>3 DEF WaitChild
        <5>2. w \in Workers /\ frame \in [Workers -> Frames]
          BY <2>1 DEF WaitTypes
        <5>3. st \in {"Ok", "Failed", "Aborted"}
          BY <4>1
        <5> HIDE DEF st, w
        <5> QED
          BY <5>1, <5>2, <5>3 DEF Frames
      <4> QED
        BY <1>15, <3>3, <4>2 DEF WaitChild, WaitTypes
    <3> QED
      BY <3>2, <3>3
  <2>4. UNCHANGED <<threadVars, workVars>>
    BY <1>15 DEF WaitChild, OpenFrame, threadVars, workVars
  <2> QED
    BY <2>2, <2>3, <2>4, SameTypes
<1>16. ASSUME NEW t \in Threads, CloseFrame(t)
      PROVE  TypeOK'
  <2>1. Current(t) \in Workers
    BY <1>16, FrontLast DEF CloseFrame, CallInv, InCall, Current, WaitTypes
  <2>2. arg[t] \in Workers
    BY <1>16 DEF CloseFrame, CallInv, InCall
  <2>3. ThreadTypes'
    BY <1>16, <2>1, <2>2, AnswerTypes DEF ThreadTypes, CloseFrame, threadVars
  <2>4. SharedTypes'
    BY <1>16, <2>1, <2>2 DEF SharedTypes, CloseFrame
  <2>5. WaitTypes'
    <3> DEFINE w == Current(t)
               res == And(frame[w].state, frame[w].low)
               rest == Front(waiting[t])
    <3>1. res \in {"Ok", "Failed", "Aborted"}
      BY <2>1 DEF And, WaitTypes, Frames
    <3>2. rest \in Seq(Workers)
      BY <1>16, FrontLast DEF CloseFrame, CallInv, WaitTypes
    <3>3. frame' \in [Workers -> Frames]
      <4>1. NoFrame \in Frames
        BY DEF NoFrame, Frames
      <4>2. CASE rest = <<>>
        BY <1>16, <4>1, <4>2 DEF CloseFrame, WaitTypes
      <4>3. CASE rest # <<>>
        <5> DEFINE f == [frame EXCEPT ![w] = NoFrame]
                   u == Last(rest)
        <5>1. u \in Workers /\ f \in [Workers -> Frames]
          BY <3>2, <4>1, <4>3, FrontLast DEF WaitTypes
        <5>2. And(f[u].state, res) \in {"Ok", "Failed", "Aborted"}
          BY <3>1, <5>1 DEF And, Frames
        <5>3. [f EXCEPT ![u].state = And(f[u].state, res)] \in [Workers -> Frames]
          <6> DEFINE st == And(f[u].state, res)
          <6>1. st \in {"Ok", "Failed", "Aborted"}
            BY <5>2
          <6>2. [f EXCEPT ![u].state = st] \in [Workers -> Frames]
            <7> HIDE DEF f, u, st
            <7> QED
              BY <5>1, <6>1 DEF Frames
          <6> QED
            BY <6>2
        <5>4. frame' = [f EXCEPT ![u].state = And(f[u].state, res)]
          BY <1>16, <4>3 DEF CloseFrame
        <5> QED
          BY <5>3, <5>4
      <4> QED
        BY <4>2, <4>3
    <3> QED
      BY <1>16, <3>1, <3>2, <3>3 DEF CloseFrame, WaitTypes, Results
  <2>6. UNCHANGED workVars
    BY <1>16 DEF CloseFrame, workVars
  <2> QED
    BY <2>3, <2>4, <2>5, <2>6, SameTypes
<1>17. ASSUME NEW w \in Workers, ObserveCancel(w)
      PROVE  TypeOK'
  <2>1. WorkTypes'
    BY <1>17 DEF WorkTypes, ObserveCancel
  <2>2. UNCHANGED <<threadVars, sharedVars, waitVars>>
    BY <1>17 DEF ObserveCancel, threadVars, sharedVars, waitVars
  <2> QED
    BY <2>1, <2>2, SameTypes
<1>18. ASSUME NEW w \in Workers, NEW o \in Outcomes, EndWork(w, o)
      PROVE  TypeOK'
  <2>1. ThreadTypes'
    BY <1>18 DEF ThreadTypes, EndWork, PCs
  <2>2. WorkTypes'
    BY <1>18 DEF WorkTypes, EndWork
  <2>3. UNCHANGED <<sharedVars, waitVars>>
    BY <1>18 DEF EndWork, sharedVars, waitVars
  <2> QED
    BY <2>1, <2>2, <2>3, SameTypes
<1>19. ASSUME NEW w \in Workers, Retire(w)
      PROVE  TypeOK'
  <2>1. ThreadTypes'
    BY <1>19 DEF ThreadTypes, Retire, PCs
  <2>2. UNCHANGED <<workVars, sharedVars, waitVars>>
    BY <1>19 DEF Retire, workVars, sharedVars, waitVars
  <2> QED
    BY <2>1, <2>2, SameTypes
<1>20. ASSUME NEW w \in Workers, SendDone(w)
      PROVE  TypeOK'
  <2>1. ThreadTypes'
    BY <1>20 DEF ThreadTypes, SendDone, PCs
  <2>2. WorkTypes'
    BY <1>20 DEF WorkTypes, SendDone
  <2>3. UNCHANGED <<sharedVars, waitVars>>
    BY <1>20 DEF SendDone, sharedVars, waitVars
  <2> QED
    BY <2>1, <2>2, <2>3, SameTypes
<1>21. ASSUME NEW w \in Workers, FailParent(w)
      PROVE  TypeOK'
  <2>1. ThreadTypes'
    BY <1>21 DEF ThreadTypes, FailParent, PCs
  <2>2. WorkTypes'
    BY <1>21, SendType DEF WorkTypes, FailParent
  <2>3. SharedTypes'
    BY <1>21 DEF SharedTypes, FailParent
  <2>4. UNCHANGED waitVars
    BY <1>21 DEF FailParent, waitVars
  <2> QED
    BY <2>1, <2>2, <2>3, <2>4, SameTypes
<1>22. ASSUME NEW w \in Workers, FailSibling(w)
      PROVE  TypeOK'
  <2>1. WorkTypes'
    BY <1>22, SendType DEF WorkTypes, FailSibling
  <2>2. SharedTypes'
    BY <1>22, FrontLast DEF SharedTypes, FailSibling
  <2>3. UNCHANGED <<threadVars, waitVars>>
    BY <1>22 DEF FailSibling, threadVars, waitVars
  <2> QED
    BY <2>1, <2>2, <2>3, SameTypes
<1>23. ASSUME NEW w \in Workers, FailDone(w)
      PROVE  TypeOK'
  <2>1. ThreadTypes'
    BY <1>23 DEF ThreadTypes, FailDone, PCs
  <2>2. SharedTypes'
    BY <1>23 DEF SharedTypes, FailDone
  <2>3. UNCHANGED <<workVars, waitVars>>
    BY <1>23 DEF FailDone, workVars, waitVars
  <2> QED
    BY <2>1, <2>2, <2>3, SameTypes
<1> QED
  BY <1>1, <1>2, <1>3, <1>4, <1>5, <1>6, <1>7, <1>8, <1>9, <1>10, <1>11, <1>12, <1>13, <1>14, <1>15, <1>16, <1>17, <1>18, <1>19, <1>20, <1>21, <1>22, <1>23
     DEF Next, Proceed, Epilogue, UserCall

\* Thread t comes back from a call about w, perhaps letting go of the handle,
\* or goes on to the last wait() of Drop.
Returns(t, w) ==
  \E x \in {"body", "unwind", "dropWait"} :
    /\ pc' = [pc EXCEPT ![t] = x]
    /\ x = "dropWait" => arg' = arg /\ owner' = owner
    /\ \A u \in Threads \ {t} : arg'[u] = arg[u]
    /\ \A v \in Workers \ {w} : owner'[v] = owner[v]
    /\ owner'[w] \in {owner[w], NoOne}

\* A call that answers, and a Drop that ends, return in the sense of Returns.
LEMMA AnswerReturns ==
  ASSUME ThreadTypes, NEW t \in Threads, NEW w \in Workers, NEW r,
         Answer(t, w, r) \/ Dropped(t, w)
  PROVE  Returns(t, w)
<1>1. CASE Dropped(t, w)
  BY <1>1 DEF ThreadTypes, Returns, Dropped, Home
<1>2. CASE Answer(t, w, r) /\ ~Dropped(t, w)
  BY <1>2 DEF ThreadTypes, Returns, Answer
<1> QED
  BY <1>1, <1>2

\* A call that returns keeps the calls of all threads in order.
LEMMA ReturnKeepsCalls ==
  ASSUME ThreadTypes, WaitTypes, CallInv, NEW t \in Threads, pc[t] \in InCall,
         Returns(t, arg[t]), waiting' = [waiting EXCEPT ![t] = <<>>]
  PROVE  CallInv'
<1> DEFINE w == arg[t]
<1>1. w \in Workers /\ owner[w] = t
  BY DEF CallInv
<1>2. PICK x \in {"body", "unwind", "dropWait"} :
         /\ pc' = [pc EXCEPT ![t] = x]
         /\ x = "dropWait" => arg' = arg /\ owner' = owner
         /\ \A u \in Threads \ {t} : arg'[u] = arg[u]
         /\ \A v \in Workers \ {w} : owner'[v] = owner[v]
         /\ owner'[w] \in {owner[w], NoOne}
  BY DEF Returns
<1> HIDE DEF w
<1>3. CallInv!1'
  <2> SUFFICES ASSUME NEW u \in Threads, pc'[u] \in InCall
               PROVE  arg'[u] \in Workers /\ owner'[arg'[u]] = u
    OBVIOUS
  <2>1. CASE u = t
    BY <1>1, <1>2, <2>1 DEF ThreadTypes, InCall, w
  <2>2. CASE u # t
    <3>1. arg'[u] = arg[u] /\ arg[u] \in Workers /\ owner[arg[u]] = u
      BY <1>2, <2>2 DEF ThreadTypes, CallInv
    <3> QED
      BY <1>1, <1>2, <2>2, <3>1
  <2> QED
    BY <2>1, <2>2
<1>4. CallInv!2'
  BY <1>2 DEF CallInv, ThreadTypes, WaitTypes
<1>5. CallInv!3'
  BY <1>2 DEF CallInv, ThreadTypes, WaitTypes
<1>6. CallInv!4'
  BY WorkerAssumption, <1>1, <1>2 DEF CallInv, ThreadTypes, Threads
<1> QED
  BY <1>3, <1>4, <1>5, <1>6 DEF CallInv

\* An opened frame goes on top of those of its thread, and of no other.
LEMMA OpenFrameCalls ==
  ASSUME WaitTypes, NEW t \in Threads, NEW w \in Workers, OpenFrame(t, w)
  PROVE  /\ waiting'[t] # <<>>
         /\ waiting'[t][1] = IF waiting[t] = <<>> THEN w ELSE waiting[t][1]
         /\ \A u \in Threads \ {t} : waiting'[u] = waiting[u]
<1>1. waiting[t] \in Seq(Workers) /\ waiting'[t] = Append(waiting[t], w)
  BY DEF WaitTypes, OpenFrame
<1>2. waiting'[t] # <<>> /\ waiting'[t][1] = IF waiting[t] = <<>> THEN w ELSE waiting[t][1]
  BY <1>1, AppendFacts
<1> QED
  BY <1>2 DEF WaitTypes, OpenFrame


\* Every action keeps the calls in order.
LEMMA CallStep ==
  ASSUME TypeOK, CallInv, Next
  PROVE  CallInv'
<1> USE WorkerAssumption DEF Threads, TypeOK
<1>1. ASSUME NEW t \in Threads, NEW p \in Workers \cup {NoOne}, NEW h \in Workers, Spawn(t, p, h)
      PROVE  CallInv'
  BY <1>1 DEF CallInv, ThreadTypes, WaitTypes, SharedTypes, InCall, Spawn, Free, workVars, sharedVars, waitVars
<1>2. ASSUME NEW t \in Threads, AttachLock(t)
      PROVE  CallInv'
  BY <1>2 DEF CallInv, ThreadTypes, WaitTypes, SharedTypes, InCall, AttachLock, workVars, sharedVars, waitVars
<1>3. ASSUME NEW t \in Threads, AttachChild(t)
      PROVE  CallInv'
  BY <1>3 DEF CallInv, ThreadTypes, WaitTypes, SharedTypes, InCall, AttachChild, workVars, sharedVars, waitVars
<1>4. ASSUME NEW t \in Threads, NEW h \in Workers, NEW f \in DOMAIN Entry, Call(t, h, f)
      PROVE  CallInv'
  BY <1>4 DEF CallInv, ThreadTypes, WaitTypes, SharedTypes, InCall, Call, Entry, Free, workVars, sharedVars, waitVars
<1>5. ASSUME NEW t \in Threads, NEW h \in Workers, Drop(t, h)
      PROVE  CallInv'
  BY <1>5 DEF CallInv, ThreadTypes, WaitTypes, SharedTypes, InCall, Drop, Free, workVars, sharedVars, waitVars
<1>6. ASSUME NEW t \in Threads, DropCheck(t)
      PROVE  CallInv'
  <2>1. CASE Dropped(t, arg[t])
    <3>1. pc[t] \in InCall /\ waiting[t] = <<>> /\ arg[t] \in Workers
      BY <1>6 DEF DropCheck, InCall, CallInv
    <3>2. waiting' = [waiting EXCEPT ![t] = <<>>]
      BY <1>6, <3>1 DEF DropCheck, waitVars, WaitTypes
    <3> QED
      BY <2>1, <3>1, <3>2, AnswerReturns, ReturnKeepsCalls
  <2>2. CASE ~Dropped(t, arg[t])
    BY <1>6, <2>2 DEF CallInv, ThreadTypes, InCall, DropCheck, waitVars
  <2> QED
    BY <2>1, <2>2
<1>7. ASSUME NEW t \in Threads, DropWait(t)
      PROVE  CallInv'
  <2>1. pc[t] \in InCall /\ waiting[t] = <<>> /\ arg[t] \in Workers
    BY <1>7 DEF DropWait, InCall, CallInv
  <2>2. waiting' = [waiting EXCEPT ![t] = <<>>]
    BY <1>7, <2>1 DEF DropWait, waitVars, WaitTypes
  <2>3. Dropped(t, arg[t])
    BY <1>7 DEF DropWait
  <2> QED
    BY <2>1, <2>2, <2>3, AnswerReturns, ReturnKeepsCalls
<1>8. ASSUME NEW t \in Threads, NEW h \in Workers, Poll(t, h)
      PROVE  CallInv'
  <2>1. CASE workEnded[h] = "sent"
    BY <1>8, <2>1 DEF CallInv, ThreadTypes, InCall, Poll, Free
  <2>2. CASE workEnded[h] # "sent"
    BY <1>8, <2>2 DEF CallInv, Poll
  <2> QED
    BY <2>1, <2>2
<1>9. ASSUME NEW t \in Threads, Terminate(t)
      PROVE  CallInv'
  <2>1. pc[t] \in InCall /\ waiting[t] = <<>> /\ arg[t] \in Workers
    BY <1>9 DEF Terminate, InCall, CallInv
  <2>2. waiting' = [waiting EXCEPT ![t] = <<>>]
    BY <1>9, <2>1 DEF Terminate, waitVars, WaitTypes
  <2>3. CASE Answer(t, arg[t], "Aborted")
    BY <2>1, <2>2, <2>3, AnswerReturns, ReturnKeepsCalls
  <2>4. CASE ~Answer(t, arg[t], "Aborted")
    BY <1>9, <2>4 DEF CallInv, ThreadTypes, InCall, Terminate, waitVars
  <2> QED
    BY <2>3, <2>4
<1>10. ASSUME NEW t \in Threads, DetachLock(t)
      PROVE  CallInv'
  <2>1. CASE parent[arg[t]] = NoOne
    BY <1>10, <2>1 DEF CallInv, ThreadTypes, InCall, DetachLock, waitVars
  <2>2. CASE parent[arg[t]] # NoOne
    BY <1>10, <2>2 DEF CallInv, ThreadTypes, InCall, DetachLock, waitVars
  <2> QED
    BY <2>1, <2>2
<1>11. ASSUME NEW t \in Threads, DetachParent(t)
      PROVE  CallInv'
  BY <1>11 DEF CallInv, ThreadTypes, WaitTypes, SharedTypes, InCall, DetachParent, workVars, sharedVars, waitVars
<1>12. ASSUME NEW t \in Threads, WaitLock(t)
      PROVE  CallInv'
  <2>1. pc[t] = "waitLock" /\ pc[t] \in InCall /\ waiting[t] = <<>> /\ arg[t] \in Workers
    BY <1>12 DEF WaitLock, InCall, CallInv
  <2>2. CASE result[arg[t]] # "none"
    <3>1. waiting' = [waiting EXCEPT ![t] = <<>>]
      BY <1>12, <2>1, <2>2 DEF WaitLock, WaitTypes
    <3> QED
      BY <1>12, <2>1, <2>2, <3>1, AnswerReturns, ReturnKeepsCalls DEF WaitLock
  <2>3. CASE result[arg[t]] = "none"
    <3>1. /\ pc' = [pc EXCEPT ![t] = "wait"]
          /\ arg' = arg /\ owner' = owner
          /\ OpenFrame(t, arg[t])
      BY <1>12, <2>3 DEF WaitLock
    <3>2. /\ waiting'[t] # <<>>
          /\ waiting'[t][1] = arg[t]
          /\ \A u \in Threads \ {t} : waiting'[u] = waiting[u]
      BY <2>1, <3>1, OpenFrameCalls
    <3> QED
      BY <2>1, <3>1, <3>2 DEF CallInv, ThreadTypes, InCall
  <2> QED
    BY <2>2, <2>3
<1>13. ASSUME NEW t \in Threads, SignalChild(t)
      PROVE  CallInv'
  BY <1>13 DEF CallInv, ThreadTypes, WaitTypes, SharedTypes, InCall, SignalChild, threadVars, Send, Current, workVars, sharedVars, waitVars
<1>14. ASSUME NEW t \in Threads, Join(t)
      PROVE  CallInv'
  BY <1>14 DEF CallInv, ThreadTypes, WaitTypes, SharedTypes, InCall, Join, threadVars, Joined, Current, workVars, sharedVars, waitVars
<1>15. ASSUME NEW t \in Threads, WaitChild(t)
      PROVE  CallInv'
  <2> DEFINE w == Current(t)
             c == Last(children[w])
  <2>1. w \in Workers /\ c \in Workers /\ waiting[t] # <<>>
    <3>1. w \in Workers /\ waiting[t] # <<>>
      BY <1>15, FrontLast DEF WaitChild, CallInv, Current, WaitTypes
    <3> QED
      BY <1>15, <3>1, FrontLast DEF WaitChild, SharedTypes
  <2>2. CASE result[c] # "none"
    BY <1>15, <2>2 DEF CallInv, WaitChild, threadVars
  <2>3. CASE result[c] = "none"
    <3>1. OpenFrame(t, c) /\ UNCHANGED threadVars
      BY <1>15, <2>3 DEF WaitChild
    <3>2. /\ waiting'[t] # <<>>
          /\ waiting'[t][1] = waiting[t][1]
          /\ \A u \in Threads \ {t} : waiting'[u] = waiting[u]
      BY <2>1, <3>1, OpenFrameCalls
    <3> QED
      BY <2>1, <3>1, <3>2 DEF CallInv, threadVars
  <2> QED
    BY <2>2, <2>3
<1>16. ASSUME NEW t \in Threads, CloseFrame(t)
      PROVE  CallInv'
  <2> DEFINE w == Current(t)
             rest == Front(waiting[t])
  <2>1. /\ pc[t] = "wait" /\ pc[t] \in InCall
        /\ waiting[t] \in Seq(Workers) /\ waiting[t] # <<>>
        /\ waiting[t][1] = arg[t] /\ arg[t] \in Workers
    BY <1>16 DEF CloseFrame, CallInv, WaitTypes, InCall
  <2>2. /\ rest \in Seq(Workers)
        /\ Len(rest) = Len(waiting[t]) - 1
        /\ w = waiting[t][Len(waiting[t])]
        /\ rest # <<>> => rest[1] = arg[t]
        /\ rest = <<>> => w = arg[t]
    BY <2>1, FrontLast DEF Current
  <2>3. waiting' = [waiting EXCEPT ![t] = rest]
    BY <1>16 DEF CloseFrame
  <2>4. CASE rest = <<>>
    <3>1. Answer(t, w, And(frame[w].state, frame[w].low))
      BY <1>16, <2>4 DEF CloseFrame
    <3> QED
      BY <2>1, <2>2, <2>3, <2>4, <3>1, AnswerReturns, ReturnKeepsCalls
  <2>5. CASE rest # <<>>
    <3>1. UNCHANGED threadVars
      BY <1>16, <2>5 DEF CloseFrame
    <3> HIDE DEF rest
    <3> QED
      BY <2>1, <2>2, <2>3, <2>5, <3>1 DEF CallInv, threadVars, WaitTypes
  <2> QED
    BY <2>4, <2>5
<1>17. ASSUME NEW w \in Workers, ObserveCancel(w)
      PROVE  CallInv'
  BY <1>17 DEF CallInv, ThreadTypes, WaitTypes, SharedTypes, InCall, ObserveCancel, threadVars, workVars, sharedVars, waitVars
<1>18. ASSUME NEW w \in Workers, NEW o \in Outcomes, EndWork(w, o)
      PROVE  CallInv'
  BY <1>18 DEF CallInv, ThreadTypes, WaitTypes, SharedTypes, InCall, EndWork, workVars, sharedVars, waitVars
<1>19. ASSUME NEW w \in Workers, Retire(w)
      PROVE  CallInv'
  BY <1>19 DEF CallInv, ThreadTypes, WaitTypes, SharedTypes, InCall, Retire, workVars, sharedVars, waitVars
<1>20. ASSUME NEW w \in Workers, SendDone(w)
      PROVE  CallInv'
  BY <1>20 DEF CallInv, ThreadTypes, WaitTypes, SharedTypes, InCall, SendDone, workVars, sharedVars, waitVars
<1>21. ASSUME NEW w \in Workers, FailParent(w)
      PROVE  CallInv'
  BY <1>21 DEF CallInv, ThreadTypes, WaitTypes, SharedTypes, InCall, FailParent, Send, workVars, sharedVars, waitVars
<1>22. ASSUME NEW w \in Workers, FailSibling(w)
      PROVE  CallInv'
  BY <1>22 DEF CallInv, ThreadTypes, WaitTypes, SharedTypes, InCall, FailSibling, threadVars, Send, workVars, sharedVars, waitVars
<1>23. ASSUME NEW w \in Workers, FailDone(w)
      PROVE  CallInv'
  BY <1>23 DEF CallInv, ThreadTypes, WaitTypes, SharedTypes, InCall, FailDone, workVars, sharedVars, waitVars
<1> QED
  BY <1>1, <1>2, <1>3, <1>4, <1>5, <1>6, <1>7, <1>8, <1>9, <1>10, <1>11, <1>12, <1>13, <1>14, <1>15, <1>16, <1>17, <1>18, <1>19, <1>20, <1>21, <1>22, <1>23
     DEF Next, Proceed, Epilogue, UserCall

-----------------------------------------------------------------------------
(* Typing.                                                                 *)

\* The initial state has the types, and no call is open.
LEMMA InitTypes == Init => TypeOK /\ CallInv
BY WorkerAssumption DEF Init, TypeOK, ThreadTypes, WorkTypes, SharedTypes, WaitTypes,
   CallInv, InCall, PCs, Results, Frames, NoFrame, Threads

\* Types and the order of calls are invariants.
LEMMA Typing == Spec => [](TypeOK /\ CallInv)
<1>1. Init => TypeOK /\ CallInv
  BY InitTypes
<1>2. TypeOK /\ CallInv /\ [Next]_vars => (TypeOK /\ CallInv)'
  <2> SUFFICES ASSUME TypeOK, CallInv, [Next]_vars
               PROVE  TypeOK' /\ CallInv'
    OBVIOUS
  <2>1. CASE Next
    BY <2>1, TypeStep, CallStep
  <2>2. CASE UNCHANGED vars
    <3>1. UNCHANGED <<threadVars, workVars, sharedVars, waitVars>>
      BY <2>2 DEF vars, threadVars, workVars, sharedVars, waitVars
    <3>2. TypeOK'
      BY <3>1, SameTypes DEF TypeOK
    <3>3. CallInv'
      BY <3>1 DEF CallInv, threadVars, waitVars
    <3> QED
      BY <3>2, <3>3
  <2> QED
    BY <2>1, <2>2
<1> QED
  BY <1>1, <1>2, PTL DEF Spec

\* Every variable of the crate's state keeps its type: no call on a handle, in
\* any tree of workers, leaves a lock, a list of children or a stored result in
\* a form the code does not expect.
THEOREM TypeCorrect == Spec => []TypeOK
BY Typing, PTL

-----------------------------------------------------------------------------
(* Birth.                                                                  *)

\* A thread that is born stays so, and one that has ended too.
LEMMA Ages ==
  ASSUME TypeOK, CallInv, Next
  PROVE  \A w \in Workers : /\ pc[w] # "unborn" => pc'[w] # "unborn"
                            /\ pc[w] = "ended" => pc'[w] = "ended"
                            /\ pc[w] = "unborn" => pc'[w] = "unborn" \/ thread'[w]
<1> USE DEF TypeOK, ThreadTypes, Threads
<1>1. ASSUME NEW t \in Threads, NEW p \in Workers \cup {NoOne}, NEW h \in Workers, Spawn(t, p, h), NEW v \in Workers
      PROVE  /\ pc[v] # "unborn" => pc'[v] # "unborn"
             /\ pc[v] = "ended" => pc'[v] = "ended"
             /\ pc[v] = "unborn" => pc'[v] = "unborn" \/ thread'[v]
  <2>1. \A u \in Threads \ {t, h} : pc'[u] = pc[u]
    BY <1>1 DEF Spawn, Free
  <2>2. pc[t] \notin {"unborn", "ended"} /\ pc'[t] # "unborn"
    BY <1>1 DEF Spawn, Free
  <2>3. pc[h] # "ended" /\ pc'[h] # "unborn" /\ thread'[h]
    BY <1>1 DEF Spawn, Free, WaitTypes
  <2> QED
    BY <2>1, <2>2, <2>3
<1>2. ASSUME NEW t \in Threads, AttachLock(t), NEW v \in Workers
      PROVE  /\ pc[v] # "unborn" => pc'[v] # "unborn"
             /\ pc[v] = "ended" => pc'[v] = "ended"
             /\ pc[v] = "unborn" => pc'[v] = "unborn" \/ thread'[v]
  BY <1>2 DEF AttachLock
<1>3. ASSUME NEW t \in Threads, AttachChild(t), NEW v \in Workers
      PROVE  /\ pc[v] # "unborn" => pc'[v] # "unborn"
             /\ pc[v] = "ended" => pc'[v] = "ended"
             /\ pc[v] = "unborn" => pc'[v] = "unborn" \/ thread'[v]
  BY <1>3 DEF AttachChild
<1>4. ASSUME NEW t \in Threads, NEW h \in Workers, NEW f \in DOMAIN Entry, Call(t, h, f), NEW v \in Workers
      PROVE  /\ pc[v] # "unborn" => pc'[v] # "unborn"
             /\ pc[v] = "ended" => pc'[v] = "ended"
             /\ pc[v] = "unborn" => pc'[v] = "unborn" \/ thread'[v]
  BY <1>4 DEF Call, Entry, Free
<1>5. ASSUME NEW t \in Threads, NEW h \in Workers, Drop(t, h), NEW v \in Workers
      PROVE  /\ pc[v] # "unborn" => pc'[v] # "unborn"
             /\ pc[v] = "ended" => pc'[v] = "ended"
             /\ pc[v] = "unborn" => pc'[v] = "unborn" \/ thread'[v]
  BY <1>5 DEF Drop, Free
<1>6. ASSUME NEW t \in Threads, DropCheck(t), NEW v \in Workers
      PROVE  /\ pc[v] # "unborn" => pc'[v] # "unborn"
             /\ pc[v] = "ended" => pc'[v] = "ended"
             /\ pc[v] = "unborn" => pc'[v] = "unborn" \/ thread'[v]
  <2>1. \A u \in Threads \ {t} : pc'[u] = pc[u]
    BY <1>6 DEF DropCheck, Dropped, Home, Unwinding
  <2>2. pc[t] \notin {"unborn", "ended"} /\ pc'[t] # "unborn"
    BY <1>6 DEF DropCheck, Dropped, Home, Unwinding
  <2> QED
    BY <2>1, <2>2
<1>7. ASSUME NEW t \in Threads, DropWait(t), NEW v \in Workers
      PROVE  /\ pc[v] # "unborn" => pc'[v] # "unborn"
             /\ pc[v] = "ended" => pc'[v] = "ended"
             /\ pc[v] = "unborn" => pc'[v] = "unborn" \/ thread'[v]
  BY <1>7 DEF DropWait, Dropped, Home, Unwinding
<1>8. ASSUME NEW t \in Threads, NEW h \in Workers, Poll(t, h), NEW v \in Workers
      PROVE  /\ pc[v] # "unborn" => pc'[v] # "unborn"
             /\ pc[v] = "ended" => pc'[v] = "ended"
             /\ pc[v] = "unborn" => pc'[v] = "unborn" \/ thread'[v]
  <2>1. \A u \in Threads \ {t} : pc'[u] = pc[u]
    BY <1>8 DEF Poll, Free
  <2>2. pc[t] \notin {"unborn", "ended"} /\ pc'[t] # "unborn"
    BY <1>8 DEF Poll, Free
  <2> QED
    BY <2>1, <2>2
<1>9. ASSUME NEW t \in Threads, Terminate(t), NEW v \in Workers
      PROVE  /\ pc[v] # "unborn" => pc'[v] # "unborn"
             /\ pc[v] = "ended" => pc'[v] = "ended"
             /\ pc[v] = "unborn" => pc'[v] = "unborn" \/ thread'[v]
  <2>1. \A u \in Threads \ {t} : pc'[u] = pc[u]
    BY <1>9 DEF Terminate, Answer, Dropped, Home, Unwinding
  <2>2. pc[t] \notin {"unborn", "ended"} /\ pc'[t] # "unborn"
    BY <1>9 DEF Terminate, Answer, Dropped, Home, Unwinding
  <2> QED
    BY <2>1, <2>2
<1>10. ASSUME NEW t \in Threads, DetachLock(t), NEW v \in Workers
      PROVE  /\ pc[v] # "unborn" => pc'[v] # "unborn"
             /\ pc[v] = "ended" => pc'[v] = "ended"
             /\ pc[v] = "unborn" => pc'[v] = "unborn" \/ thread'[v]
  <2>1. \A u \in Threads \ {t} : pc'[u] = pc[u]
    BY <1>10 DEF DetachLock
  <2>2. pc[t] \notin {"unborn", "ended"} /\ pc'[t] # "unborn"
    BY <1>10 DEF DetachLock
  <2> QED
    BY <2>1, <2>2
<1>11. ASSUME NEW t \in Threads, DetachParent(t), NEW v \in Workers
      PROVE  /\ pc[v] # "unborn" => pc'[v] # "unborn"
             /\ pc[v] = "ended" => pc'[v] = "ended"
             /\ pc[v] = "unborn" => pc'[v] = "unborn" \/ thread'[v]
  BY <1>11 DEF DetachParent
<1>12. ASSUME NEW t \in Threads, WaitLock(t), NEW v \in Workers
      PROVE  /\ pc[v] # "unborn" => pc'[v] # "unborn"
             /\ pc[v] = "ended" => pc'[v] = "ended"
             /\ pc[v] = "unborn" => pc'[v] = "unborn" \/ thread'[v]
  <2>1. \A u \in Threads \ {t} : pc'[u] = pc[u]
    BY <1>12 DEF WaitLock, Answer, Dropped, Home, Unwinding, OpenFrame
  <2>2. pc[t] \notin {"unborn", "ended"} /\ pc'[t] # "unborn"
    BY <1>12 DEF WaitLock, Answer, Dropped, Home, Unwinding, OpenFrame
  <2> QED
    BY <2>1, <2>2
<1>13. ASSUME NEW t \in Threads, SignalChild(t), NEW v \in Workers
      PROVE  /\ pc[v] # "unborn" => pc'[v] # "unborn"
             /\ pc[v] = "ended" => pc'[v] = "ended"
             /\ pc[v] = "unborn" => pc'[v] = "unborn" \/ thread'[v]
  BY <1>13 DEF SignalChild, threadVars, Current
<1>14. ASSUME NEW t \in Threads, Join(t), NEW v \in Workers
      PROVE  /\ pc[v] # "unborn" => pc'[v] # "unborn"
             /\ pc[v] = "ended" => pc'[v] = "ended"
             /\ pc[v] = "unborn" => pc'[v] = "unborn" \/ thread'[v]
  BY <1>14 DEF Join, threadVars, Current
<1>15. ASSUME NEW t \in Threads, WaitChild(t), NEW v \in Workers
      PROVE  /\ pc[v] # "unborn" => pc'[v] # "unborn"
             /\ pc[v] = "ended" => pc'[v] = "ended"
             /\ pc[v] = "unborn" => pc'[v] = "unborn" \/ thread'[v]
  BY <1>15 DEF WaitChild, threadVars, OpenFrame, Current
<1>16. ASSUME NEW t \in Threads, CloseFrame(t), NEW v \in Workers
      PROVE  /\ pc[v] # "unborn" => pc'[v] # "unborn"
             /\ pc[v] = "ended" => pc'[v] = "ended"
             /\ pc[v] = "unborn" => pc'[v] = "unborn" \/ thread'[v]
  <2>1. \A u \in Threads \ {t} : pc'[u] = pc[u]
    BY <1>16 DEF CloseFrame, Answer, Dropped, Home, Unwinding, threadVars, Current
  <2>2. pc[t] \notin {"unborn", "ended"} /\ pc'[t] # "unborn"
    BY <1>16 DEF CloseFrame, Answer, Dropped, Home, Unwinding, threadVars, Current
  <2> QED
    BY <2>1, <2>2
<1>17. ASSUME NEW w \in Workers, ObserveCancel(w), NEW v \in Workers
      PROVE  /\ pc[v] # "unborn" => pc'[v] # "unborn"
             /\ pc[v] = "ended" => pc'[v] = "ended"
             /\ pc[v] = "unborn" => pc'[v] = "unborn" \/ thread'[v]
  BY <1>17 DEF ObserveCancel, threadVars
<1>18. ASSUME NEW w \in Workers, NEW o \in Outcomes, EndWork(w, o), NEW v \in Workers
      PROVE  /\ pc[v] # "unborn" => pc'[v] # "unborn"
             /\ pc[v] = "ended" => pc'[v] = "ended"
             /\ pc[v] = "unborn" => pc'[v] = "unborn" \/ thread'[v]
  BY <1>18 DEF EndWork
<1>19. ASSUME NEW w \in Workers, Retire(w), NEW v \in Workers
      PROVE  /\ pc[v] # "unborn" => pc'[v] # "unborn"
             /\ pc[v] = "ended" => pc'[v] = "ended"
             /\ pc[v] = "unborn" => pc'[v] = "unborn" \/ thread'[v]
  BY <1>19 DEF Retire
<1>20. ASSUME NEW w \in Workers, SendDone(w), NEW v \in Workers
      PROVE  /\ pc[v] # "unborn" => pc'[v] # "unborn"
             /\ pc[v] = "ended" => pc'[v] = "ended"
             /\ pc[v] = "unborn" => pc'[v] = "unborn" \/ thread'[v]
  BY <1>20 DEF SendDone
<1>21. ASSUME NEW w \in Workers, FailParent(w), NEW v \in Workers
      PROVE  /\ pc[v] # "unborn" => pc'[v] # "unborn"
             /\ pc[v] = "ended" => pc'[v] = "ended"
             /\ pc[v] = "unborn" => pc'[v] = "unborn" \/ thread'[v]
  BY <1>21 DEF FailParent, Send
<1>22. ASSUME NEW w \in Workers, FailSibling(w), NEW v \in Workers
      PROVE  /\ pc[v] # "unborn" => pc'[v] # "unborn"
             /\ pc[v] = "ended" => pc'[v] = "ended"
             /\ pc[v] = "unborn" => pc'[v] = "unborn" \/ thread'[v]
  BY <1>22 DEF FailSibling, threadVars
<1>23. ASSUME NEW w \in Workers, FailDone(w), NEW v \in Workers
      PROVE  /\ pc[v] # "unborn" => pc'[v] # "unborn"
             /\ pc[v] = "ended" => pc'[v] = "ended"
             /\ pc[v] = "unborn" => pc'[v] = "unborn" \/ thread'[v]
  BY <1>23 DEF FailDone
<1> QED
  BY <1>1, <1>2, <1>3, <1>4, <1>5, <1>6, <1>7, <1>8, <1>9, <1>10, <1>11, <1>12, <1>13, <1>14, <1>15, <1>16, <1>17, <1>18, <1>19, <1>20, <1>21, <1>22, <1>23
     DEF Next, Proceed, Epilogue, UserCall

\* A call is about a worker that has been spawned.
LEMMA ArgBorn ==
  ASSUME TypeOK, CallInv, NEW t \in Threads, pc[t] \in InCall
  PROVE  arg[t] \in Workers /\ pc[arg[t]] # "unborn"
<1>1. arg[t] \in Workers /\ owner[arg[t]] = t /\ t # NoOne
  BY WorkerAssumption DEF CallInv
<1> QED
  BY <1>1 DEF CallInv

\* A wait() frame is open on a worker.
LEMMA CurrentWorker ==
  ASSUME TypeOK, CallInv, NEW t \in Threads, pc[t] = "wait"
  PROVE  /\ waiting[t] \in Seq(Workers) /\ waiting[t] # <<>>
         /\ Current(t) \in Workers
         /\ Current(t) = waiting[t][Len(waiting[t])]
<1>1. waiting[t] \in Seq(Workers) /\ waiting[t] # <<>>
  BY DEF TypeOK, WaitTypes, CallInv
<1>2. Last(waiting[t]) \in Workers /\ Last(waiting[t]) = waiting[t][Len(waiting[t])]
  BY <1>1, FrontLast
<1> QED
  BY <1>1, <1>2 DEF Current

-----------------------------------------------------------------------------
(* What the actions of wait() do to the frames.                            *)

\* Worker::wait opens a frame, and only on a worker without a result.
LEMMA WaitLockFrames ==
  ASSUME TypeOK, CallInv, NEW t \in Threads, WaitLock(t)
  PROVE  /\ arg[t] \in Workers /\ pc[arg[t]] # "unborn"
         /\ lock[arg[t]] = NoOne
         /\ \A v \in Workers :
              /\ \/ frame'[v].phase = frame[v].phase
                 \/ v = arg[t] /\ frame'[v].phase = "signal" /\ OpenFrame(t, v) /\ result[v] = "none"
              /\ frame'[v].state = frame[v].state
<1>1. arg[t] \in Workers /\ pc[arg[t]] # "unborn"
  BY ArgBorn DEF WaitLock, InCall
<1>2. lock[arg[t]] = NoOne
  BY DEF WaitLock
<1>3. CASE result[arg[t]] # "none"
  BY <1>1, <1>2, <1>3 DEF WaitLock
<1>4. CASE result[arg[t]] = "none"
  <2>1. OpenFrame(t, arg[t])
    BY <1>4 DEF WaitLock
  <2>2. frame' = [frame EXCEPT ![arg[t]].phase = "signal"]
    BY <2>1 DEF OpenFrame
  <2>3. \A v \in Workers :
          /\ frame'[v].phase = IF v = arg[t] THEN "signal" ELSE frame[v].phase
          /\ frame'[v].state = frame[v].state
    BY <1>1, <2>2 DEF TypeOK, WaitTypes, Frames
  <2> QED
    BY <1>1, <1>2, <1>4, <2>1, <2>3
<1> QED
  BY <1>3, <1>4

\* Signalling a child leaves the phase and the state of all frames alone.
LEMMA SignalChildFrames ==
  ASSUME TypeOK, CallInv, NEW t \in Threads, SignalChild(t)
  PROVE  \A v \in Workers : /\ frame'[v].phase = frame[v].phase
                            /\ frame'[v].state = frame[v].state
<1> DEFINE w == Current(t)
           n == frame[w].next + 1
<1>1. /\ w \in Workers
      /\ \/ frame' = [frame EXCEPT ![w].next = n]
         \/ frame' = [frame EXCEPT ![w].low = "Aborted"]
  BY CurrentWorker DEF SignalChild
<1> HIDE DEF w, n
<1>2. CASE frame' = [frame EXCEPT ![w].next = n]
  BY <1>1, <1>2 DEF TypeOK, WaitTypes, Frames
<1>3. CASE frame' = [frame EXCEPT ![w].low = "Aborted"]
  BY <1>1, <1>3 DEF TypeOK, WaitTypes, Frames
<1> QED
  BY <1>1, <1>2, <1>3

\* Joining fills in the state of one frame, with Ok only for a thread that returned Ok.
LEMMA JoinFrames ==
  ASSUME TypeOK, CallInv, NEW t \in Threads, Join(t)
  PROVE  LET w == Current(t) IN
         /\ w \in Workers
         /\ frame[w].phase = "signal" /\ (thread[w] => pc[w] = "ended")
         /\ \A v \in Workers : frame'[v].phase = IF v = w THEN "drain" ELSE frame[v].phase
         /\ \A v \in Workers : v # w => frame'[v] = frame[v]
         /\ frame'[w].state = "Ok" => thread[w] /\ outcome[w] = "Ok"
<1> DEFINE w == Current(t)
           st == IF thread[w] THEN Joined(w) ELSE "Aborted"
<1>1. w \in Workers
  BY CurrentWorker DEF Join
<1>2. /\ frame' = [frame EXCEPT ![w].phase = "drain", ![w].state = st]
      /\ frame[w].phase = "signal" /\ (thread[w] => pc[w] = "ended")
  BY DEF Join
<1>3. st = "Ok" => thread[w] /\ outcome[w] = "Ok"
  BY DEF Joined
<1>4. /\ \A v \in Workers : frame'[v].phase = IF v = w THEN "drain" ELSE frame[v].phase
      /\ \A v \in Workers : v # w => frame'[v] = frame[v]
      /\ frame'[w].state = st
  <2> HIDE DEF w, st
  <2> QED
    BY <1>1, <1>2 DEF TypeOK, WaitTypes, Frames
<1> QED
  BY <1>1, <1>2, <1>3, <1>4

\* Waiting for a child opens a frame on it or takes its result; no state turns Ok.
LEMMA WaitChildFrames ==
  ASSUME TypeOK, CallInv, NEW t \in Threads, WaitChild(t)
  PROVE  LET w == Current(t)
             c == Last(children[w])
         IN
         /\ w \in Workers /\ c \in Workers
         /\ frame[w].phase = "drain" /\ lock[c] = NoOne
         /\ Len(children[w]) \in 1..Len(children[w]) /\ c = children[w][Len(children[w])]
         /\ \A v \in Workers :
              /\ \/ frame'[v].phase = frame[v].phase
                 \/ v = c /\ frame'[v].phase = "signal" /\ OpenFrame(t, v) /\ result[v] = "none"
              /\ frame'[v].state = "Ok" => frame[v].state = "Ok"
<1> DEFINE w == Current(t)
           c == Last(children[w])
           st == And(frame[w].state, result[c])
<1>1. w \in Workers /\ children[w] \in Seq(Workers) /\ children[w] # <<>>
  BY CurrentWorker DEF WaitChild, TypeOK, SharedTypes
<1>2. c \in Workers /\ Len(children[w]) \in 1..Len(children[w]) /\ c = children[w][Len(children[w])]
  <2> HIDE DEF w
  <2>1. /\ Len(children[w]) \in Nat \ {0}
        /\ Last(children[w]) = children[w][Len(children[w])]
        /\ Last(children[w]) \in Workers
    BY <1>1, FrontLast
  <2> QED
    BY <2>1
<1>3. frame[w].phase = "drain" /\ lock[c] = NoOne
  BY DEF WaitChild
<1>4. st = "Ok" => frame[w].state = "Ok"
  BY DEF And
<1>5. CASE result[c] = "none"
  <2>1. OpenFrame(t, c)
    BY <1>5 DEF WaitChild
  <2>2. frame' = [frame EXCEPT ![c].phase = "signal"]
    BY <2>1 DEF OpenFrame
  <2>3. \A v \in Workers :
          /\ frame'[v].phase = IF v = c THEN "signal" ELSE frame[v].phase
          /\ frame'[v].state = frame[v].state
    <3> HIDE DEF c
    <3> QED
      BY <1>2, <2>2 DEF TypeOK, WaitTypes, Frames
  <2> QED
    BY <1>1, <1>2, <1>3, <1>5, <2>1, <2>3
<1>6. CASE result[c] # "none"
  <2>1. frame' = [frame EXCEPT ![w].state = st]
    BY <1>6 DEF WaitChild
  <2>2. \A v \in Workers :
          /\ frame'[v].phase = frame[v].phase
          /\ frame'[v].state = IF v = w THEN st ELSE frame[v].state
    <3> HIDE DEF w, st
    <3> QED
      BY <1>1, <2>1 DEF TypeOK, WaitTypes, Frames
  <2> QED
    BY <1>1, <1>2, <1>3, <1>4, <2>2
<1> QED
  BY <1>5, <1>6

\* The end of wait() ends the topmost frame of its thread; no other state turns Ok.
LEMMA CloseFrameFrames ==
  ASSUME TypeOK, CallInv, NEW t \in Threads, CloseFrame(t)
  PROVE  LET w == Current(t)
             rest == Front(waiting[t])
         IN
         /\ waiting[t] \in Seq(Workers) /\ waiting[t] # <<>> /\ waiting[t][1] = arg[t]
         /\ w \in Workers /\ w = waiting[t][Len(waiting[t])]
         /\ rest \in Seq(Workers) /\ Len(rest) = Len(waiting[t]) - 1
         /\ \A i \in 1..(Len(waiting[t]) - 1) : rest[i] = waiting[t][i]
         /\ frame[w].phase = "drain"
         /\ \A v \in Workers :
              /\ frame'[v].phase = IF v = w THEN "idle" ELSE frame[v].phase
              /\ v # w /\ frame'[v].state = "Ok" => frame[v].state = "Ok"
<1> DEFINE w == Current(t)
           rest == Front(waiting[t])
           res == And(frame[w].state, frame[w].low)
           f == [frame EXCEPT ![w] = NoFrame]
           u == Last(rest)
           st == And(f[u].state, res)
<1>1. /\ waiting[t] \in Seq(Workers) /\ waiting[t] # <<>> /\ waiting[t][1] = arg[t]
      /\ w \in Workers /\ w = waiting[t][Len(waiting[t])]
      /\ frame[w].phase = "drain"
  BY CurrentWorker DEF CloseFrame, CallInv
<1>2. /\ rest \in Seq(Workers) /\ Len(rest) = Len(waiting[t]) - 1
      /\ \A i \in 1..(Len(waiting[t]) - 1) : rest[i] = waiting[t][i]
  BY <1>1, FrontLast
<1>3. f \in [Workers -> Frames] /\ \A v \in Workers : f[v] = IF v = w THEN NoFrame ELSE frame[v]
  <2>1. NoFrame \in Frames
    BY DEF NoFrame, Frames
  <2> HIDE DEF w
  <2> QED
    BY <1>1, <2>1 DEF TypeOK, WaitTypes
<1>4. NoFrame.phase = "idle"
  BY DEF NoFrame
<1>5. CASE rest = <<>>
  <2>1. frame' = f
    BY <1>5 DEF CloseFrame
  <2> HIDE DEF w, f, rest
  <2> QED
    BY <1>1, <1>2, <1>3, <1>4, <2>1 DEF w, rest
<1>6. CASE rest # <<>>
  <2>2. frame' = [f EXCEPT ![u].state = st]
    BY <1>6 DEF CloseFrame
  <2>3. u \in Workers
    BY <1>2, <1>6, FrontLast
  <2>4. st = "Ok" => f[u].state = "Ok"
    BY DEF And
  <2>5. ASSUME NEW v \in Workers
        PROVE  /\ frame'[v].phase = f[v].phase
               /\ frame'[v].state = "Ok" => f[v].state = "Ok"
    <3> HIDE DEF f, u, st
    <3> QED
      BY <1>3, <2>2, <2>3, <2>4 DEF Frames
  <2>6. ASSUME NEW v \in Workers, v = w
        PROVE  frame'[v].phase = "idle"
    <3> HIDE DEF f, u, st, w, rest
    <3>1. f[v] = NoFrame
      BY <1>3, <2>6
    <3>2. frame'[v].phase = f[v].phase
      BY <2>5
    <3> QED
      BY <1>4, <3>1, <3>2
  <2>7. ASSUME NEW v \in Workers, v # w
        PROVE  /\ frame'[v].phase = frame[v].phase
               /\ frame'[v].state = "Ok" => frame[v].state = "Ok"
    <3> HIDE DEF f, u, st, w, rest
    <3>1. f[v] = frame[v]
      BY <1>3, <2>7
    <3>2. /\ frame'[v].phase = f[v].phase
          /\ frame'[v].state = "Ok" => f[v].state = "Ok"
      BY <2>5
    <3> QED
      BY <3>1, <3>2
  <2> QED
    BY <1>1, <1>2, <2>6, <2>7
<1> QED
  BY <1>5, <1>6

\* Nobody refers to a worker that has not been spawned, and a thread that has
\* been joined is over.
BornInv ==
  /\ \A w \in Workers : \A i \in 1..Len(children[w]) : pc[children[w][i]] # "unborn"
  /\ \A w \in Workers : frame[w].phase # "idle" => pc[w] # "unborn"
  /\ \A w \in Workers : parent[w] # NoOne => pc[parent[w]] # "unborn"
  /\ \A w \in Workers : ~thread[w] => pc[w] \in {"unborn", "ended"}

\* No child is new in any list.
Fewer ==
  \A w \in Workers : \A i \in 1..Len(children'[w]) :
    \E j \in 1..Len(children[w]) : children'[w][i] = children[w][j]

\* The ways in which the code shortens a list add no child to it.
LEMMA FewerChildren ==
  ASSUME SharedTypes, NEW p,
         \/ UNCHANGED children
         \/ \E i \in 1..Len(children[p]) : children' = [children EXCEPT ![p] = RemoveAt(@, i)]
         \/ children[p] # <<>> /\ children' = [children EXCEPT ![p] = Front(@)]
  PROVE  Fewer
<1>1. CASE UNCHANGED children
  BY <1>1 DEF Fewer
<1>2. CASE p \notin Workers
  <2>1. UNCHANGED children
    BY <1>2 DEF SharedTypes
  <2> QED
    BY <2>1 DEF Fewer
<1>3. ASSUME p \in Workers, NEW s \in Seq(Workers), children' = [children EXCEPT ![p] = s],
             \A i \in 1..Len(s) : \E j \in 1..Len(children[p]) : s[i] = children[p][j]
      PROVE  Fewer
  BY <1>3 DEF Fewer, SharedTypes
<1>4. CASE /\ p \in Workers
           /\ \E i \in 1..Len(children[p]) : children' = [children EXCEPT ![p] = RemoveAt(@, i)]
  <2>1. PICK i \in 1..Len(children[p]) : children' = [children EXCEPT ![p] = RemoveAt(@, i)]
    BY <1>4
  <2>2. children[p] \in Seq(Workers)
    BY <1>4 DEF SharedTypes
  <2>3. /\ RemoveAt(children[p], i) \in Seq(Workers)
        /\ \A j \in 1..Len(RemoveAt(children[p], i)) :
             \E k \in 1..Len(children[p]) : RemoveAt(children[p], i)[j] = children[p][k]
    BY <2>2, RemoveAtType
  <2> QED
    BY <1>3, <1>4, <2>1, <2>3
<1>5. CASE p \in Workers /\ children[p] # <<>> /\ children' = [children EXCEPT ![p] = Front(@)]
  <2>1. children[p] \in Seq(Workers)
    BY <1>5 DEF SharedTypes
  <2>2. /\ Front(children[p]) \in Seq(Workers)
        /\ \A i \in 1..Len(Front(children[p])) :
             i \in 1..Len(children[p]) /\ Front(children[p])[i] = children[p][i]
    <3> DEFINE s == children[p]
    <3>1. s \in Seq(Workers) /\ s # <<>>
      BY <1>5, <2>1
    <3> HIDE DEF s
    <3>2. /\ Front(s) \in Seq(Workers)
          /\ Len(Front(s)) = Len(s) - 1
          /\ \A i \in 1..(Len(s) - 1) : Front(s)[i] = s[i]
          /\ Len(s) \in Nat \ {0}
      BY <3>1, FrontLast
    <3>3. Front(s) \in Seq(Workers) /\ \A i \in 1..Len(Front(s)) :
             i \in 1..Len(s) /\ Front(s)[i] = s[i]
      BY <3>2
    <3> QED
      BY <3>3 DEF s
  <2>3. \A i \in 1..Len(Front(children[p])) :
             \E j \in 1..Len(children[p]) : Front(children[p])[i] = children[p][j]
    BY <2>2
  <2> QED
    BY <1>3, <1>5, <2>2, <2>3
<1> QED
  BY <1>1, <1>2, <1>4, <1>5

\* Every action keeps it.
LEMMA BornStep ==
  ASSUME TypeOK, CallInv, BornInv, Next
  PROVE  BornInv'
<1>0. \A w \in Workers : /\ pc[w] # "unborn" => pc'[w] # "unborn"
                         /\ pc[w] = "ended" => pc'[w] = "ended"
                         /\ pc[w] = "unborn" => pc'[w] = "unborn" \/ thread'[w]
  BY Ages
<1> USE <1>0 DEF TypeOK, SharedTypes, WaitTypes
<1>a. ASSUME Fewer
      PROVE  BornInv!1'
  <2> SUFFICES ASSUME NEW w \in Workers, NEW i \in 1..Len(children'[w])
               PROVE  pc'[children'[w][i]] # "unborn"
    OBVIOUS
  <2>1. PICK j \in 1..Len(children[w]) : children'[w][i] = children[w][j]
    BY <1>a DEF Fewer
  <2>2. children[w][j] \in Workers /\ pc[children[w][j]] # "unborn"
    BY DEF BornInv
  <2> QED
    BY <2>1, <2>2
<1>b. ASSUME \A w \in Workers : frame'[w].phase # "idle" =>
                frame[w].phase # "idle" \/ pc[w] # "unborn"
      PROVE  BornInv!2'
  BY <1>b DEF BornInv
<1>c. ASSUME UNCHANGED parent
      PROVE  BornInv!3'
  <2> SUFFICES ASSUME NEW w \in Workers, parent[w] # NoOne
               PROVE  pc'[parent[w]] # "unborn"
    BY <1>c
  <2>1. parent[w] \in Workers
    OBVIOUS
  <2> QED
    BY <2>1 DEF BornInv
<1>d. ASSUME \A w \in Workers : thread[w] /\ ~thread'[w] => pc[w] = "ended"
      PROVE  BornInv!4'
  <2> SUFFICES ASSUME NEW w \in Workers, ~thread'[w]
               PROVE  pc'[w] \in {"unborn", "ended"}
    OBVIOUS
  <2>1. pc[w] \in {"unborn", "ended"}
    BY <1>d DEF BornInv
  <2> QED
    BY <2>1
<1>1. ASSUME NEW t \in Threads, NEW p \in Workers \cup {NoOne}, NEW h \in Workers, Spawn(t, p, h)
      PROVE  BornInv'
  <2>1. UNCHANGED <<children, frame>>
    BY <1>1 DEF Spawn, sharedVars, waitVars
  <2>2. BornInv!3'
    <3> SUFFICES ASSUME NEW w \in Workers, parent'[w] # NoOne
                 PROVE  pc'[parent'[w]] # "unborn"
      OBVIOUS
    <3>1. CASE w = h
      <4>1. parent'[w] = p /\ p \in Workers
        BY <1>1, <3>1 DEF Spawn
      <4>2. p = t \/ owner[p] = t
        BY <1>1, <4>1 DEF Spawn
      <4>3. pc[p] # "unborn"
        BY <1>1, WorkerAssumption, <4>1, <4>2 DEF Spawn, Free, CallInv, Threads
      <4> QED
        BY <4>1, <4>3
    <3>2. CASE w # h
      <4>1. parent'[w] = parent[w] /\ parent[w] \in Workers
        BY <1>1, <3>2 DEF Spawn
      <4> QED
        BY <4>1 DEF BornInv
    <3> QED
      BY <3>1, <3>2
  <2>3. BornInv!4'
    <3>1. \A w \in Workers : thread[w] /\ ~thread'[w] => pc[w] = "ended"
      BY <1>1 DEF Spawn
    <3> QED
      BY <3>1, <1>d
  <2> QED
    BY <2>1, <2>2, <2>3, FewerChildren, <1>a, <1>b DEF BornInv
<1>2. ASSUME NEW t \in Threads, AttachLock(t)
      PROVE  BornInv'
  <2>1. UNCHANGED <<children, frame, parent, thread>>
    BY <1>2 DEF AttachLock, sharedVars, waitVars
  <2> QED
    BY <2>1, FewerChildren, <1>a, <1>b, <1>c, <1>d DEF BornInv
<1>3. ASSUME NEW t \in Threads, AttachChild(t)
      PROVE  BornInv'
  <2>1. UNCHANGED <<frame, parent, thread>>
    BY <1>3 DEF AttachChild, sharedVars, waitVars
  <2>2. BornInv!1'
    <3> DEFINE c == arg[t]
               p == parent[c]
    <3>1. c \in Workers /\ pc[c] # "unborn"
      BY <1>3, ArgBorn DEF AttachChild, InCall
    <3>2. children' = [children EXCEPT ![p] = Append(@, c)]
      BY <1>3 DEF AttachChild
    <3> HIDE DEF c
    <3> SUFFICES ASSUME NEW w \in Workers, NEW i \in 1..Len(children'[w])
                 PROVE  pc'[children'[w][i]] # "unborn"
      OBVIOUS
    <3>3. CASE w # p \/ i <= Len(children[w])
      <4>1. i \in 1..Len(children[w]) /\ children'[w][i] = children[w][i]
        BY <3>1, <3>2, <3>3, AppendFacts
      <4>2. children[w][i] \in Workers /\ pc[children[w][i]] # "unborn"
        BY <4>1 DEF BornInv
      <4> QED
        BY <4>1, <4>2
    <3>4. CASE w = p /\ i > Len(children[w])
      <4>1. children'[w][i] = c
        BY <3>1, <3>2, <3>4, AppendFacts
      <4> QED
        BY <3>1, <4>1
    <3> QED
      BY <3>3, <3>4
  <2> QED
    BY <2>1, <2>2, <1>b, <1>c, <1>d DEF BornInv
<1>4. ASSUME NEW t \in Threads, NEW h \in Workers, NEW f \in DOMAIN Entry, Call(t, h, f)
      PROVE  BornInv'
  <2>1. UNCHANGED <<children, frame, parent, thread>>
    BY <1>4 DEF Call, sharedVars, waitVars
  <2> QED
    BY <2>1, FewerChildren, <1>a, <1>b, <1>c, <1>d DEF BornInv
<1>5. ASSUME NEW t \in Threads, NEW h \in Workers, Drop(t, h)
      PROVE  BornInv'
  <2>1. UNCHANGED <<children, frame, parent, thread>>
    BY <1>5 DEF Drop, sharedVars, waitVars
  <2> QED
    BY <2>1, FewerChildren, <1>a, <1>b, <1>c, <1>d DEF BornInv
<1>6. ASSUME NEW t \in Threads, DropCheck(t)
      PROVE  BornInv'
  <2>1. UNCHANGED <<children, frame, parent, thread>>
    BY <1>6 DEF DropCheck, sharedVars, waitVars
  <2> QED
    BY <2>1, FewerChildren, <1>a, <1>b, <1>c, <1>d DEF BornInv
<1>7. ASSUME NEW t \in Threads, DropWait(t)
      PROVE  BornInv'
  <2>1. UNCHANGED <<children, frame, parent, thread>>
    BY <1>7 DEF DropWait, sharedVars, waitVars
  <2> QED
    BY <2>1, FewerChildren, <1>a, <1>b, <1>c, <1>d DEF BornInv
<1>8. ASSUME NEW t \in Threads, NEW h \in Workers, Poll(t, h)
      PROVE  BornInv'
  <2>1. UNCHANGED <<children, frame, parent, thread>>
    BY <1>8 DEF Poll, sharedVars, waitVars
  <2> QED
    BY <2>1, FewerChildren, <1>a, <1>b, <1>c, <1>d DEF BornInv
<1>9. ASSUME NEW t \in Threads, Terminate(t)
      PROVE  BornInv'
  <2>1. UNCHANGED <<children, frame, parent, thread>>
    BY <1>9 DEF Terminate, sharedVars, waitVars
  <2> QED
    BY <2>1, FewerChildren, <1>a, <1>b, <1>c, <1>d DEF BornInv
<1>10. ASSUME NEW t \in Threads, DetachLock(t)
      PROVE  BornInv'
  <2>1. UNCHANGED <<children, frame, parent, thread>>
    BY <1>10 DEF DetachLock, sharedVars, waitVars
  <2> QED
    BY <2>1, FewerChildren, <1>a, <1>b, <1>c, <1>d DEF BornInv
<1>11. ASSUME NEW t \in Threads, DetachParent(t)
      PROVE  BornInv'
  <2>1. UNCHANGED <<frame, parent, thread>>
    BY <1>11 DEF DetachParent, sharedVars, waitVars
  <2>2. BornInv!1'
    <3>1. \/ UNCHANGED children
          \/ \E i \in DOMAIN children[parent[arg[t]]] :
               children' = [children EXCEPT ![parent[arg[t]]] = RemoveAt(@, i)]
      BY <1>11 DEF DetachParent
    <3>2. parent[arg[t]] \in Workers => DOMAIN children[parent[arg[t]]] = 1..Len(children[parent[arg[t]]])
      OBVIOUS
    <3>3. parent[arg[t]] \notin Workers => UNCHANGED children
      BY <3>1
    <3> QED
      BY <3>1, <3>2, <3>3, FewerChildren, <1>a
  <2> QED
    BY <2>1, <2>2, <1>b, <1>c, <1>d DEF BornInv
<1>12. ASSUME NEW t \in Threads, WaitLock(t)
      PROVE  BornInv'
  <2>1. UNCHANGED <<children, parent, thread>>
    BY <1>12 DEF WaitLock, OpenFrame, sharedVars, waitVars
  <2>2. BornInv!2'
    BY <1>12, WaitLockFrames, <1>b
  <2> QED
    BY <2>1, <2>2, FewerChildren, <1>a, <1>c, <1>d DEF BornInv
<1>13. ASSUME NEW t \in Threads, SignalChild(t)
      PROVE  BornInv'
  <2>1. UNCHANGED <<parent, thread>>
    BY <1>13 DEF SignalChild, sharedVars, waitVars
  <2>2. BornInv!1'
    <3> DEFINE w == Current(t)
               i == frame[w].next
    <3>1. w \in Workers
      BY <1>13, CurrentWorker DEF SignalChild
    <3>2. i \in Nat \ {0} /\ Len(children[w]) \in Nat
      BY <3>1 DEF Frames
    <3>3. /\ i <= Len(children[w])
          /\ children' = children \/ children' = [children EXCEPT ![w] = RemoveAt(@, i)]
      BY <1>13 DEF SignalChild
    <3>4. i \in 1..Len(children[w])
      BY <3>2, <3>3
    <3> HIDE DEF w, i
    <3> QED
      BY <3>3, <3>4, FewerChildren, <1>a
  <2>3. BornInv!2'
    BY <1>13, SignalChildFrames, <1>b
  <2> QED
    BY <2>1, <2>2, <2>3, <1>c, <1>d DEF BornInv
<1>14. ASSUME NEW t \in Threads, Join(t)
      PROVE  BornInv'
  <2>1. UNCHANGED <<children, parent>>
    BY <1>14 DEF Join, sharedVars, waitVars
  <2>2. BornInv!2'
    BY <1>14, JoinFrames, <1>b
  <2>3. BornInv!4'
    <3>1. \A w \in Workers : thread[w] /\ ~thread'[w] => pc[w] = "ended"
      BY <1>14 DEF Join
    <3> QED
      BY <3>1, <1>d
  <2> QED
    BY <2>1, <2>2, <2>3, FewerChildren, <1>a, <1>c DEF BornInv
<1>15. ASSUME NEW t \in Threads, WaitChild(t)
      PROVE  BornInv'
  <2>1. UNCHANGED <<parent, thread>>
    BY <1>15 DEF WaitChild, sharedVars, waitVars
  <2>2. BornInv!1'
    BY <1>15, FewerChildren, <1>a DEF WaitChild
  <2>3. BornInv!2'
    <3> DEFINE w == Current(t)
               c == Last(children[w])
    <3>1. /\ w \in Workers /\ c \in Workers
          /\ Len(children[w]) \in 1..Len(children[w]) /\ c = children[w][Len(children[w])]
          /\ \A v \in Workers : frame'[v].phase = frame[v].phase \/ v = c
      BY <1>15, WaitChildFrames
    <3> HIDE DEF w, c
    <3>2. pc[c] # "unborn"
      BY <3>1 DEF BornInv
    <3> QED
      BY <3>1, <3>2, <1>b
  <2> QED
    BY <2>1, <2>2, <2>3, <1>c, <1>d DEF BornInv
<1>16. ASSUME NEW t \in Threads, CloseFrame(t)
      PROVE  BornInv'
  <2>1. UNCHANGED <<children, parent, thread>>
    BY <1>16 DEF CloseFrame, sharedVars, waitVars
  <2>2. BornInv!2'
    BY <1>16, CloseFrameFrames, <1>b
  <2> QED
    BY <2>1, <2>2, FewerChildren, <1>a, <1>c, <1>d DEF BornInv
<1>17. ASSUME NEW w \in Workers, ObserveCancel(w)
      PROVE  BornInv'
  <2>1. UNCHANGED <<children, frame, parent, thread>>
    BY <1>17 DEF ObserveCancel, sharedVars, waitVars
  <2> QED
    BY <2>1, FewerChildren, <1>a, <1>b, <1>c, <1>d DEF BornInv
<1>18. ASSUME NEW w \in Workers, NEW o \in Outcomes, EndWork(w, o)
      PROVE  BornInv'
  <2>1. UNCHANGED <<children, frame, parent, thread>>
    BY <1>18 DEF EndWork, sharedVars, waitVars
  <2> QED
    BY <2>1, FewerChildren, <1>a, <1>b, <1>c, <1>d DEF BornInv
<1>19. ASSUME NEW w \in Workers, Retire(w)
      PROVE  BornInv'
  <2>1. UNCHANGED <<children, frame, parent, thread>>
    BY <1>19 DEF Retire, sharedVars, waitVars
  <2> QED
    BY <2>1, FewerChildren, <1>a, <1>b, <1>c, <1>d DEF BornInv
<1>20. ASSUME NEW w \in Workers, SendDone(w)
      PROVE  BornInv'
  <2>1. UNCHANGED <<children, frame, parent, thread>>
    BY <1>20 DEF SendDone, sharedVars, waitVars
  <2> QED
    BY <2>1, FewerChildren, <1>a, <1>b, <1>c, <1>d DEF BornInv
<1>21. ASSUME NEW w \in Workers, FailParent(w)
      PROVE  BornInv'
  <2>1. UNCHANGED <<children, frame, parent, thread>>
    BY <1>21 DEF FailParent, sharedVars, waitVars
  <2> QED
    BY <2>1, FewerChildren, <1>a, <1>b, <1>c, <1>d DEF BornInv
<1>22. ASSUME NEW w \in Workers, FailSibling(w)
      PROVE  BornInv'
  <2>1. UNCHANGED <<frame, parent, thread>>
    BY <1>22 DEF FailSibling, sharedVars, waitVars
  <2>2. BornInv!1'
    BY <1>22, FewerChildren, <1>a DEF FailSibling
  <2> QED
    BY <2>1, <2>2, <1>b, <1>c, <1>d DEF BornInv
<1>23. ASSUME NEW w \in Workers, FailDone(w)
      PROVE  BornInv'
  <2>1. UNCHANGED <<children, frame, parent, thread>>
    BY <1>23 DEF FailDone, sharedVars, waitVars
  <2> QED
    BY <2>1, FewerChildren, <1>a, <1>b, <1>c, <1>d DEF BornInv
<1> QED
  BY <1>1, <1>2, <1>3, <1>4, <1>5, <1>6, <1>7, <1>8, <1>9, <1>10, <1>11, <1>12, <1>13, <1>14, <1>15, <1>16, <1>17, <1>18, <1>19, <1>20, <1>21, <1>22, <1>23
     DEF Next, Proceed, Epilogue, UserCall

-----------------------------------------------------------------------------
(* Results.                                                                *)

\* A wait() frame that drains its children has joined its thread, and the state
\* it carries is Ok only if the work was; the second wait() of Drop is about a
\* worker with a result.
ResultInv ==
  /\ ResultAfterJoin
  /\ \A w \in Workers : frame[w].phase = "drain" =>
       /\ pc[w] = "ended"
       /\ frame[w].state = "Ok" => outcome[w] = "Ok"
  /\ \A t \in Threads : pc[t] = "dropWait" => result[arg[t]] # "none"

\* Every action keeps it.
LEMMA ResultStep ==
  ASSUME TypeOK, CallInv, BornInv, ResultInv, Next
  PROVE  ResultInv'
<1>0. \A w \in Workers : pc[w] = "ended" => pc'[w] = "ended"
  BY Ages
<1> USE WorkerAssumption DEF Threads
<1>1. ASSUME NEW t \in Threads, NEW p \in Workers \cup {NoOne}, NEW h \in Workers, Spawn(t, p, h)
      PROVE  ResultInv'
  BY <1>1 DEF ResultInv, ResultAfterJoin, TypeOK, ThreadTypes, WorkTypes, WaitTypes, InCall, Spawn, Free, workVars, sharedVars, waitVars
<1>2. ASSUME NEW t \in Threads, AttachLock(t)
      PROVE  ResultInv'
  BY <1>2 DEF ResultInv, ResultAfterJoin, TypeOK, ThreadTypes, WorkTypes, WaitTypes, InCall, AttachLock, workVars, sharedVars, waitVars
<1>3. ASSUME NEW t \in Threads, AttachChild(t)
      PROVE  ResultInv'
  BY <1>3 DEF ResultInv, ResultAfterJoin, TypeOK, ThreadTypes, WorkTypes, WaitTypes, InCall, AttachChild, workVars, sharedVars, waitVars
<1>4. ASSUME NEW t \in Threads, NEW h \in Workers, NEW f \in DOMAIN Entry, Call(t, h, f)
      PROVE  ResultInv'
  BY <1>4 DEF ResultInv, ResultAfterJoin, TypeOK, ThreadTypes, WorkTypes, WaitTypes, InCall, Call, Entry, Free, workVars, sharedVars, waitVars
<1>5. ASSUME NEW t \in Threads, NEW h \in Workers, Drop(t, h)
      PROVE  ResultInv'
  BY <1>5 DEF ResultInv, ResultAfterJoin, TypeOK, ThreadTypes, WorkTypes, WaitTypes, InCall, Drop, Free, workVars, sharedVars, waitVars
<1>6. ASSUME NEW t \in Threads, DropCheck(t)
      PROVE  ResultInv'
  BY <1>6 DEF ResultInv, ResultAfterJoin, TypeOK, ThreadTypes, WorkTypes, WaitTypes, InCall, DropCheck, Dropped, Home, Unwinding, workVars, sharedVars, waitVars
<1>7. ASSUME NEW t \in Threads, DropWait(t)
      PROVE  ResultInv'
  BY <1>7 DEF ResultInv, ResultAfterJoin, TypeOK, ThreadTypes, WorkTypes, WaitTypes, InCall, DropWait, Dropped, Home, Unwinding, workVars, sharedVars, waitVars
<1>8. ASSUME NEW t \in Threads, NEW h \in Workers, Poll(t, h)
      PROVE  ResultInv'
  <2>1. \A u \in Threads : pc'[u] = "dropWait" => pc[u] = "dropWait" /\ arg'[u] = arg[u]
    BY <1>8 DEF Poll, TypeOK, ThreadTypes
  <2> QED
    BY <1>8, <2>1 DEF ResultInv, ResultAfterJoin, Poll, Free, TypeOK, ThreadTypes
<1>9. ASSUME NEW t \in Threads, Terminate(t)
      PROVE  ResultInv'
  <2>1. \A u \in Threads : pc'[u] = "dropWait" => pc[u] = "dropWait" /\ arg'[u] = arg[u]
    BY <1>9 DEF Terminate, Answer, Dropped, Home, Unwinding, TypeOK, ThreadTypes
  <2>2. UNCHANGED <<outcome, waitVars>>
    BY <1>9 DEF Terminate
  <2> QED
    BY <1>0, <2>1, <2>2 DEF ResultInv, ResultAfterJoin, waitVars
<1>10. ASSUME NEW t \in Threads, DetachLock(t)
      PROVE  ResultInv'
  <2>1. \A u \in Threads : pc'[u] = "dropWait" => pc[u] = "dropWait" /\ arg'[u] = arg[u]
    BY <1>10 DEF DetachLock, TypeOK, ThreadTypes
  <2>2. \A w \in Workers : pc[w] = "ended" => pc'[w] = "ended"
    BY <1>10 DEF DetachLock, TypeOK, ThreadTypes
  <2> QED
    BY <1>10, <2>1, <2>2 DEF ResultInv, ResultAfterJoin, DetachLock, workVars, waitVars
<1>11. ASSUME NEW t \in Threads, DetachParent(t)
      PROVE  ResultInv'
  BY <1>11 DEF ResultInv, ResultAfterJoin, TypeOK, ThreadTypes, WorkTypes, WaitTypes, InCall, DetachParent, workVars, sharedVars, waitVars
<1>12. ASSUME NEW t \in Threads, WaitLock(t)
      PROVE  ResultInv'
  <2>1. \A u \in Threads : pc'[u] = "dropWait" =>
           arg'[u] = arg[u] /\ (pc[u] = "dropWait" \/ result[arg[u]] # "none")
    BY <1>12 DEF WaitLock, Answer, Dropped, Home, Unwinding, TypeOK, ThreadTypes
  <2>2. \A v \in Workers : frame'[v].phase = "drain" =>
           frame[v].phase = "drain" /\ frame'[v].state = frame[v].state
    BY <1>12, WaitLockFrames
  <2>3. UNCHANGED <<result, outcome>>
    BY <1>12 DEF WaitLock, workVars
  <2> QED
    BY <1>0, <2>1, <2>2, <2>3 DEF ResultInv, ResultAfterJoin
<1>13. ASSUME NEW t \in Threads, SignalChild(t)
      PROVE  ResultInv'
  <2>1. UNCHANGED <<pc, arg, result, outcome>>
    BY <1>13 DEF SignalChild, threadVars
  <2> QED
    BY <1>13, <2>1, SignalChildFrames DEF ResultInv, ResultAfterJoin
<1>14. ASSUME NEW t \in Threads, Join(t)
      PROVE  ResultInv'
  <2> DEFINE w == Current(t)
  <2>1. UNCHANGED <<pc, arg, result, outcome>>
    BY <1>14 DEF Join, threadVars, workVars
  <2>2. pc[w] = "ended" /\ (frame'[w].state = "Ok" => outcome[w] = "Ok")
    BY <1>14, JoinFrames DEF BornInv
  <2>3. \A v \in Workers : frame'[v].phase = "drain" => v = w \/ frame'[v] = frame[v]
    BY <1>14, JoinFrames
  <2> HIDE DEF w
  <2> QED
    BY <2>1, <2>2, <2>3 DEF ResultInv, ResultAfterJoin
<1>15. ASSUME NEW t \in Threads, WaitChild(t)
      PROVE  ResultInv'
  <2>1. UNCHANGED <<pc, arg, result, outcome>>
    BY <1>15 DEF WaitChild, threadVars, workVars
  <2>2. \A v \in Workers : frame'[v].phase = "drain" =>
          frame[v].phase = "drain" /\ (frame'[v].state = "Ok" => frame[v].state = "Ok")
    BY <1>15, WaitChildFrames
  <2> QED
    BY <2>1, <2>2 DEF ResultInv, ResultAfterJoin
<1>16. ASSUME NEW t \in Threads, CloseFrame(t)
      PROVE  ResultInv'
  <2> DEFINE w == Current(t)
             res == And(frame[w].state, frame[w].low)
             rest == Front(waiting[t])
  <2>1. /\ waiting[t] \in Seq(Workers) /\ waiting[t] # <<>> /\ waiting[t][1] = arg[t]
        /\ w \in Workers /\ w = waiting[t][Len(waiting[t])]
        /\ rest \in Seq(Workers) /\ Len(rest) = Len(waiting[t]) - 1
        /\ frame[w].phase = "drain"
        /\ \A v \in Workers :
             /\ frame'[v].phase = IF v = w THEN "idle" ELSE frame[v].phase
             /\ v # w /\ frame'[v].state = "Ok" => frame[v].state = "Ok"
    BY <1>16, CloseFrameFrames
  <2>2. res # "none" /\ (res = "Ok" => frame[w].state = "Ok")
    BY <2>1 DEF And, TypeOK, WaitTypes, Frames
  <2>3. result' = [result EXCEPT ![w] = res] /\ outcome' = outcome
    BY <1>16 DEF CloseFrame, workVars
  <2>4. ResultAfterJoin'
    <3> HIDE DEF w, res
    <3> QED
      BY <1>0, <2>1, <2>2, <2>3 DEF ResultInv, ResultAfterJoin, TypeOK, WaitTypes
  <2>5. \A v \in Workers : frame'[v].phase = "drain" =>
          pc'[v] = "ended" /\ (frame'[v].state = "Ok" => outcome'[v] = "Ok")
    <3> HIDE DEF w
    <3> QED
      BY <1>0, <2>1, <2>3 DEF ResultInv
  <2>6. ASSUME NEW u \in Threads, pc'[u] = "dropWait"
        PROVE  result'[arg'[u]] # "none"
    <3>1. CASE pc[u] = "dropWait"
      <4>1. arg'[u] = arg[u] /\ arg[u] \in Workers /\ result[arg[u]] # "none"
        BY <1>16, <3>1 DEF CloseFrame, Answer, Dropped, threadVars, ResultInv, CallInv,
           InCall, TypeOK, ThreadTypes
      <4> HIDE DEF res
      <4> QED
        BY <2>2, <2>3, <4>1 DEF TypeOK, WaitTypes
    <3>2. CASE pc[u] # "dropWait"
      <4>1. rest = <<>> /\ u = t /\ arg' = arg
        BY <1>16, <2>6, <3>2 DEF CloseFrame, Answer, Dropped, Home, Unwinding, threadVars,
           TypeOK, ThreadTypes
      <4>2. w = arg[t]
        BY <2>1, <4>1
      <4> HIDE DEF res
      <4> QED
        BY <2>1, <2>2, <2>3, <4>1, <4>2 DEF TypeOK, WaitTypes
    <3> QED
      BY <3>1, <3>2
  <2> QED
    BY <2>4, <2>5, <2>6 DEF ResultInv
<1>17. ASSUME NEW w \in Workers, ObserveCancel(w)
      PROVE  ResultInv'
  BY <1>17 DEF ResultInv, ResultAfterJoin, TypeOK, ThreadTypes, WorkTypes, WaitTypes, InCall, ObserveCancel, threadVars, workVars, sharedVars, waitVars
<1>18. ASSUME NEW w \in Workers, NEW o \in Outcomes, EndWork(w, o)
      PROVE  ResultInv'
  BY <1>18 DEF ResultInv, ResultAfterJoin, TypeOK, ThreadTypes, WorkTypes, WaitTypes, InCall, EndWork, workVars, sharedVars, waitVars
<1>19. ASSUME NEW w \in Workers, Retire(w)
      PROVE  ResultInv'
  BY <1>19 DEF ResultInv, ResultAfterJoin, TypeOK, ThreadTypes, WorkTypes, WaitTypes, InCall, Retire, workVars, sharedVars, waitVars
<1>20. ASSUME NEW w \in Workers, SendDone(w)
      PROVE  ResultInv'
  BY <1>20 DEF ResultInv, ResultAfterJoin, TypeOK, ThreadTypes, WorkTypes, WaitTypes, InCall, SendDone, workVars, sharedVars, waitVars
<1>21. ASSUME NEW w \in Workers, FailParent(w)
      PROVE  ResultInv'
  BY <1>21 DEF ResultInv, ResultAfterJoin, TypeOK, ThreadTypes, WorkTypes, WaitTypes, InCall, FailParent, Send, workVars, sharedVars, waitVars
<1>22. ASSUME NEW w \in Workers, FailSibling(w)
      PROVE  ResultInv'
  BY <1>22 DEF ResultInv, ResultAfterJoin, TypeOK, ThreadTypes, WorkTypes, WaitTypes, InCall, FailSibling, threadVars, Send, workVars, sharedVars, waitVars
<1>23. ASSUME NEW w \in Workers, FailDone(w)
      PROVE  ResultInv'
  BY <1>23 DEF ResultInv, ResultAfterJoin, TypeOK, ThreadTypes, WorkTypes, WaitTypes, InCall, FailDone, workVars, sharedVars, waitVars
<1> QED
  BY <1>1, <1>2, <1>3, <1>4, <1>5, <1>6, <1>7, <1>8, <1>9, <1>10, <1>11, <1>12, <1>13, <1>14, <1>15, <1>16, <1>17, <1>18, <1>19, <1>20, <1>21, <1>22, <1>23
     DEF Next, Proceed, Epilogue, UserCall

-----------------------------------------------------------------------------
(* The invariants hold.                                                    *)

\* The four parts of the inductive invariant hold in every state.
LEMMA Resulting == Spec => [](TypeOK /\ CallInv /\ BornInv /\ ResultInv)
<1> DEFINE I == BornInv /\ ResultInv
<1>1. Init => I
  BY WorkerAssumption DEF Init, BornInv, ResultInv, ResultAfterJoin, NoFrame, Threads
<1>2. TypeOK /\ CallInv /\ I /\ [Next]_vars => I'
  <2> SUFFICES ASSUME TypeOK, CallInv, BornInv, ResultInv, [Next]_vars
               PROVE  BornInv' /\ ResultInv'
    OBVIOUS
  <2>1. CASE Next
    BY <2>1, BornStep, ResultStep
  <2>2. CASE UNCHANGED vars
    BY <2>2 DEF vars, BornInv, ResultInv, ResultAfterJoin
  <2> QED
    BY <2>1, <2>2
<1>3. Spec => [](TypeOK /\ CallInv)
  BY Typing
<1> HIDE DEF I
<1>4. Spec => []I
  BY <1>1, <1>2, <1>3, PTL DEF Spec
<1> QED
  BY <1>3, <1>4, PTL DEF I

\* A stored result is the truth about a thread that is over, however many
\* threads, parents and calls race for it.
THEOREM ResultsAreTrue == Spec => []ResultAfterJoin
<1>1. ResultInv => ResultAfterJoin
  BY DEF ResultInv
<1> QED
  BY <1>1, Resulting, PTL

-----------------------------------------------------------------------------
(* Mutexes.                                                                *)

\* Thread t is where the code holds the mutex of w.
Holds(t, w) ==
  \/ pc[t] = "attachChild" /\ parent[arg[t]] = w
  \/ pc[t] = "detachParent" /\ arg[t] = w
  \/ pc[t] = "failDrain" /\ parent[t] = w
  \/ pc[t] = "wait" /\ \E i \in 1..Len(waiting[t]) : waiting[t][i] = w

\* A mutex is locked by exactly the threads that are where they hold it, and
\* no thread has two wait() frames on one worker.
HeldInv ==
  /\ \A w \in Workers, t \in Threads : lock[w] = t <=> Holds(t, w)
  /\ \A t \in Threads : \A i, j \in 1..Len(waiting[t]) :
       waiting[t][i] = waiting[t][j] => i = j
  /\ \A t \in Threads : pc[t] = "failDrain" => t \in Workers

\* A frame is open on a worker only while a thread that waits holds its mutex,
\* and a thread that has been joined leaves a result or a frame behind.
JoinInv ==
  /\ JoinedOnce
  /\ \A w \in Workers : ~thread[w] => \/ pc[w] = "unborn"
                                      \/ result[w] # "none"
                                      \/ frame[w].phase = "drain"
  /\ \A w \in Workers : frame[w].phase # "idle" => lock[w] # NoOne /\ pc[lock[w]] = "wait"

\* A step of thread t in which the other threads stay where they are, and t
\* holds what it locked.
LEMMA HeldMoves ==
  ASSUME HeldInv, NEW t \in Threads, UNCHANGED parent,
         \A u \in Threads \ {t} :
           pc'[u] = pc[u] /\ arg'[u] = arg[u] /\ waiting'[u] = waiting[u],
         \A w \in Workers, u \in Threads \ {t} : lock'[w] = u <=> lock[w] = u,
         \A w \in Workers : lock'[w] = t <=> Holds(t, w)',
         \A i, j \in 1..Len(waiting'[t]) : waiting'[t][i] = waiting'[t][j] => i = j,
         pc'[t] = "failDrain" => t \in Workers
  PROVE  HeldInv'
<1>1. ASSUME NEW w \in Workers, NEW u \in Threads
      PROVE  lock'[w] = u <=> Holds(u, w)'
  <2>1. CASE u = t
    BY <2>1
  <2>2. CASE u # t
    <3>1. Holds(u, w)' <=> Holds(u, w)
      BY <2>2 DEF Holds
    <3> QED
      BY <2>2, <3>1 DEF HeldInv
  <2> QED
    BY <2>1, <2>2
<1>2. ASSUME NEW u \in Threads, NEW i \in 1..Len(waiting'[u]), NEW j \in 1..Len(waiting'[u]),
             waiting'[u][i] = waiting'[u][j]
      PROVE  i = j
  BY <1>2 DEF HeldInv
<1>3. ASSUME NEW u \in Threads, pc'[u] = "failDrain"
      PROVE  u \in Workers
  BY <1>3 DEF HeldInv
<1> QED
  BY <1>1, <1>2, <1>3 DEF HeldInv

\* Where a thread is while it holds a mutex.
Holding == {"attachChild", "detachParent", "failDrain", "wait"}

LEMMA HoldsNothing ==
  ASSUME NEW t, NEW w, pc[t] \notin Holding
  PROVE  ~Holds(t, w)
BY DEF Holds, Holding

\* A step between two points at which a thread holds no mutex.
LEMMA HeldQuietly ==
  ASSUME HeldInv, NEW t \in Threads, pc[t] \notin Holding, pc'[t] \notin Holding,
         \A u \in Threads \ {t} : pc'[u] = pc[u] /\ arg'[u] = arg[u],
         UNCHANGED <<parent, lock, waiting>>
  PROVE  HeldInv'
<1>1. \A w \in Workers : ~Holds(t, w) /\ ~Holds(t, w)'
  BY DEF Holds, Holding
<1>2. \A w \in Workers : lock'[w] # t
  BY <1>1 DEF HeldInv
<1>3. \A i, j \in 1..Len(waiting'[t]) : waiting'[t][i] = waiting'[t][j] => i = j
  BY DEF HeldInv
<1> QED
  BY <1>1, <1>2, <1>3, HeldMoves DEF Holding

\* A step in which no thread goes anywhere, and no mutex changes hands.
LEMMA HeldStill ==
  ASSUME HeldInv, UNCHANGED <<pc, arg, parent, lock, waiting>>
  PROVE  HeldInv'
BY DEF HeldInv, Holds

\* Where a call returns to, no mutex is held.
LEMMA ReturnsFree ==
  ASSUME ThreadTypes, NEW t \in Threads, NEW w, Returns(t, w)
  PROVE  /\ pc'[t] \notin Holding
         /\ \A u \in Threads \ {t} : pc'[u] = pc[u] /\ arg'[u] = arg[u]
BY DEF Returns, Holding, ThreadTypes

\* A mutex that thread t alone takes, or gives back.
LEMMA LockTaken ==
  ASSUME SharedTypes, NEW t \in Threads, NEW p, lock[p] = NoOne, lock' = [lock EXCEPT ![p] = t]
  PROVE  /\ \A w \in Workers, u \in Threads \ {t} : lock'[w] = u <=> lock[w] = u
         /\ \A w \in Workers : lock'[w] = t <=> lock[w] = t \/ w = p
BY WorkerAssumption DEF SharedTypes, Threads

LEMMA LockGiven ==
  ASSUME SharedTypes, NEW t \in Threads, NEW p, \A w \in Workers : w = p => lock[w] = t,
         lock' = [lock EXCEPT ![p] = NoOne]
  PROVE  /\ \A w \in Workers, u \in Threads \ {t} : lock'[w] = u <=> lock[w] = u
         /\ \A w \in Workers : lock'[w] = t <=> lock[w] = t /\ w # p
BY WorkerAssumption DEF SharedTypes, Threads

\* Opening a wait() frame takes the mutex of its worker.
LEMMA HeldOpens ==
  ASSUME TypeOK, CallInv, HeldInv, NEW t \in Threads, NEW v \in Workers, lock[v] = NoOne,
         OpenFrame(t, v), UNCHANGED <<arg, parent>>,
         pc[t] # "wait" => pc[t] \notin Holding,
         pc' = [pc EXCEPT ![t] = "wait"]
  PROVE  HeldInv'
<1>1. /\ waiting[t] \in Seq(Workers)
      /\ waiting'[t] = Append(waiting[t], v)
      /\ \A u \in Threads \ {t} : waiting'[u] = waiting[u]
  BY DEF OpenFrame, TypeOK, WaitTypes
<1>2. pc'[t] = "wait" /\ \A u \in Threads \ {t} : pc'[u] = pc[u]
  BY DEF TypeOK, ThreadTypes
<1>3. \A w \in Workers : Holds(t, w) <=> \E i \in 1..Len(waiting[t]) : waiting[t][i] = w
  <2>1. CASE pc[t] = "wait"
    BY <2>1 DEF Holds
  <2>2. CASE pc[t] # "wait"
    <3>1. waiting[t] = <<>>
      BY <2>2 DEF CallInv
    <3> QED
      BY <2>2, <3>1, HoldsNothing
  <2> QED
    BY <2>1, <2>2
<1>4. /\ Len(waiting'[t]) = Len(waiting[t]) + 1
      /\ Len(waiting[t]) \in Nat
      /\ \A i \in 1..Len(waiting[t]) : waiting'[t][i] = waiting[t][i]
      /\ waiting'[t][Len(waiting[t]) + 1] = v
  BY <1>1, AppendFacts
<1>5. /\ \A w \in Workers, u \in Threads \ {t} : lock'[w] = u <=> lock[w] = u
      /\ \A w \in Workers : lock'[w] = t <=> lock[w] = t \/ w = v
  BY LockTaken DEF OpenFrame, TypeOK
<1>6. \A w \in Workers : Holds(t, w)' <=> Holds(t, w) \/ w = v
  <2> SUFFICES ASSUME NEW w \in Workers
               PROVE  Holds(t, w)' <=> Holds(t, w) \/ w = v
    OBVIOUS
  <2>1. Holds(t, w)' <=> \E i \in 1..Len(waiting'[t]) : waiting'[t][i] = w
    BY <1>2 DEF Holds
  <2>2. (\E i \in 1..Len(waiting'[t]) : waiting'[t][i] = w)
        <=> (\E i \in 1..Len(waiting[t]) : waiting[t][i] = w) \/ w = v
    BY <1>4
  <2> QED
    BY <1>3, <2>1, <2>2
<1>7. \A i \in 1..Len(waiting[t]) : waiting[t][i] # v
  <2>1. ~Holds(t, v)
    BY WorkerAssumption DEF HeldInv
  <2> QED
    BY <1>3, <2>1
<1>8. \A i, j \in 1..Len(waiting'[t]) : waiting'[t][i] = waiting'[t][j] => i = j
  <2>1. \A i, j \in 1..Len(waiting[t]) : waiting[t][i] = waiting[t][j] => i = j
    BY DEF HeldInv
  <2> SUFFICES ASSUME NEW i \in 1..Len(waiting'[t]), NEW j \in 1..Len(waiting'[t]),
                      waiting'[t][i] = waiting'[t][j]
               PROVE  i = j
    OBVIOUS
  <2>2. /\ i \in 1..Len(waiting[t]) \/ i = Len(waiting[t]) + 1
        /\ j \in 1..Len(waiting[t]) \/ j = Len(waiting[t]) + 1
    BY <1>4
  <2>3. CASE i \in 1..Len(waiting[t]) /\ j \in 1..Len(waiting[t])
    BY <1>4, <2>1, <2>3
  <2>4. CASE i = Len(waiting[t]) + 1 \/ j = Len(waiting[t]) + 1
    BY <1>4, <1>7, <2>2, <2>4
  <2> QED
    BY <2>2, <2>3, <2>4
<1>9. \A w \in Workers : lock[w] = t <=> Holds(t, w)
  BY DEF HeldInv
<1> QED
  BY <1>1, <1>2, <1>5, <1>6, <1>8, <1>9, HeldMoves

\* Closing a wait() frame gives the mutex of its worker back.
LEMMA HeldCloses ==
  ASSUME TypeOK, CallInv, HeldInv, NEW t \in Threads, CloseFrame(t)
  PROVE  /\ HeldInv'
         /\ \A w \in Workers : lock'[w] = t => pc'[t] = "wait"
<1> DEFINE w == Current(t)
           rest == Front(waiting[t])
<1>1. /\ waiting[t] \in Seq(Workers) /\ waiting[t] # <<>>
      /\ w \in Workers /\ w = waiting[t][Len(waiting[t])]
      /\ rest \in Seq(Workers) /\ Len(rest) = Len(waiting[t]) - 1
      /\ \A i \in 1..(Len(waiting[t]) - 1) : rest[i] = waiting[t][i]
  BY CloseFrameFrames
<1>2. /\ pc[t] = "wait" /\ lock' = [lock EXCEPT ![w] = NoOne]
      /\ waiting' = [waiting EXCEPT ![t] = rest]
      /\ UNCHANGED parent
      /\ rest # <<>> => UNCHANGED threadVars
      /\ rest = <<>> => Answer(t, w, And(frame[w].state, frame[w].low))
  BY DEF CloseFrame
<1> HIDE DEF w, rest
<1>3. waiting'[t] = rest /\ \A u \in Threads \ {t} : waiting'[u] = waiting[u]
  BY <1>2 DEF TypeOK, WaitTypes
<1>4. /\ rest # <<>> => pc'[t] = "wait"
      /\ rest = <<>> => pc'[t] \notin Holding
      /\ \A u \in Threads \ {t} : pc'[u] = pc[u] /\ arg'[u] = arg[u]
  <2>1. CASE rest = <<>>
    <3>1. Returns(t, w)
      BY <1>1, <1>2, <2>1, AnswerReturns DEF TypeOK
    <3> QED
      BY <2>1, <3>1, ReturnsFree DEF TypeOK
  <2>2. CASE rest # <<>>
    BY <1>2, <2>2 DEF threadVars
  <2> QED
    BY <2>1, <2>2
<1>5. \A i, j \in 1..Len(waiting[t]) : waiting[t][i] = waiting[t][j] => i = j
  BY DEF HeldInv
<1>6. \A v \in Workers : Holds(t, v) <=> \E i \in 1..Len(waiting[t]) : waiting[t][i] = v
  BY <1>2 DEF Holds
<1>7. \A v \in Workers : Holds(t, v)' <=> \E i \in 1..Len(rest) : rest[i] = v
  <2>1. CASE rest = <<>>
    BY <1>4, <2>1 DEF Holds, Holding
  <2>2. CASE rest # <<>>
    BY <1>3, <1>4, <2>2 DEF Holds
  <2> QED
    BY <2>1, <2>2
<1>8. \A v \in Workers : Holds(t, v)' <=> Holds(t, v) /\ v # w
  <2> SUFFICES ASSUME NEW v \in Workers
               PROVE  (\E i \in 1..Len(rest) : rest[i] = v)
                      <=> (\E i \in 1..Len(waiting[t]) : waiting[t][i] = v) /\ v # w
    BY <1>6, <1>7
  <2>1. Len(waiting[t]) \in Nat \ {0}
    BY <1>1
  <2>2. ASSUME NEW i \in 1..Len(rest)
        PROVE  i \in 1..Len(waiting[t]) /\ rest[i] = waiting[t][i] /\ waiting[t][i] # w
    <3>1. i \in 1..Len(waiting[t]) /\ rest[i] = waiting[t][i] /\ i # Len(waiting[t])
      BY <1>1, <2>1
    <3>2. Len(waiting[t]) \in 1..Len(waiting[t])
      BY <2>1
    <3> QED
      BY <1>1, <1>5, <3>1, <3>2
  <2>3. ASSUME NEW i \in 1..Len(waiting[t]), waiting[t][i] # w
        PROVE  i \in 1..Len(rest) /\ rest[i] = waiting[t][i]
    BY <1>1, <2>1, <2>3
  <2> QED
    BY <2>2, <2>3
<1>9. lock[w] = t
  <2>1. Len(waiting[t]) \in 1..Len(waiting[t])
    BY <1>1
  <2> QED
    BY <1>1, <1>6, <2>1 DEF HeldInv
<1>10. /\ \A v \in Workers, u \in Threads \ {t} : lock'[v] = u <=> lock[v] = u
       /\ \A v \in Workers : lock'[v] = t <=> lock[v] = t /\ v # w
  BY <1>2, <1>9, LockGiven DEF TypeOK
<1>11. \A v \in Workers : lock'[v] = t <=> Holds(t, v)'
  BY <1>8, <1>10 DEF HeldInv
<1>12. \A i, j \in 1..Len(waiting'[t]) : waiting'[t][i] = waiting'[t][j] => i = j
  BY <1>1, <1>3, <1>5
<1>13. HeldInv'
  BY <1>2, <1>3, <1>4, <1>10, <1>11, <1>12, HeldMoves DEF HeldInv, Holding
<1>14. \A v \in Workers : lock'[v] = t => pc'[t] = "wait"
  <2> SUFFICES ASSUME NEW v \in Workers, lock'[v] = t
               PROVE  rest # <<>>
    BY <1>4
  <2> QED
    BY <1>7, <1>11
<1> QED
  BY <1>13, <1>14

\* Every action keeps HeldInv.
LEMMA HeldStep ==
  ASSUME TypeOK, CallInv, BornInv, HeldInv, Next
  PROVE  HeldInv'
<1> USE DEF TypeOK
<1>1. ASSUME NEW t \in Threads, NEW p \in Workers \cup {NoOne}, NEW h \in Workers, Spawn(t, p, h)
      PROVE  HeldInv'
  <2>1. UNCHANGED <<lock, waiting>>
    BY <1>1 DEF Spawn
  <2>2. /\ pc[t] = "body" /\ pc[h] = "unborn"
        /\ pc'[t] \in {"body", "attachLock"} /\ pc'[h] = "body"
        /\ \A u \in Threads \ {t, h} : pc'[u] = pc[u] /\ arg'[u] = arg[u]
        /\ \A v \in Workers \ {h} : parent'[v] = parent[v]
    BY <1>1 DEF Spawn, Free, ThreadTypes, SharedTypes, Threads
  <2>3. ASSUME NEW w \in Workers, NEW u \in Threads
        PROVE  Holds(u, w)' <=> Holds(u, w)
    <3>1. CASE u \in {t, h}
      BY <2>2, <3>1 DEF Holds
    <3>2. CASE u \notin {t, h}
      <4>1. pc[u] = "attachChild" => arg[u] \in Workers \ {h}
        BY <2>2, ArgBorn DEF InCall
      <4>2. pc[u] = "failDrain" => u \in Workers \ {h}
        BY <3>2 DEF HeldInv
      <4> QED
        BY <2>1, <2>2, <3>2, <4>1, <4>2 DEF Holds
    <3> QED
      BY <3>1, <3>2
  <2>4. \A u \in Threads : pc'[u] = "failDrain" => u \in Workers
    BY <2>2 DEF HeldInv
  <2> QED
    BY <2>1, <2>3, <2>4 DEF HeldInv
<1>2. ASSUME NEW t \in Threads, AttachLock(t)
      PROVE  HeldInv'
  <2> DEFINE p == parent[arg[t]]
  <2>1. /\ lock[p] = NoOne /\ lock' = [lock EXCEPT ![p] = t]
        /\ pc[t] = "attachLock" /\ pc'[t] = "attachChild"
        /\ \A u \in Threads \ {t} : pc'[u] = pc[u]
        /\ UNCHANGED <<parent, arg, waiting>>
    BY <1>2 DEF AttachLock, ThreadTypes, waitVars
  <2>2. \A w \in Workers : ~Holds(t, w) /\ (Holds(t, w)' <=> w = p)
    BY <2>1 DEF Holds
  <2> HIDE DEF p
  <2>3. /\ \A w \in Workers, u \in Threads \ {t} : lock'[w] = u <=> lock[w] = u
        /\ \A w \in Workers : lock'[w] = t <=> lock[w] = t \/ w = p
    BY <2>1, LockTaken
  <2> QED
    BY <2>1, <2>2, <2>3, HeldMoves DEF HeldInv
<1>3. ASSUME NEW t \in Threads, AttachChild(t)
      PROVE  HeldInv'
  <2> DEFINE p == parent[arg[t]]
  <2>1. /\ lock' = [lock EXCEPT ![p] = NoOne]
        /\ pc[t] = "attachChild" /\ pc'[t] = "body"
        /\ \A u \in Threads \ {t} : pc'[u] = pc[u] /\ arg'[u] = arg[u]
        /\ UNCHANGED <<parent, waiting>>
    BY <1>3 DEF AttachChild, ThreadTypes, waitVars
  <2>2. \A w \in Workers : ~Holds(t, w)' /\ (Holds(t, w) <=> w = p)
    BY <2>1 DEF Holds
  <2> HIDE DEF p
  <2>3. /\ \A w \in Workers, u \in Threads \ {t} : lock'[w] = u <=> lock[w] = u
        /\ \A w \in Workers : lock'[w] = t <=> lock[w] = t /\ w # p
    <3>1. \A v \in Workers : v = p => lock[v] = t
      BY <2>2 DEF HeldInv
    <3> QED
      BY <2>1, <2>2, <3>1, WorkerAssumption DEF SharedTypes, Threads
  <2> QED
    BY <2>1, <2>2, <2>3, HeldMoves DEF HeldInv
<1>4. ASSUME NEW t \in Threads, NEW h \in Workers, NEW f \in DOMAIN Entry, Call(t, h, f)
      PROVE  HeldInv'
  <2>1. Entry[f] \in {"waitLock", "terminate", "detachLock"}
    BY DEF Entry
  <2> QED
    BY <1>4, <2>1, HeldQuietly DEF Call, Free, ThreadTypes, Holding, sharedVars, waitVars
<1>5. ASSUME NEW t \in Threads, NEW h \in Workers, Drop(t, h)
      PROVE  HeldInv'
  BY <1>5, HeldQuietly DEF Drop, Free, ThreadTypes, Holding, sharedVars, waitVars
<1>6. ASSUME NEW t \in Threads, DropCheck(t)
      PROVE  HeldInv'
  <2>1. pc[t] = "dropCheck" /\ UNCHANGED <<parent, lock, waiting>>
    BY <1>6 DEF DropCheck, sharedVars, waitVars
  <2>2. arg[t] \in Workers
    BY <2>1, ArgBorn DEF InCall
  <2>3. /\ pc'[t] \notin Holding
        /\ \A u \in Threads \ {t} : pc'[u] = pc[u] /\ arg'[u] = arg[u]
    <3>1. CASE Dropped(t, arg[t])
      BY <2>2, <3>1, AnswerReturns, ReturnsFree
    <3>2. CASE ~Dropped(t, arg[t])
      BY <1>6, <3>2 DEF DropCheck, ThreadTypes, Holding
    <3> QED
      BY <3>1, <3>2
  <2> QED
    BY <2>1, <2>3, HeldQuietly DEF Holding
<1>7. ASSUME NEW t \in Threads, DropWait(t)
      PROVE  HeldInv'
  <2>1. pc[t] = "dropWait" /\ Dropped(t, arg[t]) /\ UNCHANGED <<parent, lock, waiting>>
    BY <1>7 DEF DropWait, sharedVars, waitVars
  <2>2. arg[t] \in Workers
    BY <2>1, ArgBorn DEF InCall
  <2>3. /\ pc'[t] \notin Holding
        /\ \A u \in Threads \ {t} : pc'[u] = pc[u] /\ arg'[u] = arg[u]
    BY <2>1, <2>2, AnswerReturns, ReturnsFree
  <2> QED
    BY <2>1, <2>3, HeldQuietly DEF Holding
<1>8. ASSUME NEW t \in Threads, NEW h \in Workers, Poll(t, h)
      PROVE  HeldInv'
  <2>1. pc[t] = "body" /\ UNCHANGED <<parent, lock, waiting>>
    BY <1>8 DEF Poll, Free, sharedVars
  <2>2. /\ pc'[t] \in {"body", "waitLock"}
        /\ \A u \in Threads \ {t} : pc'[u] = pc[u] /\ arg'[u] = arg[u]
    BY <1>8, <2>1 DEF Poll, ThreadTypes
  <2> QED
    BY <2>1, <2>2, HeldQuietly DEF Holding
<1>9. ASSUME NEW t \in Threads, Terminate(t)
      PROVE  HeldInv'
  <2>1. pc[t] = "terminate" /\ UNCHANGED <<parent, lock, waiting>>
    BY <1>9 DEF Terminate, sharedVars, waitVars
  <2>2. arg[t] \in Workers
    BY <2>1, ArgBorn DEF InCall
  <2>3. /\ pc'[t] \notin Holding
        /\ \A u \in Threads \ {t} : pc'[u] = pc[u] /\ arg'[u] = arg[u]
    <3>1. CASE Answer(t, arg[t], "Aborted")
      BY <2>2, <3>1, AnswerReturns, ReturnsFree
    <3>2. CASE ~Answer(t, arg[t], "Aborted")
      BY <1>9, <3>2 DEF Terminate, ThreadTypes, Holding
    <3> QED
      BY <3>1, <3>2
  <2> QED
    BY <2>1, <2>3, HeldQuietly DEF Holding
<1>10. ASSUME NEW t \in Threads, DetachLock(t)
      PROVE  HeldInv'
  <2> DEFINE h == arg[t]
  <2>1. /\ pc[t] = "detachLock" /\ lock[h] = NoOne /\ UNCHANGED <<parent, waiting>>
        /\ \A u \in Threads \ {t} : pc'[u] = pc[u] /\ arg'[u] = arg[u]
    BY <1>10 DEF DetachLock, ThreadTypes, waitVars
  <2>2. CASE parent[h] = NoOne
    <3>1. pc'[t] = "body" /\ UNCHANGED lock
      BY <1>10, <2>2 DEF DetachLock, ThreadTypes
    <3> QED
      BY <2>1, <3>1, HeldQuietly DEF Holding
  <2>3. CASE parent[h] # NoOne
    <3>1. pc'[t] = "detachParent" /\ lock' = [lock EXCEPT ![h] = t] /\ UNCHANGED arg
      BY <1>10, <2>3 DEF DetachLock, ThreadTypes
    <3>2. \A w \in Workers : ~Holds(t, w) /\ (Holds(t, w)' <=> w = h)
      BY <2>1, <3>1 DEF Holds
    <3> HIDE DEF h
    <3>3. /\ \A w \in Workers, u \in Threads \ {t} : lock'[w] = u <=> lock[w] = u
          /\ \A w \in Workers : lock'[w] = t <=> lock[w] = t \/ w = h
      BY <2>1, <3>1, LockTaken
    <3>4. \A w \in Workers : lock'[w] = t <=> Holds(t, w)'
      BY <3>2, <3>3 DEF HeldInv
    <3>5. \A i, j \in 1..Len(waiting'[t]) : waiting'[t][i] = waiting'[t][j] => i = j
      BY <2>1 DEF HeldInv
    <3> QED
      BY <2>1, <3>1, <3>3, <3>4, <3>5, HeldMoves
  <2> QED
    BY <2>2, <2>3
<1>11. ASSUME NEW t \in Threads, DetachParent(t)
      PROVE  HeldInv'
  <2> DEFINE h == arg[t]
  <2>1. /\ lock' = [lock EXCEPT ![h] = NoOne]
        /\ pc[t] = "detachParent" /\ pc'[t] = "body"
        /\ \A u \in Threads \ {t} : pc'[u] = pc[u] /\ arg'[u] = arg[u]
        /\ UNCHANGED <<parent, waiting>>
    BY <1>11 DEF DetachParent, ThreadTypes, waitVars
  <2>2. \A w \in Workers : ~Holds(t, w)' /\ (Holds(t, w) <=> w = h)
    BY <2>1 DEF Holds
  <2> HIDE DEF h
  <2>3. /\ \A w \in Workers, u \in Threads \ {t} : lock'[w] = u <=> lock[w] = u
        /\ \A w \in Workers : lock'[w] = t <=> lock[w] = t /\ w # h
    <3>1. \A v \in Workers : v = h => lock[v] = t
      BY <2>2 DEF HeldInv
    <3> QED
      BY <2>1, <2>2, <3>1, WorkerAssumption DEF SharedTypes, Threads
  <2> QED
    BY <2>1, <2>2, <2>3, HeldMoves DEF HeldInv
<1>12. ASSUME NEW t \in Threads, WaitLock(t)
      PROVE  HeldInv'
  <2>1. pc[t] = "waitLock" /\ lock[arg[t]] = NoOne /\ UNCHANGED parent
    BY <1>12 DEF WaitLock
  <2>2. arg[t] \in Workers
    BY <2>1, ArgBorn DEF InCall
  <2>3. CASE result[arg[t]] # "none"
    <3>1. Answer(t, arg[t], result[arg[t]]) /\ UNCHANGED <<lock, waiting>>
      BY <1>12, <2>3 DEF WaitLock
    <3>2. /\ pc'[t] \notin Holding
          /\ \A u \in Threads \ {t} : pc'[u] = pc[u] /\ arg'[u] = arg[u]
      BY <2>2, <3>1, AnswerReturns, ReturnsFree
    <3> QED
      BY <2>1, <3>1, <3>2, HeldQuietly DEF Holding
  <2>4. CASE result[arg[t]] = "none"
    <3>1. OpenFrame(t, arg[t]) /\ pc' = [pc EXCEPT ![t] = "wait"] /\ UNCHANGED arg
      BY <1>12, <2>4 DEF WaitLock
    <3> QED
      BY <2>1, <2>2, <3>1, HeldOpens DEF Holding
  <2> QED
    BY <2>3, <2>4
<1>13. ASSUME NEW t \in Threads, SignalChild(t)
      PROVE  HeldInv'
  BY <1>13, HeldStill DEF SignalChild, threadVars
<1>14. ASSUME NEW t \in Threads, Join(t)
      PROVE  HeldInv'
  BY <1>14, HeldStill DEF Join, threadVars, sharedVars
<1>15. ASSUME NEW t \in Threads, WaitChild(t)
      PROVE  HeldInv'
  <2> DEFINE c == Last(children[Current(t)])
  <2>1. c \in Workers /\ lock[c] = NoOne
    BY <1>15, WaitChildFrames
  <2>2. pc[t] = "wait" /\ UNCHANGED <<pc, arg, parent>>
    BY <1>15 DEF WaitChild, threadVars
  <2>3. CASE result[c] # "none"
    <3>1. UNCHANGED <<lock, waiting>>
      BY <1>15, <2>3 DEF WaitChild
    <3> QED
      BY <2>2, <3>1, HeldStill
  <2>4. CASE result[c] = "none"
    <3>1. OpenFrame(t, c)
      BY <1>15, <2>4 DEF WaitChild
    <3>2. pc' = [pc EXCEPT ![t] = "wait"]
      BY <2>2 DEF ThreadTypes
    <3> HIDE DEF c
    <3> QED
      BY <2>1, <2>2, <3>1, <3>2, HeldOpens
  <2> QED
    BY <2>3, <2>4
<1>16. ASSUME NEW t \in Threads, CloseFrame(t)
      PROVE  HeldInv'
  BY <1>16, HeldCloses
<1>17. ASSUME NEW w \in Workers, ObserveCancel(w)
      PROVE  HeldInv'
  BY <1>17, HeldStill DEF ObserveCancel, threadVars, sharedVars, waitVars
<1>18. ASSUME NEW w \in Workers, NEW o \in Outcomes, EndWork(w, o)
      PROVE  HeldInv'
  BY <1>18, HeldQuietly DEF EndWork, ThreadTypes, Threads, Holding, sharedVars, waitVars
<1>19. ASSUME NEW w \in Workers, Retire(w)
      PROVE  HeldInv'
  BY <1>19, HeldQuietly DEF Retire, ThreadTypes, Threads, Holding, sharedVars, waitVars
<1>20. ASSUME NEW w \in Workers, SendDone(w)
      PROVE  HeldInv'
  <2>1. pc'[w] \in {"failLock", "ended"}
    BY <1>20 DEF SendDone, ThreadTypes, Threads
  <2> QED
    BY <1>20, <2>1, HeldQuietly DEF SendDone, ThreadTypes, Threads, Holding, sharedVars, waitVars
<1>21. ASSUME NEW w \in Workers, FailParent(w)
      PROVE  HeldInv'
  <2> DEFINE p == parent[w]
  <2>1. /\ lock[p] = NoOne /\ lock' = [lock EXCEPT ![p] = w]
        /\ pc[w] = "failLock" /\ pc'[w] = "failDrain"
        /\ \A u \in Threads \ {w} : pc'[u] = pc[u]
        /\ UNCHANGED <<parent, arg, waiting>>
    BY <1>21 DEF FailParent, ThreadTypes, Threads, waitVars
  <2>2. w \in Threads /\ \A v \in Workers : ~Holds(w, v) /\ (Holds(w, v)' <=> v = p)
    BY <2>1 DEF Holds, Threads
  <2> HIDE DEF p
  <2>3. /\ \A v \in Workers, u \in Threads \ {w} : lock'[v] = u <=> lock[v] = u
        /\ \A v \in Workers : lock'[v] = w <=> lock[v] = w \/ v = p
    BY <2>1, <2>2, LockTaken
  <2> QED
    BY <2>1, <2>2, <2>3, HeldMoves DEF HeldInv
<1>22. ASSUME NEW w \in Workers, FailSibling(w)
      PROVE  HeldInv'
  BY <1>22, HeldStill DEF FailSibling, threadVars, waitVars
<1>23. ASSUME NEW w \in Workers, FailDone(w)
      PROVE  HeldInv'
  <2> DEFINE p == parent[w]
  <2>1. /\ lock' = [lock EXCEPT ![p] = NoOne]
        /\ pc[w] = "failDrain" /\ pc'[w] = "ended"
        /\ \A u \in Threads \ {w} : pc'[u] = pc[u]
        /\ UNCHANGED <<parent, arg, waiting>>
    BY <1>23 DEF FailDone, ThreadTypes, Threads, waitVars
  <2>2. w \in Threads /\ \A v \in Workers : ~Holds(w, v)' /\ (Holds(w, v) <=> v = p)
    BY <2>1 DEF Holds, Threads
  <2> HIDE DEF p
  <2>3. /\ \A v \in Workers, u \in Threads \ {w} : lock'[v] = u <=> lock[v] = u
        /\ \A v \in Workers : lock'[v] = w <=> lock[v] = w /\ v # p
    <3>1. \A v \in Workers : v = p => lock[v] = w
      BY <2>2 DEF HeldInv
    <3> QED
      BY <2>1, <2>2, <3>1, WorkerAssumption DEF SharedTypes, Threads
  <2> QED
    BY <2>1, <2>2, <2>3, HeldMoves DEF HeldInv
<1> QED
  BY <1>1, <1>2, <1>3, <1>4, <1>5, <1>6, <1>7, <1>8, <1>9, <1>10, <1>11, <1>12, <1>13, <1>14, <1>15, <1>16, <1>17, <1>18, <1>19, <1>20, <1>21, <1>22, <1>23
     DEF Next, Proceed, Epilogue, UserCall

\* A step that opens and closes no frame, and interrupts no thread that waits.
LEMMA JoinKeeps ==
  ASSUME TypeOK, CallInv, JoinInv, Next,
         \A w \in Workers : /\ frame'[w].phase = frame[w].phase
                            /\ result'[w] = result[w]
                            /\ thread[w] => thread'[w],
         \A u \in Threads : pc[u] = "wait" => pc'[u] = "wait",
         \A w \in Workers : \/ lock'[w] = lock[w]
                            \/ lock[w] = NoOne
                            \/ pc[lock[w]] # "wait"
  PROVE  JoinInv'
<1>1. JoinInv!1'
  BY DEF JoinInv, JoinedOnce
<1>2. JoinInv!2'
  BY Ages DEF JoinInv
<1>3. JoinInv!3'
  <2> SUFFICES ASSUME NEW w \in Workers, frame'[w].phase # "idle"
               PROVE  lock'[w] # NoOne /\ pc'[lock'[w]] = "wait"
    OBVIOUS
  <2>1. lock[w] # NoOne /\ pc[lock[w]] = "wait"
    BY DEF JoinInv
  <2>2. lock'[w] = lock[w] /\ lock[w] \in Threads
    BY <2>1 DEF TypeOK, SharedTypes
  <2> QED
    BY <2>1, <2>2
<1> QED
  BY <1>1, <1>2, <1>3 DEF JoinInv

\* A frame is opened on a worker whose thread is still there to be joined.
LEMMA JoinOpens ==
  ASSUME TypeOK, CallInv, JoinInv, Next, NEW t \in Threads, NEW v \in Workers,
         pc[v] # "unborn", lock[v] = NoOne, result[v] = "none", OpenFrame(t, v),
         UNCHANGED <<result, thread>>, pc' = [pc EXCEPT ![t] = "wait"]
  PROVE  JoinInv'
<1>1. frame[v].phase = "idle" /\ thread[v]
  BY DEF JoinInv, TypeOK, WaitTypes
<1>2. \A w \in Workers : frame'[w].phase = IF w = v THEN "signal" ELSE frame[w].phase
  BY DEF OpenFrame, TypeOK, WaitTypes, Frames
<1>3. \A w \in Workers : lock'[w] = IF w = v THEN t ELSE lock[w]
  BY DEF OpenFrame, TypeOK, SharedTypes
<1>4. pc'[t] = "wait" /\ \A u \in Threads : pc[u] = "wait" => pc'[u] = "wait"
  BY DEF TypeOK, ThreadTypes
<1>5. JoinInv!1'
  BY <1>1, <1>2 DEF JoinInv, JoinedOnce
<1>6. JoinInv!2'
  BY <1>1, <1>2, Ages DEF JoinInv
<1>7. JoinInv!3'
  <2>1. t # NoOne
    BY WorkerAssumption
  <2> QED
    BY <1>2, <1>3, <1>4, <2>1 DEF JoinInv, TypeOK, SharedTypes
<1> QED
  BY <1>5, <1>6, <1>7 DEF JoinInv

\* Every action keeps JoinInv.
LEMMA JoinStep ==
  ASSUME TypeOK, CallInv, BornInv, HeldInv, JoinInv, Next
  PROVE  JoinInv'
<1> USE DEF TypeOK
<1>0. ASSUME NEW t \in Threads, pc[t] # "wait", \A u \in Threads \ {t} : pc'[u] = pc[u],
             UNCHANGED <<frame, result, thread>>,
             \A w \in Workers : lock'[w] = lock[w] \/ lock[w] \in {NoOne, t}
      PROVE  JoinInv'
  <2>1. \A u \in Threads : pc[u] = "wait" => pc'[u] = "wait"
    BY <1>0
  <2>2. \A w \in Workers : lock'[w] = lock[w] \/ lock[w] = NoOne \/ pc[lock[w]] # "wait"
    BY <1>0
  <2> QED
    BY <1>0, <2>1, <2>2, JoinKeeps
<1>1. ASSUME NEW t \in Threads, NEW p \in Workers \cup {NoOne}, NEW h \in Workers, Spawn(t, p, h)
      PROVE  JoinInv'
  <2>1. UNCHANGED <<frame, result, lock>> /\ \A w \in Workers : thread[w] => thread'[w]
    BY <1>1 DEF Spawn, WaitTypes
  <2>2. \A u \in Threads : pc[u] = "wait" => pc'[u] = "wait"
    BY <1>1 DEF Spawn, Free, ThreadTypes
  <2> QED
    BY <2>1, <2>2, JoinKeeps
<1>2. ASSUME NEW t \in Threads, AttachLock(t)
      PROVE  JoinInv'
  BY <1>0, <1>2 DEF AttachLock, ThreadTypes, SharedTypes, waitVars
<1>3. ASSUME NEW t \in Threads, AttachChild(t)
      PROVE  JoinInv'
  <2>1. \A w \in Workers : lock'[w] = lock[w] \/ lock[w] = t
    BY <1>3 DEF AttachChild, SharedTypes, HeldInv, Holds
  <2> QED
    BY <1>0, <1>3, <2>1 DEF AttachChild, ThreadTypes, waitVars
<1>4. ASSUME NEW t \in Threads, NEW h \in Workers, NEW f \in DOMAIN Entry, Call(t, h, f)
      PROVE  JoinInv'
  BY <1>0, <1>4 DEF Call, Free, ThreadTypes, sharedVars, waitVars
<1>5. ASSUME NEW t \in Threads, NEW h \in Workers, Drop(t, h)
      PROVE  JoinInv'
  BY <1>0, <1>5 DEF Drop, Free, ThreadTypes, sharedVars, waitVars
<1>6. ASSUME NEW t \in Threads, DropCheck(t)
      PROVE  JoinInv'
  <2>1. \A u \in Threads \ {t} : pc'[u] = pc[u]
    BY <1>6 DEF DropCheck, Dropped, ThreadTypes
  <2> QED
    BY <1>0, <1>6, <2>1 DEF DropCheck, sharedVars, waitVars
<1>7. ASSUME NEW t \in Threads, DropWait(t)
      PROVE  JoinInv'
  BY <1>0, <1>7 DEF DropWait, Dropped, ThreadTypes, sharedVars, waitVars
<1>8. ASSUME NEW t \in Threads, NEW h \in Workers, Poll(t, h)
      PROVE  JoinInv'
  <2>1. \A u \in Threads \ {t} : pc'[u] = pc[u]
    BY <1>8 DEF Poll, ThreadTypes
  <2> QED
    BY <1>0, <1>8, <2>1 DEF Poll, Free, sharedVars
<1>9. ASSUME NEW t \in Threads, Terminate(t)
      PROVE  JoinInv'
  <2>1. \A u \in Threads \ {t} : pc'[u] = pc[u]
    BY <1>9 DEF Terminate, Answer, Dropped, ThreadTypes
  <2> QED
    BY <1>0, <1>9, <2>1 DEF Terminate, sharedVars, waitVars
<1>10. ASSUME NEW t \in Threads, DetachLock(t)
      PROVE  JoinInv'
  <2>1. \A u \in Threads \ {t} : pc'[u] = pc[u]
    BY <1>10 DEF DetachLock, ThreadTypes
  <2>2. \A w \in Workers : lock'[w] = lock[w] \/ lock[w] = NoOne
    BY <1>10 DEF DetachLock, SharedTypes
  <2> QED
    BY <1>0, <1>10, <2>1, <2>2 DEF DetachLock, waitVars
<1>11. ASSUME NEW t \in Threads, DetachParent(t)
      PROVE  JoinInv'
  <2>1. \A w \in Workers : lock'[w] = lock[w] \/ lock[w] = t
    BY <1>11 DEF DetachParent, SharedTypes, HeldInv, Holds
  <2>2. \A u \in Threads \ {t} : pc'[u] = pc[u]
    BY <1>11 DEF DetachParent, ThreadTypes
  <2> QED
    BY <1>0, <1>11, <2>1, <2>2 DEF DetachParent, waitVars
<1>12. ASSUME NEW t \in Threads, WaitLock(t)
      PROVE  JoinInv'
  <2>1. pc[t] = "waitLock" /\ lock[arg[t]] = NoOne /\ UNCHANGED <<result, thread>>
    BY <1>12 DEF WaitLock
  <2>2. CASE result[arg[t]] # "none"
    <3>1. Answer(t, arg[t], result[arg[t]]) /\ UNCHANGED <<lock, frame>>
      BY <1>12, <2>2 DEF WaitLock
    <3>2. \A u \in Threads \ {t} : pc'[u] = pc[u]
      BY <3>1 DEF Answer, Dropped, ThreadTypes
    <3> QED
      BY <1>0, <2>1, <3>1, <3>2
  <2>3. CASE result[arg[t]] = "none"
    <3>1. OpenFrame(t, arg[t]) /\ pc' = [pc EXCEPT ![t] = "wait"]
      BY <1>12, <2>3 DEF WaitLock
    <3>2. arg[t] \in Workers /\ pc[arg[t]] # "unborn"
      BY <2>1, ArgBorn DEF InCall
    <3> QED
      BY <2>1, <2>3, <3>1, <3>2, JoinOpens
  <2> QED
    BY <2>2, <2>3
<1>13. ASSUME NEW t \in Threads, SignalChild(t)
      PROVE  JoinInv'
  <2>1. UNCHANGED <<pc, lock, thread, result>>
    BY <1>13 DEF SignalChild, threadVars
  <2> QED
    BY <1>13, <2>1, SignalChildFrames, JoinKeeps
<1>14. ASSUME NEW t \in Threads, Join(t)
      PROVE  JoinInv'
  <2> DEFINE w == Current(t)
  <2>1. /\ UNCHANGED <<pc, lock, result>>
        /\ thread' = [thread EXCEPT ![w] = FALSE]
    BY <1>14 DEF Join, threadVars, sharedVars
  <2>2. /\ w \in Workers /\ frame[w].phase = "signal"
        /\ \A v \in Workers : frame'[v].phase = IF v = w THEN "drain" ELSE frame[v].phase
    BY <1>14, JoinFrames
  <2> HIDE DEF w
  <2>3. JoinInv!1'
    BY <2>1, <2>2 DEF JoinInv, JoinedOnce, WaitTypes
  <2>4. JoinInv!2'
    BY <2>1, <2>2 DEF JoinInv, WaitTypes
  <2>5. JoinInv!3'
    BY <2>1, <2>2 DEF JoinInv
  <2> QED
    BY <2>3, <2>4, <2>5 DEF JoinInv
<1>15. ASSUME NEW t \in Threads, WaitChild(t)
      PROVE  JoinInv'
  <2> DEFINE w == Current(t)
             c == Last(children[w])
  <2>1. /\ c \in Workers /\ lock[c] = NoOne /\ w \in Workers
        /\ Len(children[w]) \in 1..Len(children[w]) /\ c = children[w][Len(children[w])]
        /\ \A v \in Workers : frame'[v].phase = frame[v].phase \/ result[c] = "none"
    BY <1>15, WaitChildFrames
  <2>2. pc[t] = "wait" /\ UNCHANGED <<pc, result, thread>>
    BY <1>15 DEF WaitChild, threadVars
  <2>3. CASE result[c] # "none"
    <3>1. UNCHANGED lock
      BY <1>15, <2>3 DEF WaitChild
    <3> QED
      BY <2>1, <2>2, <2>3, <3>1, JoinKeeps
  <2>4. CASE result[c] = "none"
    <3>1. OpenFrame(t, c)
      BY <1>15, <2>4 DEF WaitChild
    <3>2. pc' = [pc EXCEPT ![t] = "wait"]
      BY <2>2 DEF ThreadTypes
    <3> HIDE DEF c, w
    <3>3. pc[c] # "unborn"
      BY <2>1 DEF BornInv
    <3> QED
      BY <2>1, <2>2, <2>4, <3>1, <3>2, <3>3, JoinOpens
  <2> QED
    BY <2>3, <2>4
<1>16. ASSUME NEW t \in Threads, CloseFrame(t)
      PROVE  JoinInv'
  <2> DEFINE w == Current(t)
             res == And(frame[w].state, frame[w].low)
  <2>1. /\ w \in Workers
        /\ \A v \in Workers : frame'[v].phase = IF v = w THEN "idle" ELSE frame[v].phase
    BY <1>16, CloseFrameFrames
  <2>2. /\ result' = [result EXCEPT ![w] = res] /\ UNCHANGED thread
        /\ lock' = [lock EXCEPT ![w] = NoOne]
    BY <1>16 DEF CloseFrame
  <2>3. res # "none"
    BY <2>1 DEF And, WaitTypes, Frames
  <2>4. \A v \in Workers : lock'[v] = t => pc'[t] = "wait"
    BY <1>16, HeldCloses
  <2>5. \A u \in Threads \ {t} : pc'[u] = pc[u]
    BY <1>16 DEF CloseFrame, Answer, Dropped, ThreadTypes, threadVars
  <2> HIDE DEF w, res
  <2>6. JoinInv!1'
    BY <2>1, <2>2 DEF JoinInv, JoinedOnce
  <2>7. JoinInv!2'
    BY <2>1, <2>2, <2>3, Ages DEF JoinInv, WaitTypes
  <2>8. JoinInv!3'
    <3> SUFFICES ASSUME NEW v \in Workers, frame'[v].phase # "idle"
                 PROVE  lock'[v] # NoOne /\ pc'[lock'[v]] = "wait"
      OBVIOUS
    <3>1. v # w /\ lock'[v] = lock[v] /\ lock[v] # NoOne /\ pc[lock[v]] = "wait"
      BY <2>1, <2>2 DEF JoinInv, SharedTypes
    <3> QED
      BY <2>4, <2>5, <3>1 DEF SharedTypes
  <2> QED
    BY <2>6, <2>7, <2>8 DEF JoinInv
<1>17. ASSUME NEW w \in Workers, ObserveCancel(w)
      PROVE  JoinInv'
  BY <1>17, JoinKeeps DEF ObserveCancel, threadVars, sharedVars, waitVars
<1>18. ASSUME NEW w \in Workers, NEW o \in Outcomes, EndWork(w, o)
      PROVE  JoinInv'
  BY <1>0, <1>18 DEF EndWork, ThreadTypes, Threads, sharedVars, waitVars
<1>19. ASSUME NEW w \in Workers, Retire(w)
      PROVE  JoinInv'
  BY <1>0, <1>19 DEF Retire, ThreadTypes, Threads, sharedVars, waitVars
<1>20. ASSUME NEW w \in Workers, SendDone(w)
      PROVE  JoinInv'
  BY <1>0, <1>20 DEF SendDone, ThreadTypes, Threads, sharedVars, waitVars
<1>21. ASSUME NEW w \in Workers, FailParent(w)
      PROVE  JoinInv'
  BY <1>0, <1>21 DEF FailParent, ThreadTypes, SharedTypes, Threads, waitVars
<1>22. ASSUME NEW w \in Workers, FailSibling(w)
      PROVE  JoinInv'
  BY <1>22, JoinKeeps DEF FailSibling, threadVars, waitVars
<1>23. ASSUME NEW w \in Workers, FailDone(w)
      PROVE  JoinInv'
  <2>1. \A v \in Workers : lock'[v] = lock[v] \/ lock[v] = w
    BY <1>23 DEF FailDone, SharedTypes, HeldInv, Holds, Threads
  <2> QED
    BY <1>0, <1>23, <2>1 DEF FailDone, ThreadTypes, Threads, waitVars
<1> QED
  BY <1>1, <1>2, <1>3, <1>4, <1>5, <1>6, <1>7, <1>8, <1>9, <1>10, <1>11, <1>12, <1>13, <1>14, <1>15, <1>16, <1>17, <1>18, <1>19, <1>20, <1>21, <1>22, <1>23
     DEF Next, Proceed, Epilogue, UserCall

\* Who holds which mutex, and what is left to join, in every state.
LEMMA Locking == Spec => [](HeldInv /\ JoinInv)
<1> DEFINE I == HeldInv /\ JoinInv
           J == TypeOK /\ CallInv /\ BornInv /\ ResultInv
<1>1. Init => I
  BY WorkerAssumption DEF Init, HeldInv, JoinInv, JoinedOnce, Holds, NoFrame, Threads
<1>2. J /\ I /\ [Next]_vars => I'
  <2> SUFFICES ASSUME J, HeldInv, JoinInv, [Next]_vars
               PROVE  HeldInv' /\ JoinInv'
    OBVIOUS
  <2>1. CASE Next
    BY <2>1, HeldStep, JoinStep
  <2>2. CASE UNCHANGED vars
    BY <2>2 DEF vars, HeldInv, JoinInv, JoinedOnce, Holds
  <2> QED
    BY <2>1, <2>2
<1>3. Spec => []J
  BY Resulting
<1> HIDE DEF I, J
<1>4. Spec => []I
  BY <1>1, <1>2, <1>3, PTL DEF Spec
<1> QED
  BY <1>4, PTL DEF I

\* wait() never finds a thread that somebody else has joined: concurrent and
\* repeated waits get the handle to join or the result of who did.
THEOREM JoinsOnce == Spec => []JoinedOnce
<1>1. JoinInv => JoinedOnce
  BY DEF JoinInv
<1> QED
  BY <1>1, Locking, PTL

=============================================================================
