-------------------------------- MODULE Handler -------------------------------
(***************************************************************************)
(* One HTTP request (src/service.rs), as a program over the worker crate.  *)
(* The handler, a thread of hyper, subscribes to the monitor, spawns a      *)
(* receiver worker which spawns a keepalive worker linked to it, and writes *)
(* what the two send through a rendezvous channel to the client.  It ends   *)
(* when a write fails; its locals are dropped in reverse order, the Worker  *)
(* of the receiver before the receiving end of the channel.                 *)
(*                                                                         *)
(* The handler is Worker's Main.  pc[t] = "body" says that t runs this       *)
(* code, at[t] where; every other pc is inside the crate.                   *)
(*                                                                         *)
(* The listener's queue never disconnects: its sender is in the collection  *)
(* that Receiver itself keeps alive (system_monitor.rs:38-42), so recv()    *)
(* in the receiver worker has no error.                                    *)
(***************************************************************************)
EXTENDS Worker

CONSTANTS
  Receiver,   \* the worker that receives updates from the monitor
  Keepalive,  \* the worker that wakes every 10 seconds
  QueueCap,   \* the listener's queue: 10 in the code
  MaxUpdates  \* bound: how many updates the monitor queues

ASSUME HandlerAssumption ==
  /\ Receiver # Keepalive
  /\ Workers = {Receiver, Keepalive}
  /\ Spawns = {<<Main, NoOne, Receiver>>, <<Receiver, Receiver, Keepalive>>}
  /\ Outcomes = {"Err"}
  /\ QueueCap \in Nat \ {0}
  /\ MaxUpdates \in Nat \ {0}

VARIABLES
  at,         \* where the code of each thread is
  queued,     \* how many updates the listener's queue has ever got
  queue,      \* the listener's queue: updates are numbered as they come
  holds,      \* the update a thread has in its hands, 0 if none
  offers,     \* the threads blocked in send on the rendezvous channel, in order
  peer,       \* the client is connected
  stream      \* the updates the client has got

programVars == <<at, queued, queue, holds, offers, peer, stream>>
handlerVars == <<vars, programVars>>

HandlerInit ==
  /\ Init
  /\ at = [t \in Threads |-> IF t = Main THEN "subscribe"
                           ELSE IF t = Receiver THEN "spawn" ELSE "sleep"]
  /\ queued = 0
  /\ queue = <<>>
  /\ holds = [t \in Threads |-> 0]
  /\ offers = <<>>
  /\ peer = TRUE
  /\ stream = <<>>

-----------------------------------------------------------------------------
\* Thread t runs this code, at l.
At(t, l) == pc[t] = "body" /\ at[t] = l

Goto(t, l) == at' = [at EXCEPT ![t] = l]

\* t goes from l to m; nothing else of the program changes.
Transition(t, l, m) ==
  /\ At(t, l)
  /\ Goto(t, m)
  /\ UNCHANGED <<queued, queue, holds, offers, peer, stream>>

\* The listener is in the monitor's collection: its Receiver is owned by the
\* handler at first, then by the closure of the receiver worker.
Listening ==
  \/ at[Main] = "start"
  \/ Receiving(Receiver)

-----------------------------------------------------------------------------
(* The monitor and the client.                                             *)

\* try_send of the monitor's run_loop; what a full queue drops was never here.
Publish ==
  /\ Listening
  /\ queued < MaxUpdates
  /\ Len(queue) < QueueCap
  /\ queued' = queued + 1
  /\ queue' = Append(queue, queued + 1)
  /\ UNCHANGED <<vars, at, holds, offers, peer, stream>>

Disconnect ==
  /\ peer
  /\ peer' = FALSE
  /\ UNCHANGED <<vars, at, queued, queue, holds, offers, stream>>

-----------------------------------------------------------------------------
(* The handler.                                                            *)

\* monitor.lock() and subscribe(), which may fail
Subscribe ==
  /\ \E next \in {"start", "report"} : Transition(Main, "subscribe", next)
  /\ UNCHANGED vars

\* spawn_anon of the receiver worker; if it fails the closure goes, and the
\* listener with it.
Start ==
  \/ /\ Transition(Main, "start", "recv")
     /\ Spawn(Main, NoOne, Receiver)
  \/ /\ Transition(Main, "start", "report")
     /\ UNCHANGED vars

\* Mutant of Take: the keepalive worker ends after its first message.
TakeOnce ==
  LET t == Head(offers) IN
  /\ At(Main, "recv")
  /\ offers # <<>>
  /\ offers' = Tail(offers)
  /\ at' = [at EXCEPT ![Main] = IF t = Receiver THEN "emit" ELSE "keepalive",
                      ![t] = IF t = Receiver THEN "recv" ELSE "quiet"]
  /\ holds' = [holds EXCEPT ![Main] = holds[t], ![t] = 0]
  /\ UNCHANGED <<vars, queued, queue, peer, stream>>

\* combined_data.recv() takes what the first thread in line offers: None of the
\* keepalive worker, or an update.
Take ==
  LET t == Head(offers) IN
  /\ At(Main, "recv")
  /\ offers # <<>>
  /\ offers' = Tail(offers)
  /\ at' = [at EXCEPT ![Main] = IF t = Receiver THEN "emit" ELSE "keepalive",
                      ![t] = IF t = Receiver THEN "recv" ELSE "sleep"]
  /\ holds' = [holds EXCEPT ![Main] = holds[t], ![t] = 0]
  /\ UNCHANGED <<vars, queued, queue, peer, stream>>

\* combined_data.recv() fails: both senders are gone.
HangUp ==
  /\ \A w \in Workers : ~Receiving(w)
  /\ offers = <<>>
  /\ Transition(Main, "recv", "drop")
  /\ UNCHANGED vars

\* emit_json and end_msg, or keepalive: the client gets the whole message.
Write ==
  /\ peer
  /\ At(Main, "emit") \/ At(Main, "keepalive")
  /\ Goto(Main, "recv")
  /\ stream' = IF at[Main] = "emit" THEN Append(stream, holds[Main]) ELSE stream
  /\ holds' = [holds EXCEPT ![Main] = 0]
  /\ UNCHANGED <<vars, queued, queue, offers, peer>>

\* A client that is gone: the write is buffered, or fails.
WriteLost ==
  /\ ~peer
  /\ At(Main, "emit") \/ At(Main, "keepalive")
  /\ Goto(Main, "recv")
  /\ holds' = [holds EXCEPT ![Main] = 0]
  /\ UNCHANGED <<vars, queued, queue, offers, peer, stream>>

WriteFails ==
  /\ ~peer
  /\ At(Main, "emit") \/ At(Main, "keepalive")
  /\ Goto(Main, "drop")
  /\ UNCHANGED <<vars, queued, queue, holds, offers, peer, stream>>

\* Mutant of DropReceiver: the error is reported while the Worker still lives.
ReportFirst ==
  /\ Transition(Main, "drop", "report")
  /\ UNCHANGED vars

\* try_handle returns Err: Drop of _t, then of combined_data.
DropReceiver ==
  /\ Transition(Main, "drop", "report")
  /\ Drop(Main, Receiver)

\* try_report_exception and response.end()
Report ==
  /\ Transition(Main, "report", "done")
  /\ UNCHANGED vars

ServeStep ==
  \/ Start \/ Take \/ HangUp
  \/ Write \/ WriteLost \/ WriteFails \/ DropReceiver \/ Report

-----------------------------------------------------------------------------
(* The two workers.                                                        *)

SpawnKeepalive ==
  \/ /\ Transition(Receiver, "spawn", "recv")
     /\ Spawn(Receiver, Receiver, Keepalive)
  \/ /\ Transition(Receiver, "spawn", "fail")
     /\ UNCHANGED vars

\* receiver.recv()
Receive ==
  /\ At(Receiver, "recv")
  /\ queue # <<>>
  /\ holds' = [holds EXCEPT ![Receiver] = Head(queue)]
  /\ queue' = Tail(queue)
  /\ Goto(Receiver, "tick")
  /\ UNCHANGED <<vars, queued, offers, peer, stream>>

\* sleep_ms(10000)
Wake ==
  /\ Transition(Keepalive, "sleep", "tick")
  /\ UNCHANGED vars

Tick(w) ==
  \/ /\ signal[w] = 0
     /\ Transition(w, "tick", "send")
     /\ UNCHANGED vars
  \/ /\ Transition(w, "tick", "fail")
     /\ ObserveCancel(w)

\* Mutant of Offer: try_send, which gives up unless the handler is receiving.
TryOffer(w) ==
  /\ At(w, "send")
  /\ IF At(Main, "recv")
     THEN /\ offers' = Append(offers, w)
          /\ Goto(w, "sending")
          /\ UNCHANGED holds
     ELSE /\ Goto(w, IF w = Receiver THEN "recv" ELSE "sleep")
          /\ holds' = [holds EXCEPT ![w] = 0]
          /\ UNCHANGED offers
  /\ UNCHANGED <<vars, queued, queue, peer, stream>>

\* send on the rendezvous channel blocks until the handler takes it.  Its
\* receiving end is dropped after both workers are over, so it does not fail.
Offer(w) ==
  /\ At(w, "send")
  /\ offers' = Append(offers, w)
  /\ Goto(w, "sending")
  /\ UNCHANGED <<vars, queued, queue, holds, peer, stream>>

\* An error ends the work function; its handles are dropped.
Fail(w) ==
  /\ at[w] = "fail"
  /\ EndWork(w, "Err")
  /\ UNCHANGED programVars

DropKeepalive ==
  /\ pc[Receiver] = "unwind"
  /\ Drop(Receiver, Keepalive)
  /\ UNCHANGED programVars

ReceiverStep ==
  SpawnKeepalive \/ Receive \/ Tick(Receiver) \/ Offer(Receiver) \/ Fail(Receiver) \/ DropKeepalive

KeepaliveStep == Wake \/ Tick(Keepalive) \/ Offer(Keepalive) \/ Fail(Keepalive)

\* The threads inside the worker crate.
CrateStep(t) ==
  /\ Proceed(t) \/ (t \in Workers /\ Epilogue(t))
  /\ UNCHANGED programVars

HandlerNext ==
  \/ Publish \/ Disconnect
  \/ Subscribe \/ ServeStep \/ ReceiverStep \/ KeepaliveStep
  \/ \E t \in Threads : CrateStep(t)

HandlerSpec == HandlerInit /\ [][HandlerNext]_handlerVars

\* Every thread runs, and a write to a client that is gone fails in the end.
\* The monitor's mutex, which Subscribe needs, need not become free: the
\* notification service may keep it.
HandlerFairness ==
  /\ WF_handlerVars(ServeStep)
  /\ WF_handlerVars(ReceiverStep)
  /\ WF_handlerVars(KeepaliveStep)
  /\ \A t \in Threads : WF_handlerVars(CrateStep(t))
  /\ SF_handlerVars(WriteFails)

FairHandlerSpec == HandlerSpec /\ HandlerFairness

-----------------------------------------------------------------------------
(* Properties.                                                             *)

HandlerTypeOK ==
  /\ at \in [Threads -> {"subscribe", "start", "recv", "emit", "keepalive", "drop", "report",
                         "done", "spawn", "tick", "send", "sending", "fail", "sleep"}]
  /\ queued \in 0..MaxUpdates
  /\ queue \in Seq(1..MaxUpdates)
  /\ holds \in [Threads -> 0..MaxUpdates]
  /\ offers \in Seq(Workers)
  /\ peer \in BOOLEAN
  /\ stream \in Seq(1..MaxUpdates)

\* The update a thread has in its hands, as a sequence.
InHand(t) == IF holds[t] = 0 THEN <<>> ELSE <<holds[t]>>

\* What the client has got, what the handler writes, what the receiver worker
\* sends and what waits in the queue are the updates of the monitor in order,
\* none lost and none twice, however the keepalive messages come in between
\* (service.rs:154-164).
NothingLost ==
  peer /\ Listening =>
    stream \o InHand(Main) \o InHand(Receiver) \o queue = [i \in 1..queued |-> i]

\* When try_handle has returned, neither worker runs and the subscription is
\* gone: also if only one of the two could be started, or if terminate() gave
\* up because the worker had ended by itself.
NoHelperLeft ==
  At(Main, "report") \/ At(Main, "done") => ~Listening /\ \A w \in Workers : ~Receiving(w)

\* An update that the listener has got reaches the client if that stays, unless
\* the helper threads could not be started.
Delivered ==
  \A n \in 1..MaxUpdates :
    n <= queued ~> \/ \E i \in 1..Len(stream) : stream[i] = n
                   \/ ~peer
                   \/ at[Main] = "done"

\* Without an update of the monitor, the keepalive messages let the handler find
\* out that its client is gone.
DisconnectNoticed ==
  ~peer /\ at[Main] # "subscribe" ~> at[Main] \in {"drop", "report", "done"}

\* "don't bother trying to report this exception if it's a pipe error"
\* (service.rs:225-226) takes for granted that try_handle returns after one.
PipeErrorReturns ==
  at[Main] = "drop" ~> at[Main] = "done"

=============================================================================
