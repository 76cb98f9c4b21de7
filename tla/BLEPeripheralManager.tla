------------------------ MODULE BLEPeripheralManager ------------------------
(* The Bluetooth LE side of the accessory server while a central is connected   *)
(* (HAP/HAPBLEPeripheralManager.c, HAPBLEAccessoryServer.c): GATT requests are  *)
(* given to the procedure of their characteristic, or to a fallback procedure   *)
(* that only says that the accessory is busy; events are indicated; a stop      *)
(* waits for the connection to end.  One action is one callback.                *)
EXTENDS BLEProcedure

CONSTANTS
  Packets,   \* the bytes a central may write to the value of each characteristic
  Lengths    \* how much it may read at a time

Characteristics == DOMAIN Db

ASSUME PeripheralManagerAssumption ==
  /\ Unattached \notin Characteristics
  /\ \A c \in Characteristics : Packets[c] \subseteq Seq(0 .. 255)
  /\ Lengths \subseteq Nat

VARIABLE w   \* the state of the server and of its connection

Notifying == {c \in Characteristics : Db[c].supportsEventNotification}

NoFallback == [on |-> FALSE, status |-> MaxProcedures, tid |-> 0, remaining |-> 0]
Nothing == [body |-> <<>>, sealed |-> FALSE]
Unhandled == [on |-> FALSE, body |-> <<>>, timed |-> FALSE, secured |-> FALSE]
Unsent == [bytes |-> <<>>, sealed |-> FALSE, final |-> FALSE]

\* The process has been started; pairings are persistent.
Created(paired) ==
  [state |-> "Idle", paired |-> paired, connected |-> FALSE, cancel |-> FALSE, fault |-> "none",
   active |-> FALSE, terminal |-> FALSE, safe |-> FALSE, safeTimer |-> FALSE, link |-> "off",
   pairingTimer |-> FALSE, verify |-> 0, verified |-> FALSE, removing |-> 0,
   attached |-> Unattached, timer |-> FALSE, startedSecured |-> FALSE, multi |-> FALSE, stored |-> 0,
   tx |-> Create(0), scratch |-> Scratch, fallback |-> [c \in Characteristics |-> NoFallback],
   subscribed |-> {}, pending |-> {}, told |-> {}, queued |-> FALSE,
   \* history: whether the session has outlived its pairing, and the requests and responses
   \* as the central knows them
   orphaned |-> "no",
   asked |-> Nothing, prepared |-> Nothing, handled |-> Unhandled, sent |-> Unsent, received |-> <<>>]

Init == w = Created(FALSE)

-----------------------------------------------------------------------------
(* Helpers of the source                                                        *)

ResetEventState(v) == [v EXCEPT !.subscribed = {}, !.pending = {}]

AbortAllFallbackProcedures(v) == [v EXCEPT !.fallback = [c \in Characteristics |-> NoFallback]]

\* SendPendingEventNotifications; the platform has room for one indication at a time.
SendPendingEventNotifications(v) ==
  LET due == v.subscribed \cap v.pending
  IN  IF due = {} \/ ~IsSecured(v) \/ v.queued THEN {v}
      ELSE {[v EXCEPT !.pending = @ \ {c}, !.queued = TRUE] : c \in due}

\* SetNotificationsEnabled
SetNotificationsEnabled(v, c, enable) ==
  LET u == [v EXCEPT !.subscribed = IF enable THEN @ \cup {c} ELSE @ \ {c}]
  IN  IF (c \in v.subscribed) = enable THEN {v}
      ELSE SendPendingEventNotifications(
             IF IsSecured(v) THEN [u EXCEPT !.told = IF enable THEN @ \cup {c} ELSE @ \ {c}] ELSE u)

\* Mutant: a request that starts a procedure is served while the server is stopping.
MayAttach_WhileStopping(v) == TRUE
MayAttach(v) == v.state = "Running" \/ (v.attached # Unattached /\ IsInProgress(v))

\* AttachProcedure for characteristic c
AttachProcedure(w0, c) ==
  LET v == IF Db[c].dropsSecurity THEN AbortAllFallbackProcedures(w0) ELSE w0
      Full(u) == [kind |-> "Full", new |-> FALSE, w |-> u]
  IN  CASE w0.terminal \/ ~MayAttach(w0) -> [kind |-> "InvalidState", new |-> FALSE, w |-> CancelCentralConnection(w0)]
        [] OTHER ->
             IF v.fallback[c].on THEN [kind |-> "Fallback", new |-> FALSE, w |-> v]
             ELSE IF v.attached = c THEN Full(v)
             ELSE IF v.attached # Unattached /\ IsInProgress(v) /\ ~Db[c].dropsSecurity
             THEN [kind |-> "Fallback", new |-> TRUE,
                   w |-> DidStartBLEProcedure([v EXCEPT !.fallback[c].on = TRUE])]
             ELSE Full(Attach(Destroy(v), c))

\* GetProcedure
GetProcedure(w0, c) ==
  LET v == IF Db[c].dropsSecurity THEN AbortAllFallbackProcedures(w0) ELSE w0
  IN  CASE w0.terminal -> [kind |-> "InvalidState", w |-> CancelCentralConnection(w0)]
        [] ~w0.terminal /\ v.fallback[c].on -> [kind |-> "Fallback", w |-> v]
        [] ~w0.terminal /\ ~v.fallback[c].on ->
             [kind |-> IF v.attached = c THEN "Full" ELSE "InvalidState", w |-> v]

\* A write to a fallback procedure is only looked at for what the busy response needs.
FirstFragment(v, c, b) ==
  LET op       == b[2]
      iid      == LittleUInt16(b, 4)
      expected == IF IsServiceOperation(op) THEN Db[c].serviceIID ELSE Db[c].iid
      body     == SubSeq(b, 8, Len(b))
      length   == IF Len(b) > 5 THEN LittleUInt16(b, 6) ELSE 0
      status   == IF ~IsValidOpcode(op) \/ iid = expected THEN MaxProcedures
                  ELSE IF op = ServiceSignatureRead /\ iid = 0 THEN Success ELSE InvalidInstanceID
  IN  IF Len(b) < 5 \/ b[1] # First + Request \/ Len(b) = 6 \/ Len(body) > length
      THEN [err |-> "InvalidData", w |-> v]
      ELSE [err |-> "none", w |-> [v EXCEPT !.fallback[c] =
              [on |-> TRUE, status |-> status, tid |-> b[3], remaining |-> length - Len(body)]]]

NextFragment(v, c, b) ==
  IF \/ Len(b) < 2 \/ b[1] # Continuation + Request \/ b[2] # v.fallback[c].tid
     \/ Len(b) - 2 > v.fallback[c].remaining
  THEN [err |-> "InvalidData", w |-> v]
  ELSE [err |-> "none", w |-> [v EXCEPT !.fallback[c].remaining = @ - (Len(b) - 2)]]

FallbackWrite(a, c, packet) ==
  LET d == IF IsSecured(a.w) THEN DecryptControlMessage(a.w, packet) ELSE Plaintext(packet)
      r == IF a.new THEN FirstFragment(a.w, c, d.bytes) ELSE NextFragment(a.w, c, d.bytes)
  IN  IF d.err # "none" THEN [err |-> d.err, w |-> a.w]
      ELSE IF r.err # "none" THEN r
      ELSE [err |-> "none", w |-> DidSendGATTResponse(r.w)]

\* A response to a service signature request for instance 0 has a body of its own.
FallbackRead(v, c, maxBytes) ==
  LET f == v.fallback[c]
      b == <<First + Response, f.tid, f.status>> \o (IF f.status = Success THEN <<2, 0, 16, 0>> ELSE <<>>)
  IN  IF f.remaining > 0 THEN [err |-> "InvalidState", w |-> v]
      ELSE IF Len(b) > maxBytes THEN [err |-> "OutOfResources", w |-> v]
      ELSE [err |-> "none",
            w |-> DidSendGATTResponse([v EXCEPT !.fallback[c] = NoFallback])]

-----------------------------------------------------------------------------
(* What the central knows of its requests: history, which no decision depends on *)

\* The body of the request it is writing to the procedure of c
Asked(v, c, packet, full) ==
  LET b == packet.bytes
      first == w.attached # c \/ w.tx.state = "WaitingForInitialWrite" \/ (~w.timer /\ Db[c].dropsSecurity)
  IN  IF ~full THEN v
      ELSE IF first THEN [v EXCEPT !.asked = [body |-> SubSeq(b, 8, Len(b)), sealed |-> packet.sealed],
                                   !.received = <<>>]
      ELSE [v EXCEPT !.asked.body = @ \o SubSeq(b, 3, Len(b))]

\* The body of the response it is reading
Payload(b) == IF b[1] >= Continuation THEN SubSeq(b, 3, Len(b)) ELSE SubSeq(b, 6, Len(b))
Received(v) == IF v.sent # Unsent THEN [v EXCEPT !.received = @ \o Payload(v.sent.bytes)] ELSE v

\* What no longer matters is forgotten: the last step, a procedure that is over, and what
\* it has left in its buffer.  An orphaned session that has ended was orphaned once.
Forget(v) ==
  LET idle == v.tx.state = "WaitingForInitialWrite" /\ ~v.multi
      u    == [v EXCEPT !.handled = Unhandled, !.sent = Unsent, !.prepared = IF v.multi THEN @ ELSE Nothing,
                         !.orphaned = IF @ = "now" /\ ~v.active THEN "once" ELSE @]
  IN  IF idle THEN [u EXCEPT !.asked = Nothing, !.received = <<>>, !.scratch = Scratch] ELSE u
Alive == w.fault = "none"
Serving == Alive /\ w.connected

\* A GATT error ends the connection; otherwise events that have waited are sent.
Concluded(r) == IF r.err # "none" THEN {Invalidate(r.w, TRUE)} ELSE SendPendingEventNotifications(r.w)

-----------------------------------------------------------------------------
(* Requests of the central                                                      *)

\* HandleWriteRequest on the value of c
WriteValue(c, packet) ==
  LET a == AttachProcedure(Forget(w), c)
      r == CASE a.kind = "Full" -> ProcedureWrite(a.w, packet)
             [] a.kind = "Fallback" -> FallbackWrite(a, c, packet)
             [] OTHER -> [err |-> a.kind, w |-> a.w]
  IN  /\ Serving
      /\ w' \in {Asked(v, c, packet, a.kind = "Full" /\ r.err = "none") : v \in Concluded(r)}

\* HandleReadRequest on the value of c
ReadValue(c, maxBytes) ==
  LET g == GetProcedure(Forget(w), c)
      R == CASE g.kind = "Full" -> ProcedureRead(g.w, maxBytes)
             [] g.kind = "Fallback" -> {FallbackRead(g.w, c, maxBytes)}
             [] OTHER -> {[err |-> g.kind, w |-> g.w]}
  IN  /\ Serving
      /\ w' \in {Received(v) : v \in UNION {Concluded(r) : r \in R}}

\* HandleWriteRequest on the client characteristic configuration of c.  Reads of it, reads of
\* instance identifiers and malformed writes change nothing.
WriteConfiguration(c, enable) ==
  /\ Serving
  /\ w' \in SetNotificationsEnabled(Forget(w), c, enable)

\* HandleReadyToUpdateSubscribers: the indication has been confirmed.
ReadyToUpdateSubscribers ==
  /\ Serving /\ w.queued
  /\ w' \in SendPendingEventNotifications([Forget(w) EXCEPT !.queued = FALSE])

\* HandleConnectedCentral
Connect ==
  /\ Alive /\ ~w.connected /\ w.state = "Running"
  /\ w' = CreateSession([ResetEventState(AbortAllFallbackProcedures(Forget(w))) EXCEPT
                           !.connected = TRUE, !.cancel = FALSE, !.queued = FALSE])

\* HAPBLEAccessoryServer's TryStop, then CompleteShutdown
TryStop(v) ==
  IF ~v.connected THEN [v EXCEPT !.state = "Idle"]
  ELSE IF v.safe THEN CancelCentralConnection(v) ELSE v

\* HandleDisconnectedCentral: the central leaves, or a disconnection asked for is done.
Disconnected ==
  LET v == [Forget(w) EXCEPT !.connected = FALSE, !.timer = FALSE]
      u == ResetEventState(ReleaseSession(AbortAllFallbackProcedures(v)))
      d == [u EXCEPT !.attached = Unattached, !.cancel = FALSE, !.queued = FALSE,
                     !.asked = Nothing, !.prepared = Nothing, !.received = <<>>]
  IN  IF w.state = "Stopping" THEN TryStop(d) ELSE d

Disconnect == Serving /\ w' = Disconnected
CancelledDisconnect == Serving /\ w.cancel /\ w' = Disconnected

-----------------------------------------------------------------------------
(* Timers, the application, and the other transport                             *)

\* HAPBLEPeripheralManagerRaiseEvent
RaiseEvent(c) ==
  /\ Serving
  /\ w' \in SendPendingEventNotifications([Forget(w) EXCEPT !.pending = @ \cup {c}])

ProcedureTimer == Serving /\ w.timer /\ w' = ProcedureTimerExpired(Forget(w))
PairingTimer == Serving /\ w.pairingTimer /\ w' = PairingProcedureTimerExpired(Forget(w))

\* The deadline of the link is reached, and some time after it the run loop serves the timer.
LinkDeadline == Serving /\ w.link = "on" /\ w' = [Forget(w) EXCEPT !.link = "due"]
LinkTimer == Serving /\ w.link = "due" /\ w' = LinkTimerExpired(Forget(w))

SafeTimer == Serving /\ w.safeTimer /\ w' = SafeToDisconnectTimerExpired(Forget(w))

\* FallbackProcedureTimerExpired deregisters the timer that has fired, which is a fatal error
\* of the POSIX run loop.
FallbackTimer(c) ==
  /\ Serving /\ w.fallback[c].on
  /\ w' = Invalidate(Fault([Forget(w) EXCEPT !.fallback[c] = NoFallback], "timerDeregistered"), TRUE)

\* HAPAccessoryServerStart and HAPAccessoryServerStop
Start == Alive /\ w.state = "Idle" /\ w' = [Forget(w) EXCEPT !.state = "Running"]
Stop == Alive /\ w.state # "Idle" /\ w' = TryStop([Forget(w) EXCEPT !.state = "Stopping"])

\* The accessory is paired, or the pairing removed, over IP; what happens after a session has
\* been orphaned is followed until then only.
PairedOverIP ==
  /\ Alive /\ (w.paired \/ w.orphaned = "no")
  /\ w' = IF w.paired THEN Unpaired(Forget(w)) ELSE [Forget(w) EXCEPT !.paired = TRUE]

\* The process ends and is started again.
Restart == w' = Created(w.paired)

Requests ==
  \E c \in Characteristics :
    \/ \E b \in Packets[c], sealed \in BOOLEAN : WriteValue(c, [bytes |-> b, sealed |-> sealed])
    \/ \E n \in Lengths : ReadValue(c, n)

Next ==
  \/ Requests
  \/ \E c \in Notifying : RaiseEvent(c) \/ \E enable \in BOOLEAN : WriteConfiguration(c, enable)
  \/ ReadyToUpdateSubscribers \/ Connect \/ Disconnect
  \/ ProcedureTimer \/ PairingTimer \/ LinkDeadline \/ LinkTimer \/ SafeTimer
  \/ \E c \in Characteristics : FallbackTimer(c)
  \/ Start \/ Stop \/ PairedOverIP \/ Restart

\* Timers are served, unless they are started again and again: that of a procedure by other
\* procedures, that of the last response by further requests.
ProcedureTimerServed == w.timer /\ (ProcedureTimer \/ (Requests /\ w'.attached # w.attached))
SafeTimerServed == w.safeTimer /\ (SafeTimer \/ Requests)

\* Beside that, a disconnection that has been asked for takes place.
Spec ==
  /\ Init /\ [][Next]_w
  /\ WF_w(ProcedureTimerServed) /\ WF_w(SafeTimerServed) /\ WF_w(CancelledDisconnect)

-----------------------------------------------------------------------------
\* Types; no assertion fails but those of the execution of a timed write that has a body,
\* of a session whose pairing is removed before it is accepted, and of the fallback timer.
TypeOK ==
  /\ w.state \in {"Idle", "Running", "Stopping"}
  /\ {w.attached} \cup w.subscribed \cup w.pending \cup w.told \subseteq Characteristics \cup {Unattached}
  /\ w.link \in {"off", "on", "due"}
  /\ w.verify \in 0 .. 3 /\ w.removing \in 0 .. 1 /\ w.stored \in 0 .. ScratchBytes
  /\ w.fault \in {"none", "bodyOfExecuteWrite", "sessionAccept", "timerDeregistered"}

\* A write handler is given the bytes the central has written for that write, in whatever
\* fragments: those of its timed write when it executes one.  What it reads back is the
\* response as it was made.
BodiesIntact ==
  /\ w.handled.on => w.handled.body = (IF w.handled.timed THEN w.prepared ELSE w.asked).body
  /\ w.sent.final => \A k \in DOMAIN w.received : w.received[k] = ResponseByte

\* While its pairing stays, requests that arrive in the clear are never handled with the
\* rights of the secure session, nor sealed ones without; and an answer is always sealed
\* exactly if the request was.
SecurityKept ==
  /\ w.orphaned # "now" /\ w.handled.on => w.handled.secured = w.asked.sealed
  /\ w.sent # Unsent => w.sent.sealed = w.asked.sealed

\* The application knows who listens: as long as no session has lost its pairing, it has been
\* told of exactly what is subscribed over the session there is, and of none when there is
\* none; and unless an assertion has failed, an event waits only for room in the queue.
Informed ==
  w.orphaned = "no" => /\ w.told = (IF w.active THEN w.subscribed ELSE {})
                       /\ Alive /\ w.active /\ w.pending \cap w.subscribed # {} => w.queued

\* A server that is stopping stops, unless the central goes on aborting its procedure with the
\* first fragment of a pairing request for ever.
BLEStops == <>[](w.state = "Stopping" /\ Alive) => []<><<w'.attached # w.attached>>_w

\* "Deregisters a timer that has not yet fired."
TimersDeregisteredInTime == w.fault # "timerDeregistered"

=============================================================================
