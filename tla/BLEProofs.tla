------------------------------ MODULE BLEProofs ------------------------------
(****************************************************************************)
(* The safety properties of BLEPeripheralManager, for any characteristics   *)
(* and any packets. An operator of the model changes a few fields of the    *)
(* state; what a step preserves is proved operator by operator, from the    *)
(* session to the procedure to the callbacks. The inductive invariant says  *)
(* how the session, the buffer of the procedure and what the central knows  *)
(* of its requests hang together.                                           *)
(****************************************************************************)
EXTENDS BLEPeripheralManager, SequenceTheorems, TLAPS

USE ProcedureAssumption

-----------------------------------------------------------------------------
(* The inductive invariant. *)

Fields ==
  {"state", "paired", "connected", "cancel", "fault", "active", "terminal", "safe", "safeTimer", "link",
   "pairingTimer", "verify", "verified", "removing", "attached", "timer", "startedSecured", "multi",
   "stored", "tx", "scratch", "fallback", "subscribed", "pending", "told", "queued", "orphaned",
   "asked", "prepared", "handled", "sent", "received"}

Bytes == 0 .. 255
Faults == {"none", "bodyOfExecuteWrite", "sessionAccept", "timerDeregistered"}

\* The session, and what the application has been told of it
SessionTypes(v) ==
  /\ v.paired \in BOOLEAN /\ v.connected \in BOOLEAN /\ v.active \in BOOLEAN /\ v.terminal \in BOOLEAN
  /\ v.fault \in Faults /\ v.orphaned \in {"no", "now", "once"}
  /\ v.link \in {"off", "on", "due"} /\ v.verify \in 0 .. 3 /\ v.removing \in 0 .. 1
  /\ v.subscribed \subseteq Characteristics /\ v.told \subseteq Characteristics

\* A session without its pairing has been orphaned; as long as none has been, the application
\* knows who listens.
Told(v) == v.orphaned = "no" => v.told = (IF v.active THEN v.subscribed ELSE {})
SessionSound(v) ==
  /\ v.orphaned # "no" => ~v.paired
  /\ v.active /\ ~v.paired => v.orphaned = "now" \/ v.fault # "none"
  /\ v.active => v.connected
  /\ Told(v)

Session(v) == DOMAIN v = Fields /\ SessionTypes(v) /\ SessionSound(v)

Orphan(v) == v.orphaned = "now" /\ v.active
Trusted(v) == ~v.terminal /\ ~Orphan(v) /\ v.fault = "none"

\* The server and its procedure. Without a central there is no procedure, and no transaction
\* has begun while the timer of the procedure is off.
TransactionStates ==
  {"WaitingForInitialWrite", "ReadingRequest", "HandlingRequest", "WaitingForInitialRead", "WritingResponse"}
Transactions ==
  [state : TransactionStates, max : {0, ScratchBytes}, opcode : Nat, tid : Nat, iid : Nat, status : Nat,
   total : Nat, offset : Nat, hasBody : BOOLEAN]
Messages == [body : Seq(Bytes), sealed : BOOLEAN]

ServerTypes(v) == v.state \in {"Idle", "Running", "Stopping"} /\ v.pending \subseteq Characteristics
ProcedureTypes(v) ==
  /\ v.attached \in Characteristics \cup {Unattached}
  /\ v.timer \in BOOLEAN /\ v.startedSecured \in BOOLEAN /\ v.multi \in BOOLEAN
  /\ v.stored \in 0 .. ScratchBytes /\ v.tx \in Transactions
  /\ v.scratch \in [1 .. ScratchBytes -> Bytes]
  /\ v.asked \in Messages /\ v.prepared \in Messages /\ v.received \in Seq({ResponseByte})
Timed(v) ==
  /\ ~v.connected => ~v.timer /\ v.attached = Unattached
  /\ v.attached # Unattached /\ ~v.timer => v.tx.state = "WaitingForInitialWrite" /\ ~v.multi

\* Requests are sealed as the procedure was started, and as the session is that handles them.
Sealing(v) ==
  /\ v.timer /\ v.tx.state # "WaitingForInitialWrite" => v.asked.sealed = v.startedSecured
  /\ /\ v.timer /\ (v.tx.state \in {"WaitingForInitialWrite", "ReadingRequest"} \/ v.multi)
     /\ Trusted(v)
     => v.startedSecured = IsSecured(v)

\* The buffer holds the request that is being written, the timed write that waits, or the
\* response that is being read.
RequestBuffered(v) ==
  v.timer /\ v.tx.state = "ReadingRequest" =>
    /\ v.tx.offset = Len(v.asked.body) /\ v.tx.offset <= v.tx.total
    /\ v.tx.total <= v.tx.max => v.asked.body = SubSeq(v.scratch, 1, v.tx.offset)
PreparedBuffered(v) ==
  v.timer /\ v.multi =>
    /\ v.prepared.body = SubSeq(v.scratch, 1, v.stored)
    /\ v.tx.state \in {"WaitingForInitialWrite", "ReadingRequest"} => v.tx.max = 0
ResponseBuffered(v) ==
  v.tx.state \in {"WaitingForInitialRead", "WritingResponse"} =>
    /\ v.tx.offset <= v.tx.total /\ v.tx.total <= ScratchBytes
    /\ v.tx.state = "WaitingForInitialRead" => v.tx.offset = 0
    /\ ~v.tx.hasBody => v.tx.total = 0
    /\ \A k \in 1 .. v.tx.total : v.scratch[k] = ResponseByte

\* What a handler was given, and how a response was sent, in the last step
HandledSound(v) ==
  v.handled.on => /\ v.handled.body = (IF v.handled.timed THEN v.prepared ELSE v.asked).body
                  /\ v.orphaned # "now" => v.handled.secured = v.asked.sealed
SentSound(v) == v.sent # Unsent => v.sent.sealed = v.asked.sealed

Kept(v) ==
  /\ Session(v) /\ ServerTypes(v) /\ ProcedureTypes(v) /\ Timed(v) /\ Sealing(v)
  /\ RequestBuffered(v) /\ PreparedBuffered(v) /\ ResponseBuffered(v)
  /\ HandledSound(v) /\ SentSound(v)

\* Events wait for room in the queue only.
Waits(v) ==
  v.orphaned = "no" /\ v.fault = "none" /\ v.active /\ v.pending \cap v.subscribed # {} => v.queued

IInv == Kept(w) /\ Waits(w)

-----------------------------------------------------------------------------
(* What the operators of BLESession change, and keep. *)

SessionFields ==
  {"paired", "cancel", "fault", "active", "terminal", "safe", "safeTimer", "link", "pairingTimer", "verify",
   "verified", "removing", "told", "orphaned"}
TimerFields == {"cancel", "safe", "safeTimer", "link", "pairingTimer", "verify", "verified", "removing"}

Changed(v, u, F) == DOMAIN u = Fields /\ \A f \in Fields \ F : u[f] = v[f]

\* From v to u the session alone has changed, and is sound.
SessionStep(v, u) ==
  /\ Changed(v, u, SessionFields) /\ Session(u)
  /\ v.orphaned = "now" => u.orphaned = "now"

\* A session that may still be used is as secure as before.
SecurityStays(v, u) == Trusted(u) => Trusted(v) /\ IsSecured(u) = IsSecured(v)

\* Steps of timers, and of the messages of a procedure
TimerStep(v, u) ==
  /\ Changed(v, u, TimerFields)
  /\ u.link \in {"off", "on", "due"} /\ u.verify \in 0 .. 3 /\ u.removing \in 0 .. 1

LEMMA TimerStepIsSessionStep ==
  ASSUME NEW v, NEW u, Session(v), TimerStep(v, u)
  PROVE  SessionStep(v, u) /\ SecurityStays(v, u)
<1>1. /\ DOMAIN u = Fields
      /\ u.paired = v.paired /\ u.connected = v.connected /\ u.active = v.active /\ u.terminal = v.terminal
      /\ u.fault = v.fault /\ u.orphaned = v.orphaned /\ u.subscribed = v.subscribed /\ u.told = v.told
  BY DEF TimerStep, Changed, TimerFields, Fields
<1>2. Changed(v, u, SessionFields)
  BY DEF TimerStep, Changed, TimerFields, SessionFields
<1>3. SessionTypes(u)
  BY <1>1 DEF Session, SessionTypes, TimerStep
<1>4. SessionSound(u)
  BY <1>1, Zenon DEF Session, SessionSound, Told
<1>5. SecurityStays(v, u)
  BY <1>1, Zenon DEF SecurityStays, Trusted, Orphan, IsSecured
<1> QED BY <1>1, <1>2, <1>3, <1>4, <1>5 DEF SessionStep, Session

\* Steps follow each other.
LEMMA StepsFollow ==
  ASSUME NEW v, NEW u, NEW t, SessionStep(v, u), SessionStep(u, t)
  PROVE  SessionStep(v, t)
BY DEF SessionStep, Changed, SessionFields

LEMMA SecurityFollows ==
  ASSUME NEW v, NEW u, NEW t, SecurityStays(v, u), SecurityStays(u, t)
  PROVE  SecurityStays(v, t)
BY Zenon DEF SecurityStays

LEMMA NoStep ==
  ASSUME NEW v, Session(v)
  PROVE  SessionStep(v, v) /\ SecurityStays(v, v)
BY Zenon DEF SessionStep, SecurityStays, Changed, Session

LEMMA TimerOperators ==
  ASSUME NEW v, Session(v)
  PROVE  /\ TimerStep(v, CancelCentralConnection(v))
         /\ TimerStep(v, DidSendGATTResponse(v))
         /\ TimerStep(v, DidStartBLEProcedure(v))
         /\ TimerStep(v, DidStartPairingProcedure(v))
         /\ \A procedure : TimerStep(v, DidCompletePairingProcedure(v, procedure))
         /\ \A procedure : TimerStep(v, Started(v, procedure)) /\ TimerStep(v, Ended(v, procedure))
<1> USE DEF Session, SessionTypes, TimerStep, Changed, TimerFields, Fields
<1>1. TimerStep(v, CancelCentralConnection(v))
  BY DEF CancelCentralConnection
<1>2. TimerStep(v, DidSendGATTResponse(v))
  BY DEF DidSendGATTResponse
<1>3. TimerStep(v, DidStartBLEProcedure(v))
  BY DEF DidStartBLEProcedure
<1>4. TimerStep(v, DidStartPairingProcedure(v))
  BY DEF DidStartPairingProcedure
<1>5. ASSUME NEW procedure  PROVE  TimerStep(v, DidCompletePairingProcedure(v, procedure))
  BY DEF DidCompletePairingProcedure
<1>6. TimerStep(v, v)
  OBVIOUS
<1>7. ASSUME NEW procedure  PROVE  TimerStep(v, Started(v, procedure)) /\ TimerStep(v, Ended(v, procedure))
  <2> HIDE DEF TimerStep
  <2> QED BY <1>4, <1>5, <1>6, Zenon DEF Started, Ended
<1> HIDE DEF TimerStep
<1> QED BY <1>1, <1>2, <1>3, <1>4, <1>5, <1>7, Zenon

\* An assertion that fails leaves nothing to trust.
LEMMA FaultStep ==
  ASSUME NEW v, Session(v), NEW what \in Faults \ {"none"}
  PROVE  SessionStep(v, Fault(v, what)) /\ SecurityStays(v, Fault(v, what)) /\ Fault(v, what).fault # "none"
<1>1. PICK u : u = Fault(v, what)
  OBVIOUS
<1>2. /\ Changed(v, u, {"fault"}) /\ u.fault \in Faults \ {"none"}
  BY <1>1 DEF Fault, Changed, Fields, Session, SessionTypes
<1>3. /\ DOMAIN u = Fields
      /\ u.paired = v.paired /\ u.connected = v.connected /\ u.active = v.active /\ u.terminal = v.terminal
      /\ u.orphaned = v.orphaned /\ u.subscribed = v.subscribed /\ u.told = v.told
      /\ u.link = v.link /\ u.verify = v.verify /\ u.removing = v.removing
  BY <1>2 DEF Changed, Fields
<1>4. SessionTypes(u)
  BY <1>2, <1>3 DEF Session, SessionTypes
<1>5. SessionSound(u)
  BY <1>2, <1>3, Zenon DEF Session, SessionSound, Told
<1>6. Changed(v, u, SessionFields)
  BY <1>2 DEF Changed, SessionFields
<1>7. SecurityStays(v, u)
  BY <1>2, Zenon DEF SecurityStays, Trusted
<1> QED BY <1>1, <1>2, <1>3, <1>4, <1>5, <1>6, <1>7 DEF SessionStep, Session

\* A session that is invalidated is over, and the application knows.
LEMMA InvalidateStep ==
  ASSUME NEW v, Session(v), NEW t \in BOOLEAN
  PROVE  /\ SessionStep(v, Invalidate(v, t)) /\ ~Invalidate(v, t).active
         /\ t => SecurityStays(v, Invalidate(v, t))
<1> DEFINE told == IF v.active THEN HandleSessionInvalidate(v) ELSE v
           ended == [told EXCEPT !.active = FALSE, !.verify = 0, !.verified = FALSE, !.removing = 0]
<1>1. /\ DOMAIN told = Fields /\ \A f \in Fields \ {"told"} : told[f] = v[f]
      /\ told.told = (IF v.active THEN v.told \ v.subscribed ELSE v.told)
  BY DEF Session, Fields, HandleSessionInvalidate
<1>2. /\ DOMAIN ended = Fields
      /\ \A f \in Fields \ {"active", "verify", "verified", "removing"} : ended[f] = told[f]
      /\ ended.active = FALSE /\ ended.verify = 0 /\ ended.removing = 0
  BY <1>1 DEF Fields
<1> HIDE DEF told, ended
<1>3. PICK u : u = Invalidate(v, t)
  OBVIOUS
<1>4. u = InvalidateBLE(ended, t)
  BY <1>3 DEF Invalidate, told, ended
<1>5. /\ DOMAIN u = Fields
      /\ \A f \in Fields \ {"link", "pairingTimer", "terminal", "cancel"} : u[f] = ended[f]
      /\ u.link = "off" /\ u.terminal = (ended.terminal \/ t)
  BY <1>2, <1>4 DEF Fields, InvalidateBLE, CancelCentralConnection
<1>6. /\ u.paired = v.paired /\ u.connected = v.connected /\ u.fault = v.fault /\ u.orphaned = v.orphaned
      /\ u.subscribed = v.subscribed /\ u.told = told.told
      /\ u.active = FALSE /\ u.verify = 0 /\ u.removing = 0 /\ u.link = "off"
  BY <1>1, <1>2, <1>5 DEF Fields
<1>7. u.terminal \in BOOLEAN /\ (t => u.terminal)
  <2>1. ended.terminal = v.terminal
    BY <1>1, <1>2 DEF Fields
  <2> QED BY <1>5, <2>1 DEF Session, SessionTypes
<1>8. u.told \subseteq Characteristics /\ (v.orphaned = "no" => u.told = {})
  BY <1>1, <1>6 DEF Session, SessionTypes, SessionSound, Told
<1>9. SessionTypes(u)
  <2>1. /\ u.paired \in BOOLEAN /\ u.connected \in BOOLEAN /\ u.active \in BOOLEAN
        /\ u.fault \in Faults /\ u.orphaned \in {"no", "now", "once"}
        /\ u.subscribed \subseteq Characteristics
    BY <1>6 DEF Session, SessionTypes
  <2>2. u.link \in {"off", "on", "due"} /\ u.verify \in 0 .. 3 /\ u.removing \in 0 .. 1
    BY <1>6
  <2> QED BY <1>7, <1>8, <2>1, <2>2, Zenon DEF SessionTypes
<1>10. SessionSound(u)
  BY <1>6, <1>8, Zenon DEF Session, SessionSound, Told
<1>11. Changed(v, u, SessionFields)
  BY <1>1, <1>2, <1>5 DEF Fields, SessionFields, Changed
<1>12. SessionStep(v, u) /\ ~u.active
  BY <1>5, <1>6, <1>9, <1>10, <1>11, Zenon DEF SessionStep, Session
<1>13. t => SecurityStays(v, u)
  BY <1>7, Zenon DEF SecurityStays, Trusted
<1> QED BY <1>3, <1>12, <1>13, Zenon

\* A session that starts without the pairing that it was verified with is not to be trusted.
LEMMA StartSessionStep ==
  ASSUME NEW v, Session(v), v.connected
  PROVE  SessionStep(v, StartSession(v))
<1> DEFINE x == IF v.paired THEN v ELSE Fault(v, "sessionAccept")
<1>1. /\ SessionStep(v, x) /\ (x.paired \/ x.fault # "none") /\ x.told = v.told /\ x.orphaned = v.orphaned
      /\ x.paired = v.paired
  <2>1. CASE v.paired
    BY <2>1, NoStep, Zenon
  <2>2. CASE ~v.paired
    <3>1. "sessionAccept" \in Faults \ {"none"}
      BY DEF Faults
    <3>2. SessionStep(v, x) /\ x.fault # "none"
      BY <2>2, <3>1, FaultStep, Zenon
    <3>3. x.told = v.told /\ x.orphaned = v.orphaned /\ x.paired = v.paired
      BY <2>2 DEF Fault, Session, Fields
    <3> QED BY <3>2, <3>3
  <2> QED BY <2>1, <2>2
<1> HIDE DEF x
<1>2. PICK u : u = StartSession(v)
  OBVIOUS
<1>3. /\ Changed(x, u, {"active", "verify", "verified", "told"})
      /\ u.active = TRUE /\ u.verify = 0 /\ u.told = x.told \cup x.subscribed
  BY <1>1, <1>2 DEF StartSession, x, SessionStep, Session, Changed, Fields
<1>4. /\ DOMAIN u = Fields
      /\ u.paired = x.paired /\ u.connected = x.connected /\ u.terminal = x.terminal
      /\ u.orphaned = x.orphaned /\ u.subscribed = x.subscribed /\ u.fault = x.fault
      /\ u.link = x.link /\ u.removing = x.removing
  BY <1>3 DEF Changed, Fields
<1>5. SessionTypes(u)
  <2>1. /\ u.paired \in BOOLEAN /\ u.connected \in BOOLEAN /\ u.terminal \in BOOLEAN
        /\ u.fault \in Faults /\ u.orphaned \in {"no", "now", "once"}
        /\ u.link \in {"off", "on", "due"} /\ u.removing \in 0 .. 1
        /\ u.subscribed \subseteq Characteristics
    BY <1>1, <1>4, Zenon DEF SessionStep, Session, SessionTypes
  <2>2. u.active \in BOOLEAN
    BY <1>3, Zenon
  <2>4. u.verify \in 0 .. 3
    BY <1>3
  <2>3. u.told \subseteq Characteristics
    <3>1. x.told \subseteq Characteristics /\ x.subscribed \subseteq Characteristics
      BY <1>1, Zenon DEF SessionStep, Session, SessionTypes
    <3> QED BY <1>3, <3>1
  <2> QED BY <2>1, <2>2, <2>3, <2>4, Zenon DEF SessionTypes
<1>6. x.connected = v.connected /\ x.subscribed = v.subscribed
  BY <1>1 DEF SessionStep, Changed, SessionFields, Fields
<1>7. Told(u)
  <2>1. v.orphaned = "no" => u.told = u.subscribed
    BY <1>1, <1>3, <1>4, <1>6 DEF Session, SessionSound, Told
  <2> QED BY <1>1, <1>3, <1>4, <2>1, Zenon DEF Told
<1>8. SessionSound(u)
  BY <1>1, <1>3, <1>4, <1>6, <1>7, Zenon DEF SessionStep, Session, SessionSound
<1>9. Changed(v, u, SessionFields)
  BY <1>1, <1>3 DEF SessionStep, Changed, SessionFields
<1> QED BY <1>1, <1>2, <1>4, <1>5, <1>8, <1>9, Zenon DEF SessionStep, Session

\* A session whose pairing is removed has been orphaned.
LEMMA UnpairedStep ==
  ASSUME NEW v, Session(v)
  PROVE  SessionStep(v, Unpaired(v)) /\ SecurityStays(v, Unpaired(v)) /\ Unpaired(v).active = v.active
         /\ (v.active => Unpaired(v).orphaned = "now")
<1>1. PICK u : u = Unpaired(v)
  OBVIOUS
<1>2. /\ Changed(v, u, {"paired", "orphaned"})
      /\ u.paired = FALSE /\ u.orphaned = (IF v.active THEN "now" ELSE v.orphaned)
  BY <1>1 DEF Unpaired, Changed, Fields, Session
<1>3. /\ DOMAIN u = Fields
      /\ u.connected = v.connected /\ u.active = v.active /\ u.terminal = v.terminal
      /\ u.fault = v.fault /\ u.subscribed = v.subscribed /\ u.told = v.told
      /\ u.link = v.link /\ u.verify = v.verify /\ u.removing = v.removing
  BY <1>2 DEF Changed, Fields
<1>4. SessionTypes(u)
  BY <1>2, <1>3 DEF Session, SessionTypes
<1>5. SessionSound(u)
  BY <1>2, <1>3, Zenon DEF Session, SessionTypes, SessionSound, Told
<1>6. Changed(v, u, SessionFields)
  BY <1>2 DEF Changed, SessionFields
<1>7. SecurityStays(v, u)
  BY <1>2, <1>3, Zenon DEF SecurityStays, Trusted, Orphan, IsSecured, Session, SessionTypes
<1> QED BY <1>1, <1>2, <1>3, <1>4, <1>5, <1>6, <1>7, Zenon DEF SessionStep, Session

\* A message of Pair Verify or of Pairings counts up, or is the end.
Message(x, u) ==
  \/ \E n \in 0 .. 3 : u = [x EXCEPT !.verify = n]
  \/ \E n \in 0 .. 3, found \in BOOLEAN : u = [x EXCEPT !.verify = n, !.verified = found]
  \/ \E k \in 0 .. 1 : u = [x EXCEPT !.removing = k]

LEMMA MessageStep ==
  ASSUME NEW v, NEW x, NEW u, SessionStep(v, x), Message(x, u)
  PROVE  SessionStep(v, u) /\ Session(u) /\ (SecurityStays(v, x) => SecurityStays(v, u))
<1>1. Session(x)
  BY Zenon DEF SessionStep
<1>2. TimerStep(x, u)
  BY <1>1, ZenonT(60) DEF Message, Session, SessionTypes, TimerStep, Changed, TimerFields, Fields
<1> QED BY <1>1, <1>2, TimerStepIsSessionStep, StepsFollow, SecurityFollows, Zenon DEF SessionStep

LEMMA EndedStep ==
  ASSUME NEW v, NEW x, NEW procedure, SessionStep(v, x)
  PROVE  SessionStep(v, Ended(x, procedure))
<1>1. Session(x)
  BY Zenon DEF SessionStep
<1>2. SessionStep(x, Ended(x, procedure))
  BY <1>1, TimerOperators, TimerStepIsSessionStep, Zenon
<1> QED BY <1>2, StepsFollow, Zenon

LEMMA StartedStep ==
  ASSUME NEW v, NEW procedure, Session(v)
  PROVE  SessionStep(v, Started(v, procedure)) /\ SecurityStays(v, Started(v, procedure))
BY TimerOperators, TimerStepIsSessionStep, Zenon

LEMMA WriteMessages ==
  ASSUME NEW v, Session(v), NEW r \in PairVerifyWrite(v) \cup PairingsWrite(v)
  PROVE  SessionStep(v, r.w) /\ SecurityStays(v, r.w)
<1>1. CASE r \in PairVerifyWrite(v)
  <2>1. PICK x : x = Started(v, "verify")
    OBVIOUS
  <2>2. x.paired \in BOOLEAN /\ SessionStep(v, x) /\ SecurityStays(v, x)
    BY <2>1, StartedStep, Zenon DEF SessionStep, Session, SessionTypes
  <2>3. \/ \E found \in BOOLEAN : r.w = [x EXCEPT !.verify = 1, !.verified = found]
        \/ \E found \in BOOLEAN : r.w = [x EXCEPT !.verify = 3, !.verified = found]
        \/ r.w = [x EXCEPT !.verify = 0, !.verified = FALSE]
    <3>1. \/ \E found \in {FALSE, x.paired} : r = Taken([x EXCEPT !.verify = 1, !.verified = found])
          \/ \E found \in {FALSE, x.paired} : r = Taken([x EXCEPT !.verify = 3, !.verified = found])
          \/ r = NotTaken([x EXCEPT !.verify = 0, !.verified = FALSE])
      BY <1>1, <2>1, Zenon DEF PairVerifyWrite
    <3>2. \A u : Taken(u).w = u /\ NotTaken(u).w = u
      BY DEF Taken, NotTaken
    <3>3. CASE \E found \in {FALSE, x.paired} : r = Taken([x EXCEPT !.verify = 1, !.verified = found])
      <4>1. PICK found \in BOOLEAN : r = Taken([x EXCEPT !.verify = 1, !.verified = found])
        BY <2>2, <3>3, Zenon
      <4> QED BY <3>2, <4>1, Zenon
    <3>4. CASE \E found \in {FALSE, x.paired} : r = Taken([x EXCEPT !.verify = 3, !.verified = found])
      <4>1. PICK found \in BOOLEAN : r = Taken([x EXCEPT !.verify = 3, !.verified = found])
        BY <2>2, <3>4, Zenon
      <4> QED BY <3>2, <4>1, Zenon
    <3> QED BY <3>1, <3>2, <3>3, <3>4, Zenon
  <2>4. 0 \in 0 .. 3 /\ 1 \in 0 .. 3 /\ 3 \in 0 .. 3 /\ FALSE \in BOOLEAN
    OBVIOUS
  <2>5. Message(x, r.w)
    BY <2>3, <2>4, Zenon DEF Message
  <2> QED BY <2>2, <2>5, MessageStep, Zenon
<1>2. CASE r \in PairingsWrite(v)
  <2>1. PICK x : x = Started(v, "removing")
    OBVIOUS
  <2>2. SessionStep(v, x) /\ SecurityStays(v, x)
    BY <2>1, StartedStep, Zenon
  <2>3. r.w = [x EXCEPT !.removing = 0] \/ r.w = [x EXCEPT !.removing = 1]
    BY <1>2, <2>1 DEF PairingsWrite, Taken, NotTaken
  <2>4. 0 \in 0 .. 1 /\ 1 \in 0 .. 1
    OBVIOUS
  <2>5. Message(x, r.w)
    BY <2>3, <2>4, Zenon DEF Message
  <2> QED BY <2>2, <2>5, MessageStep, Zenon
<1> QED BY <1>1, <1>2

LEMMA ReadMessages ==
  ASSUME NEW v, Session(v), v.connected, NEW r \in PairVerifyRead(v) \cup PairingsRead(v)
  PROVE  SessionStep(v, r.w)
<1>1. /\ 0 \in 0 .. 3 /\ 2 \in 0 .. 3 /\ FALSE \in BOOLEAN
      /\ 0 \in 0 .. 1
  OBVIOUS
<1>2. CASE r \in PairVerifyRead(v)
  <2>1. PICK x : x = Started(v, "verify")
    OBVIOUS
  <2>2. SessionStep(v, x) /\ Session(x) /\ x.connected
    <3>1. SessionStep(v, x)
      BY <2>1, StartedStep, Zenon
    <3> QED BY <3>1 DEF SessionStep, Changed, SessionFields, Fields
  <2>3. PICK u : u = [x EXCEPT !.verify = 0]
    OBVIOUS
  <2>4. \/ r.w = Ended(StartSession(x), "verify")
        \/ r.w = [x EXCEPT !.verify = 2]
        \/ r.w = Ended(u, "verify")
        \/ r.w = [x EXCEPT !.verify = 0, !.verified = FALSE]
    BY <1>2, <2>1, <2>3 DEF PairVerifyRead, Taken, NotTaken
  <2>5. CASE r.w = Ended(StartSession(x), "verify")
    BY <2>2, <2>5, StartSessionStep, StepsFollow, EndedStep, Zenon
  <2>6. CASE r.w = Ended(u, "verify")
    <3>1. Message(x, u)
      BY <1>1, <2>3, Zenon DEF Message
    <3> QED BY <2>2, <2>6, <3>1, MessageStep, EndedStep, Zenon
  <2>7. CASE r.w = [x EXCEPT !.verify = 2] \/ r.w = [x EXCEPT !.verify = 0, !.verified = FALSE]
    <3>1. Message(x, r.w)
      BY <1>1, <2>7, Zenon DEF Message
    <3> QED BY <2>2, <3>1, MessageStep, Zenon
  <2> QED BY <2>4, <2>5, <2>6, <2>7, Zenon
<1>3. CASE r \in PairingsRead(v)
  <2>1. PICK x : x = Started(v, "removing")
    OBVIOUS
  <2>2. SessionStep(v, x) /\ Session(x)
    BY <2>1, StartedStep, Zenon DEF SessionStep
  <2>3. \/ \E u \in {x, Unpaired(x)} : r.w = Ended([u EXCEPT !.removing = 0], "removing")
        \/ r.w = x
    <3>1. \/ \E u \in {x, Unpaired(x)} : r = Taken(Ended([u EXCEPT !.removing = 0], "removing"))
          \/ r = NotTaken(x)
      BY <1>3, <2>1, Zenon DEF PairingsRead
    <3>2. \A u : Taken(u).w = u /\ NotTaken(u).w = u
      BY DEF Taken, NotTaken
    <3> QED BY <3>1, <3>2, Zenon
  <2>4. ASSUME NEW u \in {x, Unpaired(x)}, r.w = Ended([u EXCEPT !.removing = 0], "removing")
        PROVE  SessionStep(v, r.w)
    <3>1. SessionStep(v, u)
      BY <2>2, UnpairedStep, StepsFollow
    <3>2. PICK t : t = [u EXCEPT !.removing = 0]
      OBVIOUS
    <3>3. Message(u, t)
      BY <1>1, <3>2, Zenon DEF Message
    <3> QED BY <2>4, <3>1, <3>2, <3>3, MessageStep, EndedStep, Zenon
  <2> QED BY <2>2, <2>3, <2>4, Zenon
<1> QED BY <1>2, <1>3

-----------------------------------------------------------------------------
(* The invariant and the session. *)

\* A step of the session leaves the rest alone.
Rest(v, u) ==
  /\ u.state = v.state /\ u.connected = v.connected /\ u.attached = v.attached /\ u.timer = v.timer
  /\ u.startedSecured = v.startedSecured /\ u.multi = v.multi /\ u.stored = v.stored /\ u.tx = v.tx
  /\ u.scratch = v.scratch /\ u.fallback = v.fallback /\ u.subscribed = v.subscribed
  /\ u.pending = v.pending /\ u.queued = v.queued /\ u.asked = v.asked /\ u.prepared = v.prepared
  /\ u.handled = v.handled /\ u.sent = v.sent /\ u.received = v.received

LEMMA SessionStepRest ==
  ASSUME NEW v, NEW u, SessionStep(v, u)
  PROVE  Rest(v, u) /\ Session(u)
<1>1. Session(u) /\ \A f \in Fields \ SessionFields : u[f] = v[f]
  BY Zenon DEF SessionStep, Changed
<1> QED BY <1>1 DEF Rest, Fields, SessionFields

\* No request is being written, nor waits.
PastWriting(v) == ~v.multi /\ v.tx.state \notin {"WaitingForInitialWrite", "ReadingRequest"}

LEMMA KeptBySession ==
  ASSUME NEW v, NEW u, Kept(v), SessionStep(v, u), SecurityStays(v, u) \/ PastWriting(v) \/ ~v.timer
  PROVE  Kept(u) /\ Rest(v, u)
<1>1. Rest(v, u) /\ Session(u)
  BY SessionStepRest, Zenon
<1>2. ServerTypes(u) /\ ProcedureTypes(u) /\ Timed(u)
  BY <1>1, Zenon DEF Kept, Rest, ServerTypes, ProcedureTypes, Timed
<1>3. Sealing(u)
  BY <1>1, Zenon DEF Kept, Rest, Sealing, PastWriting, SecurityStays
<1>4. RequestBuffered(u) /\ PreparedBuffered(u) /\ ResponseBuffered(u)
  BY <1>1, Zenon DEF Kept, Rest, RequestBuffered, PreparedBuffered, ResponseBuffered
<1>5. HandledSound(u) /\ SentSound(u)
  BY <1>1, Zenon DEF Kept, Rest, HandledSound, SentSound, SessionStep
<1> QED BY <1>1, <1>2, <1>3, <1>4, <1>5, Zenon DEF Kept

LEMMA KeptIsSession ==
  ASSUME NEW v, Kept(v)
  PROVE  Session(v)
BY Zenon DEF Kept

\* The session that is invalidated for good
LEMMA InvalidateKept ==
  ASSUME NEW v, Kept(v)
  PROVE  Kept(Invalidate(v, TRUE)) /\ Waits(Invalidate(v, TRUE)) /\ Rest(v, Invalidate(v, TRUE))
BY KeptIsSession, InvalidateStep, KeptBySession, Zenon DEF Waits

LEMMA TimersKept ==
  ASSUME NEW v, Kept(v)
  PROVE  /\ Kept(CancelCentralConnection(v)) /\ Rest(v, CancelCentralConnection(v))
         /\ Kept(DidSendGATTResponse(v)) /\ Rest(v, DidSendGATTResponse(v))
         /\ Kept(DidStartBLEProcedure(v)) /\ Rest(v, DidStartBLEProcedure(v))
BY KeptIsSession, TimerOperators, TimerStepIsSessionStep, KeptBySession, Zenon

-----------------------------------------------------------------------------
(* The invariant, and what is not the session. *)

OtherFields ==
  {"state", "attached", "timer", "startedSecured", "multi", "stored", "tx", "scratch", "fallback", "pending",
   "queued", "asked", "prepared", "handled", "sent", "received"}

SameSession(v, u) ==
  /\ Session(u) /\ IsSecured(u) = IsSecured(v) /\ (Trusted(u) <=> Trusted(v)) /\ u.orphaned = v.orphaned
  /\ u.connected = v.connected /\ u.active = v.active /\ u.subscribed = v.subscribed /\ u.fault = v.fault
  /\ u.paired = v.paired /\ u.terminal = v.terminal

LEMMA SessionUnchanged ==
  ASSUME NEW v, NEW u, Session(v), Changed(v, u, OtherFields)
  PROVE  SameSession(v, u)
<1>1. /\ DOMAIN u = Fields
      /\ u.paired = v.paired /\ u.connected = v.connected /\ u.active = v.active /\ u.terminal = v.terminal
      /\ u.fault = v.fault /\ u.orphaned = v.orphaned /\ u.subscribed = v.subscribed /\ u.told = v.told
      /\ u.link = v.link /\ u.verify = v.verify /\ u.removing = v.removing
  BY DEF Changed, OtherFields, Fields
<1>2. Session(u)
  BY <1>1, Zenon DEF Session, SessionTypes, SessionSound, Told
<1>3. IsSecured(u) = IsSecured(v) /\ (Trusted(u) <=> Trusted(v))
  BY <1>1, Zenon DEF IsSecured, Trusted, Orphan
<1> QED BY <1>1, <1>2, <1>3, Zenon DEF SameSession

\* Events and fallback procedures matter to none of it.
LEMMA EventsKept ==
  ASSUME NEW v, NEW u, Kept(v), Changed(v, u, {"fallback", "pending", "queued"}), u.pending \subseteq Characteristics
  PROVE  Kept(u) /\ SameSession(v, u)
<1>1. /\ u.state = v.state /\ u.attached = v.attached /\ u.timer = v.timer
      /\ u.startedSecured = v.startedSecured /\ u.multi = v.multi /\ u.stored = v.stored /\ u.tx = v.tx
      /\ u.scratch = v.scratch /\ u.asked = v.asked /\ u.prepared = v.prepared
      /\ u.handled = v.handled /\ u.sent = v.sent /\ u.received = v.received
  BY DEF Changed, Fields
<1>2. SameSession(v, u)
  <2>1. Changed(v, u, OtherFields)
    BY DEF Changed, OtherFields
  <2> QED BY <2>1, SessionUnchanged, Zenon DEF Kept
<1>3. ServerTypes(u) /\ ProcedureTypes(u) /\ Timed(u)
  BY <1>1, <1>2, Zenon DEF Kept, SameSession, ServerTypes, ProcedureTypes, Timed
<1>4. Sealing(u)
  BY <1>1, <1>2, Zenon DEF Kept, SameSession, Sealing
<1>5. RequestBuffered(u) /\ PreparedBuffered(u) /\ ResponseBuffered(u)
  <2>1. RequestBuffered(v) /\ PreparedBuffered(v) /\ ResponseBuffered(v)
    BY Zenon DEF Kept
  <2>2. RequestBuffered(u)
    BY <1>1, <2>1, Zenon DEF RequestBuffered
  <2>3. PreparedBuffered(u)
    BY <1>1, <2>1, Zenon DEF PreparedBuffered
  <2>4. ResponseBuffered(u)
    BY <1>1, <2>1, Zenon DEF ResponseBuffered
  <2> QED BY <2>2, <2>3, <2>4
<1>6. HandledSound(u) /\ SentSound(u)
  BY <1>1, <1>2, Zenon DEF Kept, SameSession, HandledSound, SentSound
<1> QED BY <1>2, <1>3, <1>4, <1>5, <1>6, Zenon DEF Kept, SameSession

\* A procedure that is attached, again or for the first time, has nothing in progress.
LEMMA AttachKept ==
  ASSUME NEW v, Kept(v), v.connected, NEW c \in Characteristics \cup {Unattached}
  PROVE  /\ Kept(Attach(Destroy(v), c)) /\ SameSession(v, Attach(Destroy(v), c))
         /\ Changed(v, Attach(Destroy(v), c), {"attached", "tx", "multi", "stored", "startedSecured", "timer"})
         /\ Attach(Destroy(v), c).attached = c /\ Attach(Destroy(v), c).timer = FALSE
         /\ Attach(Destroy(v), c).tx.state = "WaitingForInitialWrite"
<1>1. PICK u : u = Attach(Destroy(v), c)
  OBVIOUS
<1>2. PICK t : t = Create(ScratchBytes)
  OBVIOUS
<1>3. t \in Transactions /\ t.state = "WaitingForInitialWrite"
  BY <1>2 DEF Create, Transactions, TransactionStates
<1>4. /\ Changed(v, u, {"attached", "tx", "multi", "stored", "startedSecured", "timer"})
      /\ u.attached = c /\ u.tx = t /\ u.multi = FALSE /\ u.stored = 0 /\ u.startedSecured = FALSE
      /\ u.timer = FALSE
  BY <1>1, <1>2 DEF Attach, Destroy, Changed, Fields, Kept, Session
<1>5. /\ u.state = v.state /\ u.pending = v.pending
      /\ u.scratch = v.scratch /\ u.asked = v.asked /\ u.prepared = v.prepared
      /\ u.handled = v.handled /\ u.sent = v.sent /\ u.received = v.received
  BY <1>4 DEF Changed, Fields
<1>6. SameSession(v, u)
  <2>1. Changed(v, u, OtherFields)
    BY <1>4 DEF Changed, OtherFields
  <2> QED BY <2>1, SessionUnchanged, Zenon DEF Kept
<1>7. ServerTypes(u) /\ Timed(u)
  BY <1>3, <1>4, <1>5, <1>6, Zenon DEF Kept, SameSession, ServerTypes, Timed
<1>8. ProcedureTypes(u)
  <2>1. u.stored \in 0 .. ScratchBytes
    BY <1>4
  <2>2. u.timer \in BOOLEAN /\ u.startedSecured \in BOOLEAN /\ u.multi \in BOOLEAN
    BY <1>4, Zenon
  <2> QED BY <1>3, <1>4, <1>5, <2>1, <2>2, Zenon DEF Kept, ProcedureTypes
<1>9. Sealing(u) /\ RequestBuffered(u) /\ PreparedBuffered(u)
  BY <1>4, Zenon DEF Sealing, RequestBuffered, PreparedBuffered
<1>10. ResponseBuffered(u)
  BY <1>3, <1>4 DEF ResponseBuffered
<1>11. HandledSound(u) /\ SentSound(u)
  BY <1>5, <1>6, Zenon DEF Kept, SameSession, HandledSound, SentSound
<1>12. Kept(u)
  BY <1>6, <1>7, <1>8, <1>9, <1>10, <1>11, Zenon DEF Kept, SameSession
<1> QED BY <1>1, <1>3, <1>4, <1>6, <1>12, Zenon

\* What is forgotten is not needed.
LEMMA ForgetKept ==
  ASSUME NEW v, Kept(v)
  PROVE  /\ Kept(Forget(v)) /\ Forget(v).handled = Unhandled /\ Forget(v).sent = Unsent
         /\ Changed(v, Forget(v), {"handled", "sent", "prepared", "orphaned", "asked", "received", "scratch"})
         /\ (v.orphaned = "no" <=> Forget(v).orphaned = "no")
<1> DEFINE idle == v.tx.state = "WaitingForInitialWrite" /\ ~v.multi
<1>1. PICK u : u = Forget(v)
  OBVIOUS
<1>2. /\ Changed(v, u, {"handled", "sent", "prepared", "orphaned", "asked", "received", "scratch"})
      /\ u.handled = Unhandled /\ u.sent = Unsent
      /\ u.prepared = (IF v.multi THEN v.prepared ELSE Nothing)
      /\ u.orphaned = (IF v.orphaned = "now" /\ ~v.active THEN "once" ELSE v.orphaned)
      /\ IF idle THEN u.asked = Nothing /\ u.received = <<>> /\ u.scratch = Scratch
         ELSE u.asked = v.asked /\ u.received = v.received /\ u.scratch = v.scratch
  BY <1>1 DEF Forget, Changed, Fields, Kept, Session
<1>3. /\ DOMAIN u = Fields
      /\ u.paired = v.paired /\ u.connected = v.connected /\ u.active = v.active /\ u.terminal = v.terminal
      /\ u.fault = v.fault /\ u.subscribed = v.subscribed /\ u.told = v.told
      /\ u.link = v.link /\ u.verify = v.verify /\ u.removing = v.removing
      /\ u.state = v.state /\ u.attached = v.attached /\ u.timer = v.timer /\ u.tx = v.tx /\ u.multi = v.multi
      /\ u.startedSecured = v.startedSecured /\ u.stored = v.stored /\ u.pending = v.pending
  BY <1>2 DEF Changed, Fields
<1>4. Session(u)
  <2>1. u.orphaned \in {"no", "now", "once"}
    BY <1>2, Zenon DEF Kept, Session, SessionTypes
  <2>2. SessionTypes(u)
    BY <1>3, <2>1, Zenon DEF Kept, Session, SessionTypes
  <2>3. SessionSound(u)
    BY <1>2, <1>3, Zenon DEF Kept, Session, SessionSound, Told
  <2> QED BY <1>3, <2>2, <2>3 DEF Session
<1>5. Nothing \in Messages /\ Scratch \in [1 .. ScratchBytes -> Bytes] /\ <<>> \in Seq({ResponseByte})
  BY DEF Nothing, Messages, Scratch, Bytes
<1>6. ServerTypes(u) /\ ProcedureTypes(u) /\ Timed(u)
  BY <1>2, <1>3, <1>5, Zenon DEF Kept, ServerTypes, ProcedureTypes, Timed
<1>7. IsSecured(u) = IsSecured(v) /\ (Trusted(u) <=> Trusted(v))
  BY <1>2, <1>3, Zenon DEF IsSecured, Trusted, Orphan
<1>8. Sealing(u)
  BY <1>2, <1>3, <1>7, Zenon DEF Kept, Sealing
<1>9. RequestBuffered(u) /\ PreparedBuffered(u) /\ ResponseBuffered(u)
  <2>1. CASE idle
    BY <1>2, <1>3, <2>1 DEF RequestBuffered, PreparedBuffered, ResponseBuffered
  <2>2. CASE ~idle
    BY <1>2, <1>3, <2>2, Zenon DEF Kept, RequestBuffered, PreparedBuffered, ResponseBuffered
  <2> QED BY <2>1, <2>2
<1>10. HandledSound(u) /\ SentSound(u)
  BY <1>2 DEF HandledSound, SentSound, Unhandled
<1>11. v.orphaned = "no" <=> u.orphaned = "no"
  BY <1>2
<1> QED BY <1>1, <1>2, <1>4, <1>6, <1>8, <1>9, <1>10, <1>11, Zenon DEF Kept

-----------------------------------------------------------------------------
(* Events, and the procedure or fallback procedure of a request *)

LEMMA SendPendingSends ==
  ASSUME NEW v, Session(v), v.pending \subseteq Characteristics, NEW u \in SendPendingEventNotifications(v)
  PROVE  Changed(v, u, {"pending", "queued"}) /\ u.pending \subseteq Characteristics /\ Waits(u)
<1>1. CASE u = v /\ (v.subscribed \cap v.pending = {} \/ ~IsSecured(v) \/ v.queued)
  <2>1. Changed(v, u, {"pending", "queued"})
    BY <1>1 DEF Changed, Session
  <2>2. v.pending \cap v.subscribed = v.subscribed \cap v.pending
    OBVIOUS
  <2>3. Waits(u)
    BY <1>1, <2>2, Zenon DEF Waits, IsSecured, Session, SessionSound
  <2> QED BY <1>1, <2>1, <2>3
<1>2. ASSUME NEW c \in v.subscribed \cap v.pending, u = [v EXCEPT !.pending = @ \ {c}, !.queued = TRUE]
      PROVE  Changed(v, u, {"pending", "queued"}) /\ u.pending \subseteq Characteristics /\ Waits(u)
  <2>1. Changed(v, u, {"pending", "queued"}) /\ u.pending = v.pending \ {c} /\ u.queued = TRUE
    BY <1>2 DEF Changed, Session, Fields
  <2>2. Waits(u)
    BY <2>1, Zenon DEF Waits
  <2> QED BY <2>1, <2>2
<1> QED BY <1>1, <1>2, Zenon DEF SendPendingEventNotifications

LEMMA EventsSent ==
  ASSUME NEW v, Kept(v), NEW u \in SendPendingEventNotifications(v)
  PROVE  Kept(u) /\ Waits(u) /\ Changed(v, u, {"pending", "queued"}) /\ SameSession(v, u)
<1>1. Changed(v, u, {"pending", "queued"}) /\ u.pending \subseteq Characteristics /\ Waits(u)
  BY SendPendingSends, Zenon DEF Kept, ServerTypes
<1>2. Changed(v, u, {"fallback", "pending", "queued"})
  BY <1>1 DEF Changed
<1> QED BY <1>1, <1>2, EventsKept, Zenon

\* A request ends with its events sent, or with its session.
LEMMA ConcludedKept ==
  ASSUME NEW r, Kept(r.w), NEW u \in Concluded(r)
  PROVE  Kept(u) /\ Waits(u) /\ u.sent = r.w.sent /\ u.received = r.w.received
<1>1. CASE u = Invalidate(r.w, TRUE)
  BY <1>1, InvalidateKept, Zenon DEF Rest
<1>2. CASE u \in SendPendingEventNotifications(r.w)
  <2>1. Kept(u) /\ Waits(u) /\ Changed(r.w, u, {"pending", "queued"})
    BY <1>2, EventsSent, Zenon
  <2> QED BY <2>1 DEF Changed, Fields
<1> QED BY <1>1, <1>2, Zenon DEF Concluded

LEMMA AbortKept ==
  ASSUME NEW v, Kept(v)
  PROVE  Kept(AbortAllFallbackProcedures(v)) /\ Changed(v, AbortAllFallbackProcedures(v), {"fallback"})
<1>1. PICK u : u = AbortAllFallbackProcedures(v)
  OBVIOUS
<1>2. Changed(v, u, {"fallback"}) /\ u.pending = v.pending
  BY <1>1 DEF AbortAllFallbackProcedures, Changed, Kept, Session, Fields
<1>3. Changed(v, u, {"fallback", "pending", "queued"}) /\ u.pending \subseteq Characteristics
  BY <1>2 DEF Changed, Kept, ServerTypes
<1> QED BY <1>1, <1>2, <1>3, EventsKept, Zenon

\* The procedure a request is given to is the one that is attached to its characteristic, as
\* it was or anew.
Idle(v) == v.connected /\ v.handled = Unhandled /\ v.sent = Unsent
AttachedAsBefore(v, u, c) ==
  /\ u.attached = c
  /\ \/ v.attached = c /\ u.tx = v.tx /\ u.timer = v.timer
     \/ v.attached # c /\ u.tx.state = "WaitingForInitialWrite"

LEMMA AttachProcedureKept ==
  ASSUME NEW v, Kept(v), Idle(v), NEW c \in Characteristics, NEW a, a = AttachProcedure(v, c)
  PROVE  /\ Kept(a.w) /\ Idle(a.w) /\ a.kind \in {"Full", "Fallback", "InvalidState"}
         /\ a.kind = "Full" => AttachedAsBefore(v, a.w, c)
<1> DEFINE x == IF Db[c].dropsSecurity THEN AbortAllFallbackProcedures(v) ELSE v
<1>1. Kept(x) /\ Changed(v, x, {"fallback"})
  BY AbortKept DEF Changed, Kept, Session
<1>2. Idle(x) /\ x.attached = v.attached /\ x.tx = v.tx /\ x.timer = v.timer
  BY <1>1 DEF Idle, Changed, Fields
<1> DEFINE full == [kind |-> "Full", new |-> FALSE, w |-> x]
           attached == [kind |-> "Full", new |-> FALSE, w |-> Attach(Destroy(x), c)]
           started == [x EXCEPT !.fallback[c].on = TRUE]
<1>3. \/ a = [kind |-> "InvalidState", new |-> FALSE, w |-> CancelCentralConnection(v)]
      \/ a = [kind |-> "Fallback", new |-> FALSE, w |-> x]
      \/ a = full /\ x.attached = c
      \/ a = [kind |-> "Fallback", new |-> TRUE, w |-> DidStartBLEProcedure(started)]
      \/ a = attached /\ x.attached # c
  BY DEF AttachProcedure
<1> HIDE DEF x
<1>4. CASE a = [kind |-> "InvalidState", new |-> FALSE, w |-> CancelCentralConnection(v)]
  <2>1. a.kind = "InvalidState" /\ a.w = CancelCentralConnection(v)
    BY <1>4
  <2>2. Kept(a.w) /\ Rest(v, a.w)
    BY <2>1, TimersKept, Zenon
  <2> QED BY <2>1, <2>2 DEF Idle, Rest
<1>5. CASE a = [kind |-> "Fallback", new |-> FALSE, w |-> x]
  <2>1. a.kind = "Fallback" /\ a.w = x
    BY <1>5
  <2> QED BY <1>1, <1>2, <2>1
<1>6. CASE a = full /\ x.attached = c
  <2>1. a.kind = "Full" /\ a.w = x
    BY <1>6
  <2> QED BY <1>1, <1>2, <1>6, <2>1 DEF AttachedAsBefore
<1>7. CASE a = [kind |-> "Fallback", new |-> TRUE, w |-> DidStartBLEProcedure(started)]
  <2>1. a.kind = "Fallback" /\ a.w = DidStartBLEProcedure(started)
    BY <1>7
  <2>2. Changed(x, started, {"fallback"}) /\ started.pending = x.pending
    BY <1>1 DEF Changed, Fields
  <2>3. Changed(x, started, {"fallback", "pending", "queued"}) /\ started.pending \subseteq Characteristics
    BY <1>1, <2>2 DEF Changed, Kept, ServerTypes
  <2>4. Idle(started)
    BY <1>2, <2>2 DEF Idle, Changed, Fields
  <2> HIDE DEF started
  <2>5. Kept(started)
    BY <1>1, <2>3, EventsKept, Zenon
  <2>6. Kept(a.w) /\ Rest(started, a.w)
    BY <2>1, <2>5, TimersKept, Zenon
  <2> QED BY <2>1, <2>4, <2>6 DEF Idle, Rest
<1>8. CASE a = attached /\ x.attached # c
  <2>1. a.kind = "Full" /\ a.w = Attach(Destroy(x), c)
    BY <1>8
  <2>2. /\ Kept(a.w) /\ Changed(x, a.w, {"attached", "tx", "multi", "stored", "startedSecured", "timer"})
        /\ a.w.attached = c /\ a.w.tx.state = "WaitingForInitialWrite"
    <3>1. x.connected /\ c \in Characteristics \cup {Unattached}
      BY <1>2, Zenon DEF Idle
    <3> DEFINE t == Attach(Destroy(x), c)
    <3>2. Kept(t) /\ t.attached = c /\ t.tx.state = "WaitingForInitialWrite"
      BY <1>1, <3>1, AttachKept, Zenon
    <3>3. Changed(x, t, {"attached", "tx", "multi", "stored", "startedSecured", "timer"})
      BY <1>1, <3>1, AttachKept, Zenon
    <3> QED BY <2>1, <3>2, <3>3, Zenon
  <2>3. Idle(a.w)
    BY <1>2, <2>2 DEF Idle, Changed, Fields
  <2> QED BY <1>2, <1>8, <2>1, <2>2, <2>3 DEF AttachedAsBefore
<1> QED BY <1>3, <1>4, <1>5, <1>6, <1>7, <1>8

LEMMA GetProcedureKept ==
  ASSUME NEW v, Kept(v), Idle(v), NEW c \in Characteristics, NEW g, g = GetProcedure(v, c)
  PROVE  /\ Kept(g.w) /\ Idle(g.w) /\ g.kind \in {"Full", "Fallback", "InvalidState"}
         /\ g.kind = "Full" => g.w.attached = c /\ g.w.fault = v.fault
<1> DEFINE x == IF Db[c].dropsSecurity THEN AbortAllFallbackProcedures(v) ELSE v
<1>1. Kept(x) /\ Changed(v, x, {"fallback"})
  BY AbortKept DEF Changed, Kept, Session
<1>2. Idle(x) /\ x.attached = v.attached /\ x.fault = v.fault
  BY <1>1 DEF Idle, Changed, Fields
<1>3. \/ g = [kind |-> "InvalidState", w |-> CancelCentralConnection(v)]
      \/ \E kind \in {"Fallback", "InvalidState"} : g = [kind |-> kind, w |-> x]
      \/ g = [kind |-> "Full", w |-> x] /\ x.attached = c
  <2>1. CASE v.terminal
    BY <2>1 DEF GetProcedure
  <2>2. CASE ~v.terminal /\ x.fallback[c].on
    BY <2>2 DEF GetProcedure
  <2>3. CASE ~v.terminal /\ ~x.fallback[c].on
    BY <2>3 DEF GetProcedure
  <2> QED BY <2>1, <2>2, <2>3
<1> HIDE DEF x
<1>4. CASE g = [kind |-> "InvalidState", w |-> CancelCentralConnection(v)]
  <2>1. g.kind = "InvalidState" /\ g.w = CancelCentralConnection(v)
    BY <1>4
  <2>2. Kept(g.w) /\ Rest(v, g.w)
    BY <2>1, TimersKept, Zenon
  <2> QED BY <2>1, <2>2 DEF Idle, Rest
<1>5. ASSUME NEW kind \in {"Fallback", "InvalidState"}, g = [kind |-> kind, w |-> x]
      PROVE  Kept(g.w) /\ Idle(g.w) /\ g.kind = kind
  BY <1>1, <1>2, <1>5
<1>6. CASE g = [kind |-> "Full", w |-> x] /\ x.attached = c
  BY <1>1, <1>2, <1>6
<1> QED BY <1>3, <1>4, <1>5, <1>6

LEMMA FallbackChanged ==
  ASSUME NEW v, Kept(v), NEW u, Changed(v, u, {"fallback"})
  PROVE  Kept(u) /\ u.sent = v.sent
<1>1. u.pending = v.pending /\ u.sent = v.sent
  BY DEF Changed, Fields
<1>2. Changed(v, u, {"fallback", "pending", "queued"}) /\ u.pending \subseteq Characteristics
  BY <1>1 DEF Changed, Kept, ServerTypes
<1> QED BY <1>1, <1>2, EventsKept, Zenon

LEMMA FallbackWriteKept ==
  ASSUME NEW a, Kept(a.w), NEW c, NEW packet, NEW r, r = FallbackWrite(a, c, packet)
  PROVE  Kept(r.w)
<1> DEFINE d == IF IsSecured(a.w) THEN DecryptControlMessage(a.w, packet) ELSE Plaintext(packet)
           f == IF a.new THEN FirstFragment(a.w, c, d.bytes) ELSE NextFragment(a.w, c, d.bytes)
<1>1. ASSUME NEW b, NEW y, y = FirstFragment(a.w, c, b) \/ y = NextFragment(a.w, c, b)
      PROVE  y.w = a.w \/ Changed(a.w, y.w, {"fallback"})
  <2>1. CASE y = FirstFragment(a.w, c, b)
    <3>1. \/ y = [err |-> "InvalidData", w |-> a.w]
          \/ \E e : y = [err |-> "none", w |-> [a.w EXCEPT !.fallback[c] = e]]
      BY <2>1 DEF FirstFragment
    <3> QED BY <3>1 DEF Changed, Kept, Session, Fields
  <2>2. CASE y = NextFragment(a.w, c, b)
    <3>1. \/ y = [err |-> "InvalidData", w |-> a.w]
          \/ \E e : y = [err |-> "none", w |-> [a.w EXCEPT !.fallback[c].remaining = e]]
      BY <2>2 DEF NextFragment
    <3> QED BY <3>1 DEF Changed, Kept, Session, Fields
  <2> QED BY <1>1, <2>1, <2>2
<1>2. PICK y : y = f
  OBVIOUS
<1>3. y.w = a.w \/ Changed(a.w, y.w, {"fallback"})
  BY <1>1, <1>2
<1>4. Kept(y.w)
  BY <1>3, FallbackChanged, Zenon
<1>5. PICK e : e = d
  OBVIOUS
<1>6. r = IF e.err # "none" THEN [err |-> e.err, w |-> a.w]
          ELSE IF y.err # "none" THEN y
          ELSE [err |-> "none", w |-> DidSendGATTResponse(y.w)]
  BY <1>2, <1>5, Zenon DEF FallbackWrite
<1>7. r.w \in {a.w, y.w, DidSendGATTResponse(y.w)}
  BY <1>6
<1> QED BY <1>4, <1>7, TimersKept, Zenon

LEMMA FallbackReadKept ==
  ASSUME NEW v, Kept(v), NEW c, NEW n
  PROVE  Kept(FallbackRead(v, c, n).w) /\ FallbackRead(v, c, n).w.sent = v.sent
<1>0. PICK r : r = FallbackRead(v, c, n)
  OBVIOUS
<1>1. PICK u : u = [v EXCEPT !.fallback[c] = NoFallback]
  OBVIOUS
<1>2. Kept(u) /\ u.sent = v.sent
  <2>1. Changed(v, u, {"fallback"})
    BY <1>1 DEF Changed, Kept, Session, Fields
  <2> QED BY <2>1, FallbackChanged, Zenon
<1>3. r.w \in {v, DidSendGATTResponse(u)}
  BY <1>0, <1>1 DEF FallbackRead
<1>4. Kept(DidSendGATTResponse(u)) /\ DidSendGATTResponse(u).sent = v.sent
  BY <1>2, TimersKept, Zenon DEF Rest
<1> QED BY <1>0, <1>2, <1>3, <1>4, Zenon

-----------------------------------------------------------------------------
(* PDUs and the buffer *)

Buffers == [1 .. ScratchBytes -> Bytes]

\* Bytes are written over what follows the first offset bytes.
LEMMA OverwrittenIs ==
  ASSUME NEW buffer \in Buffers, NEW offset \in Nat, NEW body \in Seq(Bytes)
  PROVE  /\ Overwritten(buffer, offset, body) \in Buffers
         /\ body = <<>> => Overwritten(buffer, offset, body) = buffer
         /\ offset + Len(body) <= ScratchBytes =>
              SubSeq(Overwritten(buffer, offset, body), 1, offset + Len(body)) = SubSeq(buffer, 1, offset) \o body
<1> DEFINE u == Overwritten(buffer, offset, body)
<1>1. Len(body) \in Nat /\ DOMAIN body = 1 .. Len(body) /\ \A k \in 1 .. Len(body) : body[k] \in Bytes
  BY LenProperties, ElementOfSeq
<1>2. u = [k \in 1 .. ScratchBytes |-> IF k - offset \in DOMAIN body THEN body[k - offset] ELSE buffer[k]]
  BY DEF Overwritten, Buffers
<1> HIDE DEF u
<1>3. u \in Buffers
  BY <1>1, <1>2 DEF Buffers
<1>4. ASSUME body = <<>>  PROVE  u = buffer
  BY <1>2, <1>4 DEF Buffers
<1>5. ASSUME offset + Len(body) <= ScratchBytes
      PROVE  SubSeq(u, 1, offset + Len(body)) = SubSeq(buffer, 1, offset) \o body
  <2> DEFINE n == offset + Len(body)
             front == SubSeq(buffer, 1, offset)
             whole == SubSeq(u, 1, n)
  <2>1. n \in Nat /\ \A k \in 1 .. n : u[k] \in Bytes
    BY <1>1, <1>3, <1>5 DEF Buffers
  <2>2. whole \in Seq(Bytes) /\ Len(whole) = n /\ \A k \in 1 .. n : whole[k] = u[k]
    BY <2>1, SubSeqProperties
  <2>3. \A k \in 1 .. offset : buffer[k] \in Bytes
    BY <1>1, <1>5 DEF Buffers
  <2>4. front \in Seq(Bytes) /\ Len(front) = offset /\ \A k \in 1 .. offset : front[k] = buffer[k]
    BY <2>3, SubSeqProperties
  <2> HIDE DEF whole, front
  <2>5. /\ front \o body \in Seq(Bytes) /\ Len(front \o body) = n
        /\ \A k \in 1 .. n : (front \o body)[k] = IF k <= offset THEN front[k] ELSE body[k - offset]
    <3>1. /\ front \o body \in Seq(Bytes) /\ Len(front \o body) = Len(front) + Len(body)
          /\ \A k \in 1 .. Len(front) + Len(body) :
               (front \o body)[k] = IF k <= Len(front) THEN front[k] ELSE body[k - Len(front)]
      BY <2>4, ConcatProperties, Zenon
    <3> QED BY <2>4, <3>1, Zenon
  <2>6. ASSUME NEW k \in 1 .. n  PROVE  whole[k] = (front \o body)[k]
    <3>1. k \in 1 .. ScratchBytes /\ u[k] = IF k - offset \in DOMAIN body THEN body[k - offset] ELSE buffer[k]
      BY <1>1, <1>2, <1>5
    <3>2. CASE k <= offset
      BY <1>1, <2>2, <2>4, <2>5, <3>1, <3>2
    <3>3. CASE ~(k <= offset)
      <4>1. k - offset \in DOMAIN body
        BY <1>1, <3>3
      <4> QED BY <2>2, <2>5, <3>1, <3>3, <4>1
    <3> QED BY <3>2, <3>3
  <2> HIDE DEF n
  <2>7. whole = front \o body
    BY <2>2, <2>5, <2>6, SeqEqual
  <2> QED BY <2>7 DEF whole, front, n
<1> QED BY <1>3, <1>4, <1>5 DEF u

LEMMA LittleIsNat ==
  ASSUME NEW b, NEW at, b[at] \in Bytes, b[at + 1] \in Bytes
  PROVE  LittleUInt16(b, at) \in Nat
<1>1. PICK low \in 0 .. 255 : low = b[at]
  BY DEF Bytes
<1>2. PICK high \in 0 .. 255 : high = b[at + 1]
  BY DEF Bytes
<1>3. LittleUInt16(b, at) = low + 256 * high
  BY <1>1, <1>2, Zenon DEF LittleUInt16
<1> QED BY <1>3

\* The bytes from m on
LEMMA TailBytes ==
  ASSUME NEW b \in Seq(Bytes), NEW m \in Nat \ {0}, m <= Len(b) + 1
  PROVE  /\ SubSeq(b, m, Len(b)) \in Seq(Bytes) /\ Len(SubSeq(b, m, Len(b))) = Len(b) - m + 1
         /\ \A k \in 1 .. Len(b) - m + 1 : SubSeq(b, m, Len(b))[k] = b[m + k - 1]
<1>1. Len(b) \in Nat /\ \A k \in m .. Len(b) : b[k] \in Bytes
  BY LenProperties, ElementOfSeq
<1>2. /\ SubSeq(b, m, Len(b)) \in Seq(Bytes)
      /\ Len(SubSeq(b, m, Len(b))) = IF m <= Len(b) THEN Len(b) - m + 1 ELSE 0
      /\ \A k \in 1 .. Len(b) - m + 1 : SubSeq(b, m, Len(b))[k] = b[m + k - 1]
  BY <1>1, SubSeqProperties
<1> QED BY <1>1, <1>2

\* The body of a request
LEMMA DeserializeIs ==
  ASSUME NEW b \in Seq(Bytes), NEW pdu, pdu = Deserialize(b)
  PROVE  /\ pdu.err \in {"none", "InvalidData"} /\ (b = Garbage => pdu.err # "none")
         /\ pdu.err = "none" /\ pdu.type = Request =>
              /\ pdu.opcode \in Nat /\ pdu.tid \in Nat /\ pdu.iid \in Nat /\ pdu.total \in Nat
              /\ pdu.body = SubSeq(b, 8, Len(b)) /\ pdu.body \in Seq(Bytes) /\ Len(pdu.body) <= pdu.total
              /\ ~pdu.hasBody => pdu.body = <<>>
<1> DEFINE isRequest == TypeOf(Head(b)) = Request
           fixed == IF isRequest THEN 5 ELSE 3
           rest == DeserializeBody(SubSeq(b, fixed + 1, Len(b)))
           bad == \/ b = <<>> \/ Head(b) \notin ControlFields \/ FragmentOf(Head(b)) # First
                  \/ Len(b) < fixed \/ rest.err # "none"
<1>1. pdu = IF bad THEN InvalidData
            ELSE IF ~isRequest THEN [err |-> "none", type |-> Response]
            ELSE [err |-> "none", type |-> Request, opcode |-> b[2], tid |-> b[3], iid |-> LittleUInt16(b, 4),
                  total |-> rest.total, body |-> rest.body, hasBody |-> rest.hasBody]
  BY DEF Deserialize
<1>2. b = Garbage => bad
  BY DEF Garbage, ControlFields, First, Continuation, Request, Response
<1>3. ASSUME ~bad, isRequest
      PROVE  /\ b[2] \in Nat /\ b[3] \in Nat /\ LittleUInt16(b, 4) \in Nat /\ rest.total \in Nat
             /\ rest.body = SubSeq(b, 8, Len(b)) /\ rest.body \in Seq(Bytes) /\ Len(rest.body) <= rest.total
             /\ ~rest.hasBody => rest.body = <<>>
  <2>1. Len(b) \in Nat /\ Len(b) >= 5 /\ \A k \in 1 .. Len(b) : b[k] \in 0 .. 255
    BY <1>3, LenProperties, ElementOfSeq DEF Bytes
  <2>2. b[2] \in Nat /\ b[3] \in Nat /\ LittleUInt16(b, 4) \in Nat
    <3>1. b[2] \in 0 .. 255 /\ b[3] \in 0 .. 255 /\ b[4] \in Bytes /\ b[4 + 1] \in Bytes
      BY <2>1 DEF Bytes
    <3>2. LittleUInt16(b, 4) \in Nat
      BY <3>1, LittleIsNat, Zenon
    <3>3. \A n \in 0 .. 255 : n \in Nat
      OBVIOUS
    <3> QED BY <3>1, <3>2, <3>3, Zenon
  <2>3. PICK x : x = SubSeq(b, 6, Len(b))
    OBVIOUS
  <2>4. rest = DeserializeBody(x)
    BY <1>3, <2>3
  <2>5. x \in Seq(Bytes) /\ Len(x) = Len(b) - 5 /\ \A k \in 1 .. Len(b) - 5 : x[k] = b[k + 5]
    <3>1. 6 \in Nat \ {0} /\ 6 <= Len(b) + 1
      BY <2>1
    <3>2. /\ x \in Seq(Bytes) /\ Len(x) = Len(b) - 6 + 1
          /\ \A k \in 1 .. Len(b) - 6 + 1 : x[k] = b[6 + k - 1]
      BY <2>3, <3>1, TailBytes, Zenon
    <3> QED BY <2>1, <3>2
  <2> HIDE DEF rest
  <2>6. CASE x = <<>>
    <3>1. rest = [err |-> "none", total |-> 0, body |-> <<>>, hasBody |-> FALSE]
      BY <2>4, <2>6 DEF DeserializeBody
    <3>0. Len(x) = 0
      BY <2>6
    <3>6. Len(b) \in Nat /\ 0 = Len(b) - 5
      BY <2>1, <2>5, <3>0, Zenon
    <3>7. \A n \in Nat : 0 = n - 5 => n < 8 /\ 8 \in Int /\ n \in Int
      OBVIOUS
    <3>2. Len(b) < 8 /\ 8 \in Int /\ Len(b) \in Int
      BY <3>6, <3>7, Zenon
    <3>3. SubSeq(b, 8, Len(b)) = <<>>
      BY <3>2, SubSeqEmpty, Zenon
    <3>4. rest.total = 0 /\ rest.body = <<>> /\ ~(rest.hasBody # FALSE)
      BY <3>1
    <3>5. <<>> \in Seq(Bytes) /\ Len(<<>>) <= 0 /\ 0 \in Nat
      OBVIOUS
    <3> QED BY <2>2, <3>3, <3>4, <3>5, Zenon
  <2>7. CASE x # <<>>
    <3> DEFINE total == LittleUInt16(x, 1)
    <3>1. rest = IF Len(x) < 2 \/ Len(x) - 2 > total THEN InvalidData
                 ELSE [err |-> "none", total |-> total, body |-> SubSeq(x, 3, Len(x)), hasBody |-> TRUE]
      BY <2>4, <2>7 DEF DeserializeBody
    <3>2. rest.err = "none"
      BY <1>3
    <3>3. ~(Len(x) < 2 \/ Len(x) - 2 > total)
      BY <3>1, <3>2 DEF InvalidData
    <3>4. rest.total = total /\ rest.body = SubSeq(x, 3, Len(x)) /\ rest.hasBody = TRUE
      BY <3>1, <3>3
    <3> HIDE DEF total
    <3>0. Len(x) \in Nat /\ Len(x) >= 2 /\ 3 \in Nat \ {0} /\ 3 <= Len(x) + 1 /\ 8 \in Nat \ {0} /\ 8 <= Len(b) + 1
      <4>1. Len(x) \in Nat
        BY <2>1, <2>5, LenProperties
      <4> QED BY <2>1, <2>5, <3>3, <4>1
    <3>5. total \in Nat
      <4>1. x[1] \in Bytes /\ x[1 + 1] \in Bytes
        BY <2>5, <3>0, ElementOfSeq
      <4> QED BY <4>1, LittleIsNat, Zenon DEF total
    <3>7. /\ SubSeq(x, 3, Len(x)) \in Seq(Bytes) /\ Len(SubSeq(x, 3, Len(x))) = Len(x) - 3 + 1
          /\ \A k \in 1 .. Len(x) - 3 + 1 : SubSeq(x, 3, Len(x))[k] = x[3 + k - 1]
      BY <2>5, <3>0, TailBytes, Zenon
    <3>9. /\ SubSeq(b, 8, Len(b)) \in Seq(Bytes) /\ Len(SubSeq(b, 8, Len(b))) = Len(b) - 8 + 1
          /\ \A k \in 1 .. Len(b) - 8 + 1 : SubSeq(b, 8, Len(b))[k] = b[8 + k - 1]
      BY <3>0, TailBytes, Zenon
    <3>10. SubSeq(x, 3, Len(x)) = SubSeq(b, 8, Len(b))
      <4>1. PICK p, q : p = SubSeq(x, 3, Len(x)) /\ q = SubSeq(b, 8, Len(b))
        OBVIOUS
      <4>2. p \in Seq(Bytes) /\ q \in Seq(Bytes) /\ Len(p) = Len(q) /\ Len(p) = Len(b) - 7
        BY <2>1, <2>5, <3>7, <3>9, <4>1
      <4>3. ASSUME NEW k \in 1 .. Len(p)  PROVE  p[k] = q[k]
        <5>1. p[k] = x[3 + k - 1] /\ q[k] = b[8 + k - 1]
          BY <2>1, <2>5, <3>7, <3>9, <4>1, <4>2
        <5>2. k + 2 \in 1 .. Len(b) - 5 /\ 3 + k - 1 = k + 2 /\ 8 + k - 1 = (k + 2) + 5
          BY <2>1, <4>2
        <5> QED BY <2>5, <5>1, <5>2
      <4> QED BY <4>1, <4>2, <4>3, SeqEqual
    <3>11. Len(rest.body) <= rest.total
      BY <3>0, <3>3, <3>4, <3>5, <3>7
    <3> QED BY <2>2, <3>4, <3>5, <3>9, <3>10, <3>11, Zenon
  <2> QED BY <2>6, <2>7
<1> HIDE DEF isRequest, rest
<1>4. CASE bad
  BY <1>1, <1>4 DEF InvalidData
<1>5. CASE ~bad
  <2>1. b # Garbage
    BY <1>2, <1>5
  <2>2. CASE ~isRequest
    <3>1. pdu = [err |-> "none", type |-> Response]
      BY <1>1, <1>5, <2>2
    <3> QED BY <2>1, <3>1 DEF Request, Response
  <2>3. CASE isRequest
    <3>1. pdu = [err |-> "none", type |-> Request, opcode |-> b[2], tid |-> b[3], iid |-> LittleUInt16(b, 4),
                 total |-> rest.total, body |-> rest.body, hasBody |-> rest.hasBody]
      BY <1>1, <1>5, <2>3
    <3> QED BY <1>3, <1>5, <2>1, <2>3, <3>1
  <2> QED BY <2>2, <2>3
<1> QED BY <1>4, <1>5

LEMMA SomeBytes ==
  ASSUME NEW b \in Seq(Bytes), NEW m \in Nat \ {0}
  PROVE  SubSeq(b, m, Len(b)) \in Seq(Bytes)
<1>1. Len(b) \in Int /\ m \in Int /\ \A k \in m .. Len(b) : b[k] \in Bytes
  BY LenProperties, ElementOfSeq
<1> QED BY <1>1, SubSeqProperties, Zenon

\* The body of a request that goes on
LEMMA ContinuationIs ==
  ASSUME NEW b \in Seq(Bytes), NEW type, NEW total \in Nat, NEW soFar \in Nat,
         NEW pdu, pdu = DeserializeContinuation(b, type, total, soFar)
  PROVE  /\ pdu.err \in {"none", "InvalidData"} /\ (b = Garbage => pdu.err # "none")
         /\ pdu.err = "none" =>
              /\ pdu.body = SubSeq(b, 3, Len(b)) /\ pdu.body \in Seq(Bytes)
              /\ soFar + Len(pdu.body) <= total
              /\ pdu.hasBody \in BOOLEAN /\ (pdu.hasBody <=> pdu.body # <<>>)
<1> DEFINE bad == \/ Len(b) < 2 \/ Head(b) \notin ControlFields
                  \/ FragmentOf(Head(b)) # Continuation \/ TypeOf(Head(b)) # type
                  \/ Len(b) - 2 > total - soFar
<1>1. pdu = IF bad THEN InvalidData
            ELSE [type |-> type, tid |-> b[2], body |-> SubSeq(b, 3, Len(b)), hasBody |-> Len(b) > 2, err |-> "none"]
  BY DEF DeserializeContinuation
<1>2. CASE bad
  <2>1. pdu = InvalidData
    BY <1>1, <1>2
  <2> QED BY <2>1 DEF InvalidData
<1>3. CASE ~bad
  <2>1. /\ pdu.err = "none" /\ pdu.body = SubSeq(b, 3, Len(b)) /\ pdu.hasBody = (Len(b) > 2)
    BY <1>1, <1>3
  <2>2. Len(b) \in Nat /\ Len(b) >= 2 /\ ~(Len(b) - 2 > total - soFar)
    BY <1>3, LenProperties
  <2>3. 3 \in Nat \ {0} /\ 3 <= Len(b) + 1
    BY <2>2
  <2>4. pdu.body \in Seq(Bytes) /\ Len(pdu.body) = Len(b) - 3 + 1
    BY <2>1, <2>3, TailBytes, Zenon
  <2>5. soFar + Len(pdu.body) <= total
    BY <2>2, <2>4
  <2>6. pdu.body = <<>> <=> Len(pdu.body) = 0
    BY <2>4, EmptySeq
  <2>7. b # Garbage
    <3>1. Len(Garbage) = 1
      BY DEF Garbage
    <3>2. \A n \in Nat : n >= 2 => n # 1
      OBVIOUS
    <3> QED BY <2>2, <3>1, <3>2, Zenon
  <2>8. pdu.hasBody \in BOOLEAN /\ (pdu.hasBody <=> Len(pdu.body) # 0)
    <3>1. \A n \in Nat : n >= 2 => (n > 2) \in BOOLEAN /\ ((n > 2) <=> n - 3 + 1 # 0)
      OBVIOUS
    <3> QED BY <2>1, <2>2, <2>4, <3>1, Zenon
  <2> QED BY <2>1, <2>4, <2>5, <2>6, <2>7, <2>8, Zenon
<1> QED BY <1>2, <1>3

\* TryAppendBodyFragment: a body that fits is in the buffer.
BodyAppended(t, buffer, body, r) ==
  /\ r.tx \in Transactions /\ r.tx.state = t.state /\ r.tx.max = t.max /\ r.tx.total = t.total
  /\ r.tx.offset = t.offset + Len(body)
  /\ r.buffer \in Buffers /\ (t.max = 0 => r.buffer = buffer)
  /\ t.total <= t.max => SubSeq(r.buffer, 1, r.tx.offset) = SubSeq(buffer, 1, t.offset) \o body

LEMMA AppendedIs ==
  ASSUME NEW t \in Transactions, NEW buffer \in Buffers, NEW pdu, pdu.body \in Seq(Bytes),
         t.offset + Len(pdu.body) <= t.total, ~pdu.hasBody => pdu.body = <<>>,
         NEW r, r = Appended(t, buffer, pdu)
  PROVE  /\ r.err \in {"none", "assertion"} /\ (r.err = "assertion" => pdu.hasBody /\ t.total = 0)
         /\ r.err = "none" => BodyAppended(t, buffer, pdu.body, r)
<1>1. /\ t.state \in TransactionStates /\ t.max \in {0, ScratchBytes} /\ t.opcode \in Nat /\ t.tid \in Nat
      /\ t.iid \in Nat /\ t.status \in Nat /\ t.total \in Nat /\ t.offset \in Nat /\ t.hasBody \in BOOLEAN
  BY Zenon DEF Transactions
<1>2. Len(pdu.body) \in Nat
  BY LenProperties
<1> DEFINE fails == t.total <= t.max /\ t.max = 0 /\ pdu.hasBody
           y == [t EXCEPT !.offset = @ + Len(pdu.body)]
           over == Overwritten(buffer, t.offset, pdu.body)
<1>3. r = IF fails THEN Fail("assertion")
          ELSE [err |-> "none", tx |-> y, buffer |-> IF t.total > t.max THEN buffer ELSE over]
  BY Zenon DEF Appended
<1>4. CASE fails
  <2>1. r.err = "assertion"
    BY <1>3, <1>4 DEF Fail
  <2> QED BY <1>1, <1>4, <2>1
<1>5. CASE ~fails
  <2>1. r.err = "none" /\ r.tx = y /\ r.buffer = (IF t.total > t.max THEN buffer ELSE over)
    <3> HIDE DEF y, over
    <3> QED BY <1>3, <1>5
  <2>2. y \in Transactions /\ y.state = t.state /\ y.max = t.max /\ y.total = t.total
        /\ y.offset = t.offset + Len(pdu.body)
    BY <1>1, <1>2, SMTT(30) DEF Transactions
  <2> HIDE DEF y
  <2>3. /\ over \in Buffers /\ (pdu.body = <<>> => over = buffer)
        /\ t.offset + Len(pdu.body) <= ScratchBytes =>
             SubSeq(over, 1, t.offset + Len(pdu.body)) = SubSeq(buffer, 1, t.offset) \o pdu.body
    BY <1>1, OverwrittenIs, Zenon
  <2> HIDE DEF over
  <2>4. r.buffer \in Buffers
    BY <2>1, <2>3
  <2>5. ASSUME t.max = 0  PROVE  r.buffer = buffer
    BY <1>1, <1>5, <2>1, <2>3, <2>5
  <2>6. ASSUME t.total <= t.max
        PROVE  SubSeq(r.buffer, 1, r.tx.offset) = SubSeq(buffer, 1, t.offset) \o pdu.body
    <3>1. t.offset + Len(pdu.body) <= ScratchBytes /\ r.buffer = over
      BY <1>1, <1>2, <2>1, <2>6
    <3> QED BY <2>1, <2>2, <2>3, <3>1, Zenon
  <2> QED BY <2>1, <2>2, <2>4, <2>5, <2>6, Zenon DEF BodyAppended
<1> QED BY <1>4, <1>5

\* The first fragment of a request
LEMMA InitialWriteIs ==
  ASSUME NEW t \in Transactions, NEW buffer \in Buffers, NEW b \in Seq(Bytes), NEW r, r = InitialWrite(t, buffer, b)
  PROVE  /\ b = Garbage => r.err \notin {"none", "assertion"}
         /\ r.err = "none" =>
              /\ r.tx \in Transactions /\ r.tx.state = "ReadingRequest" /\ r.tx.max = t.max
              /\ r.tx.offset = Len(SubSeq(b, 8, Len(b))) /\ r.tx.offset <= r.tx.total
              /\ r.buffer \in Buffers /\ (t.max = 0 => r.buffer = buffer)
              /\ r.tx.total <= r.tx.max => SubSeq(r.buffer, 1, r.tx.offset) = SubSeq(b, 8, Len(b))
<1>1. PICK pdu : pdu = Deserialize(b)
  OBVIOUS
<1>2. /\ pdu.err \in {"none", "InvalidData"} /\ (b = Garbage => pdu.err # "none")
      /\ pdu.err = "none" /\ pdu.type = Request =>
           /\ pdu.opcode \in Nat /\ pdu.tid \in Nat /\ pdu.iid \in Nat /\ pdu.total \in Nat
           /\ pdu.body = SubSeq(b, 8, Len(b)) /\ pdu.body \in Seq(Bytes) /\ Len(pdu.body) <= pdu.total
           /\ ~pdu.hasBody => pdu.body = <<>>
  BY <1>1, DeserializeIs, Zenon
<1> DEFINE y == [t EXCEPT !.state = "ReadingRequest", !.opcode = pdu.opcode, !.tid = pdu.tid,
                          !.iid = pdu.iid, !.total = pdu.total, !.offset = 0]
<1>3. r = IF pdu.err # "none" THEN Fail(pdu.err)
          ELSE IF pdu.type # Request THEN Fail("InvalidData") ELSE Appended(y, buffer, pdu)
  BY <1>1, Zenon DEF InitialWrite
<1>4. CASE pdu.err # "none"
  <2>1. r = Fail("InvalidData")
    BY <1>2, <1>3, <1>4
  <2> QED BY <2>1 DEF Fail
<1>5. CASE pdu.err = "none" /\ pdu.type # Request
  <2>1. r = Fail("InvalidData")
    BY <1>3, <1>5
  <2> QED BY <2>1 DEF Fail
<1>6. CASE pdu.err = "none" /\ pdu.type = Request
  <2>1. b # Garbage
    BY <1>2, <1>6, Zenon
  <2>2. y \in Transactions /\ y.state = "ReadingRequest" /\ y.max = t.max /\ y.total = pdu.total /\ y.offset = 0
    BY <1>2, <1>6 DEF Transactions, TransactionStates
  <2>3. r = Appended(y, buffer, pdu)
    BY <1>3, <1>6, Zenon
  <2> HIDE DEF y
  <2>4. y.offset + Len(pdu.body) = Len(pdu.body)
    <3>1. Len(pdu.body) \in Nat
      BY <1>2, <1>6, LenProperties
    <3> QED BY <2>2, <3>1
  <2>5. y.offset + Len(pdu.body) <= y.total
    BY <1>2, <1>6, <2>2, <2>4, Zenon
  <2>6. r.err = "none" => BodyAppended(y, buffer, pdu.body, r)
    BY <1>2, <1>6, <2>2, <2>3, <2>5, AppendedIs, Zenon
  <2>7. SubSeq(buffer, 1, y.offset) \o pdu.body = pdu.body
    <3>1. SubSeq(buffer, 1, 0) = <<>>
      BY SubSeqEmpty
    <3>2. <<>> \o pdu.body = pdu.body
      BY <1>2, <1>6, ConcatEmptySeq, Zenon
    <3> QED BY <2>2, <3>1, <3>2, Zenon
  <2>8. ASSUME r.err = "none"
        PROVE  /\ r.tx \in Transactions /\ r.tx.state = "ReadingRequest" /\ r.tx.max = t.max
               /\ r.tx.offset = Len(pdu.body) /\ r.tx.offset <= r.tx.total
               /\ r.buffer \in Buffers /\ (t.max = 0 => r.buffer = buffer)
               /\ r.tx.total <= r.tx.max => SubSeq(r.buffer, 1, r.tx.offset) = pdu.body
    BY <2>2, <2>4, <2>5, <2>6, <2>7, <2>8, Zenon DEF BodyAppended
  <2> QED BY <1>2, <1>6, <2>1, <2>8, Zenon
<1> QED BY <1>4, <1>5, <1>6, Zenon

\* A further fragment
LEMMA ContinuedWriteIs ==
  ASSUME NEW t \in Transactions, NEW buffer \in Buffers, NEW b \in Seq(Bytes), t.offset <= t.total,
         NEW r, r = ContinuedWrite(t, buffer, b, t.total, t.offset)
  PROVE  /\ r.err # "assertion" /\ (b = Garbage => r.err # "none")
         /\ r.err = "none" => BodyAppended(t, buffer, SubSeq(b, 3, Len(b)), r) /\ r.tx.offset <= r.tx.total
<1>0. t.total \in Nat /\ t.offset \in Nat
  BY Zenon DEF Transactions
<1>1. PICK pdu : pdu = DeserializeContinuation(b, Request, t.total, t.offset)
  OBVIOUS
<1>2. /\ pdu.err \in {"none", "InvalidData"} /\ (b = Garbage => pdu.err # "none")
      /\ pdu.err = "none" =>
           /\ pdu.body = SubSeq(b, 3, Len(b)) /\ pdu.body \in Seq(Bytes) /\ t.offset + Len(pdu.body) <= t.total
           /\ pdu.hasBody \in BOOLEAN /\ (pdu.hasBody <=> pdu.body # <<>>)
  BY <1>0, <1>1, ContinuationIs, Zenon
<1>3. r = IF pdu.err # "none" THEN Fail(pdu.err)
          ELSE IF pdu.tid # t.tid THEN Fail("InvalidData") ELSE Appended(t, buffer, pdu)
  BY <1>1, Zenon DEF ContinuedWrite
<1>4. CASE pdu.err # "none" \/ pdu.tid # t.tid
  <2>1. r = Fail("InvalidData")
    BY <1>2, <1>3, <1>4
  <2> QED BY <2>1 DEF Fail
<1>5. CASE pdu.err = "none" /\ pdu.tid = t.tid
  <2>1. r = Appended(t, buffer, pdu)
    BY <1>3, <1>5, Zenon
  <2>2. /\ r.err \in {"none", "assertion"} /\ (r.err = "assertion" => pdu.hasBody /\ t.total = 0)
        /\ r.err = "none" => BodyAppended(t, buffer, pdu.body, r)
    <3>1. pdu.body \in Seq(Bytes) /\ t.offset + Len(pdu.body) <= t.total /\ (~pdu.hasBody => pdu.body = <<>>)
      BY <1>2, <1>5, Zenon
    <3> QED BY <2>1, <3>1, AppendedIs, Zenon
  <2>3. t.total = 0 => pdu.body = <<>>
    <3>1. Len(pdu.body) \in Nat /\ (pdu.body # <<>> => Len(pdu.body) # 0)
      BY <1>2, <1>5, EmptySeq, LenProperties
    <3>2. t.offset + Len(pdu.body) <= t.total
      BY <1>2, <1>5, Zenon
    <3> QED BY <1>0, <3>1, <3>2
  <2>4. r.err # "assertion"
    BY <1>2, <1>5, <2>2, <2>3, Zenon
  <2>5. b # Garbage
    BY <1>2, <1>5, Zenon
  <2>6. pdu.body = SubSeq(b, 3, Len(b)) /\ t.offset + Len(pdu.body) <= t.total
    BY <1>2, <1>5, Zenon
  <2>7. r.err = "none" => r.tx.offset <= r.tx.total
    BY <2>2, <2>6, Zenon DEF BodyAppended
  <2> QED BY <2>2, <2>4, <2>5, <2>6, <2>7, Zenon
<1> QED BY <1>4, <1>5, Zenon

\* HAPBLETransactionHandleWrite
FragmentTaken(t, buffer, b, r) ==
  /\ r.tx \in Transactions /\ r.tx.max = t.max
  /\ r.buffer \in Buffers /\ (t.max = 0 => r.buffer = buffer)
  /\ t.state # "WritingResponse"
  /\ t.state = "WaitingForInitialWrite" =>
       /\ r.tx.state = "ReadingRequest"
       /\ r.tx.offset = Len(SubSeq(b, 8, Len(b))) /\ r.tx.offset <= r.tx.total
       /\ r.tx.total <= r.tx.max => SubSeq(r.buffer, 1, r.tx.offset) = SubSeq(b, 8, Len(b))
  /\ t.state = "ReadingRequest" =>
       BodyAppended(t, buffer, SubSeq(b, 3, Len(b)), r) /\ r.tx.offset <= r.tx.total
  /\ t.state \in {"HandlingRequest", "WaitingForInitialRead"} => r.tx = t /\ r.buffer = buffer

LEMMA TransactionWriteIs ==
  ASSUME NEW t \in Transactions, NEW buffer \in Buffers, NEW b \in Seq(Bytes),
         t.state = "ReadingRequest" => t.offset <= t.total,
         NEW r, r = TransactionWrite(t, buffer, b)
  PROVE  /\ r.err = "assertion" => t.state = "WaitingForInitialWrite"
         /\ b = Garbage => r.err \notin {"none", "assertion"}
         /\ r.err = "none" => FragmentTaken(t, buffer, b, r)
<1>1. t.state \in TransactionStates
  BY Zenon DEF Transactions
<1>2. CASE t.state = "WaitingForInitialWrite"
  <2>1. r = InitialWrite(t, buffer, b)
    BY <1>2 DEF TransactionWrite
  <2>2. t.state \notin {"ReadingRequest", "HandlingRequest", "WaitingForInitialRead", "WritingResponse"}
    BY <1>2
  <2>3. /\ b = Garbage => r.err \notin {"none", "assertion"}
        /\ r.err = "none" =>
             /\ r.tx \in Transactions /\ r.tx.state = "ReadingRequest" /\ r.tx.max = t.max
             /\ r.tx.offset = Len(SubSeq(b, 8, Len(b))) /\ r.tx.offset <= r.tx.total
             /\ r.buffer \in Buffers /\ (t.max = 0 => r.buffer = buffer)
             /\ r.tx.total <= r.tx.max => SubSeq(r.buffer, 1, r.tx.offset) = SubSeq(b, 8, Len(b))
    BY <2>1, InitialWriteIs, Zenon
  <2>4. t.state # "ReadingRequest" /\ t.state # "WritingResponse"
    BY <2>2, Zenon
  <2> QED BY <1>2, <2>2, <2>3, <2>4, Zenon DEF FragmentTaken
<1>3. CASE t.state = "ReadingRequest"
  <2>1. r = ContinuedWrite(t, buffer, b, t.total, t.offset)
    BY <1>3 DEF TransactionWrite
  <2>2. t.state \notin {"WaitingForInitialWrite", "HandlingRequest", "WaitingForInitialRead", "WritingResponse"}
    BY <1>3
  <2>3. t.offset <= t.total
    BY <1>3
  <2>4. /\ r.err # "assertion" /\ (b = Garbage => r.err # "none")
        /\ r.err = "none" => BodyAppended(t, buffer, SubSeq(b, 3, Len(b)), r) /\ r.tx.offset <= r.tx.total
    BY <2>1, <2>3, ContinuedWriteIs, Zenon
  <2>5. t.state # "WaitingForInitialWrite" /\ t.state # "WritingResponse" /\ (b = Garbage => r.err \notin {"none", "assertion"})
    BY <2>2, <2>4, Zenon
  <2>6. r.err = "none" => r.tx \in Transactions /\ r.tx.max = t.max /\ r.buffer \in Buffers /\ (t.max = 0 => r.buffer = buffer)
    BY <2>4, Zenon DEF BodyAppended
  <2> QED BY <1>3, <2>2, <2>4, <2>5, <2>6, Zenon DEF FragmentTaken
<1>4. CASE t.state \in {"HandlingRequest", "WaitingForInitialRead"}
  <2> DEFINE x == ContinuedWrite(t, buffer, b, 0, 0)
             pdu == DeserializeContinuation(b, Request, 0, 0)
  <2>1. r = IF x.err # "none" THEN x ELSE [x EXCEPT !.tx = t, !.buffer = buffer]
    BY <1>4 DEF TransactionWrite
  <2>2. /\ pdu.err \in {"none", "InvalidData"} /\ (b = Garbage => pdu.err # "none")
        /\ pdu.err = "none" => 0 + Len(pdu.body) <= 0 /\ pdu.body \in Seq(Bytes) /\ (pdu.hasBody <=> pdu.body # <<>>)
    <3>1. 0 \in Nat
      OBVIOUS
    <3> QED BY <3>1, ContinuationIs, Zenon
  <2>3. x = IF pdu.err # "none" THEN Fail(pdu.err)
            ELSE IF pdu.tid # t.tid THEN Fail("InvalidData") ELSE Appended(t, buffer, pdu)
    BY Zenon DEF ContinuedWrite
  <2> HIDE DEF x, pdu
  <2>4. CASE pdu.err # "none" \/ pdu.tid # t.tid
    <3>1. x = Fail("InvalidData")
      BY <2>2, <2>3, <2>4
    <3>2. x.err = "InvalidData"
      BY <3>1 DEF Fail
    <3>3. r.err = "InvalidData"
      BY <2>1, <3>2
    <3> QED BY <3>3
  <2>5. CASE pdu.err = "none" /\ pdu.tid = t.tid
    <3>1. x = Appended(t, buffer, pdu)
      BY <2>3, <2>5, Zenon
    <3>2. ~pdu.hasBody
      <4>1. pdu.body # <<>> => Len(pdu.body) \in Nat \ {0}
        BY <2>2, <2>5, EmptySeq
      <4>2. 0 + Len(pdu.body) <= 0 /\ (pdu.hasBody <=> pdu.body # <<>>)
        BY <2>2, <2>5, Zenon
      <4>3. \A n \in Nat \ {0} : ~(0 + n <= 0)
        OBVIOUS
      <4> QED BY <4>1, <4>2, <4>3, Zenon
    <3>3. \E e, f : x = [err |-> "none", tx |-> e, buffer |-> f]
      BY <3>1, <3>2, Zenon DEF Appended
    <3>4. PICK e, f : x = [err |-> "none", tx |-> e, buffer |-> f]
      BY <3>3
    <3>5. x.err = "none"
      BY <3>4
    <3>6. r = [x EXCEPT !.tx = t, !.buffer = buffer]
      BY <2>1, <3>5, Zenon
    <3>7. r.err = "none" /\ r.tx = t /\ r.buffer = buffer
      BY <3>4, <3>6
    <3>8. b # Garbage
      BY <2>2, <2>5, Zenon
    <3>9. t.state \notin {"WaitingForInitialWrite", "ReadingRequest", "WritingResponse"} /\ r.err # "assertion"
      BY <1>4, <3>7
    <3> QED BY <3>7, <3>8, <3>9, Zenon DEF FragmentTaken
  <2> QED BY <2>4, <2>5, Zenon
<1>5. CASE t.state = "WritingResponse"
  <2>1. r = Fail("InvalidState")
    BY <1>5 DEF TransactionWrite
  <2> QED BY <2>1 DEF Fail
<1> QED BY <1>1, <1>2, <1>3, <1>4, <1>5, Zenon DEF TransactionStates

-----------------------------------------------------------------------------
(* A write to the procedure *)

\* The first write starts the procedure, sealed as the session is once it has been dropped.
Startable(v) == Kept(v) /\ Idle(v) /\ v.attached \in Characteristics

LEMMA BeginKept ==
  ASSUME NEW v, Startable(v), ~v.timer,
         NEW u, u = [v EXCEPT !.startedSecured = IsSecured(v), !.timer = TRUE]
  PROVE  Startable(u) /\ u.timer = TRUE /\ u.tx.state = "WaitingForInitialWrite" /\ u.attached = v.attached
<1>1. /\ Changed(v, u, {"startedSecured", "timer"}) /\ u.startedSecured = IsSecured(v) /\ u.timer = TRUE
  BY DEF Startable, Kept, Session, Changed, Fields
<1>2. /\ u.state = v.state /\ u.attached = v.attached /\ u.multi = v.multi /\ u.stored = v.stored
      /\ u.tx = v.tx /\ u.scratch = v.scratch /\ u.asked = v.asked /\ u.prepared = v.prepared
      /\ u.handled = v.handled /\ u.sent = v.sent /\ u.received = v.received /\ u.pending = v.pending
  BY <1>1 DEF Changed, Fields
<1>3. SameSession(v, u)
  <2>1. Changed(v, u, OtherFields)
    BY <1>1 DEF Changed, OtherFields
  <2> QED BY <2>1, SessionUnchanged, Zenon DEF Startable, Kept
<1>4. v.tx.state = "WaitingForInitialWrite" /\ ~v.multi
  <2>1. v.attached # Unattached
    BY PeripheralManagerAssumption, Zenon DEF Startable
  <2> QED BY <2>1, Zenon DEF Startable, Kept, Timed
<1>5. ServerTypes(u) /\ Timed(u)
  BY <1>1, <1>2, <1>3, Zenon DEF Startable, Idle, Kept, SameSession, ServerTypes, Timed
<1>6. ProcedureTypes(u)
  <2>1. u.startedSecured \in BOOLEAN
    BY <1>1, Zenon DEF Startable, Kept, Session, SessionTypes, IsSecured
  <2>2. u.timer \in BOOLEAN
    BY <1>1, Zenon
  <2> QED BY <1>2, <2>1, <2>2, Zenon DEF Startable, Kept, ProcedureTypes
<1>7. Sealing(u)
  BY <1>1, <1>2, <1>3, <1>4, Zenon DEF Sealing, SameSession
<1>8. RequestBuffered(u) /\ PreparedBuffered(u) /\ ResponseBuffered(u)
  <2>1. RequestBuffered(u)
    BY <1>2, <1>4 DEF RequestBuffered
  <2>2. PreparedBuffered(u)
    BY <1>2, <1>4, Zenon DEF PreparedBuffered
  <2>3. ResponseBuffered(u)
    BY <1>2, <1>4 DEF ResponseBuffered
  <2> QED BY <2>1, <2>2, <2>3
<1>9. HandledSound(u) /\ SentSound(u)
  BY <1>2, <1>3, Zenon DEF Startable, Kept, SameSession, HandledSound, SentSound
<1>10. Kept(u) /\ Idle(u)
  BY <1>2, <1>3, <1>5, <1>6, <1>7, <1>8, <1>9, Zenon DEF Kept, SameSession, Startable, Idle
<1> QED BY <1>1, <1>2, <1>4, <1>10, Zenon DEF Startable

LEMMA StartKept ==
  ASSUME NEW v, Startable(v), ~v.timer, NEW u, u = StartProcedure(v)
  PROVE  Startable(u) /\ u.timer = TRUE /\ u.tx.state = "WaitingForInitialWrite" /\ u.attached = v.attached
<1> DEFINE drops == IsSecured(v) /\ Db[v.attached].dropsSecurity
           y == Invalidate(v, FALSE)
           x == IF drops THEN Reset(y) ELSE v
           z == [x EXCEPT !.startedSecured = IsSecured(x), !.timer = TRUE]
<1>1. u = DidStartBLEProcedure(z)
  BY Zenon DEF StartProcedure
<1>2. Startable(x) /\ ~x.timer /\ x.attached = v.attached
  <2>1. CASE drops
    <3>1. Kept(y) /\ Rest(v, y)
      <4>1. FALSE \in BOOLEAN
        OBVIOUS
      <4> QED BY <4>1, KeptIsSession, InvalidateStep, KeptBySession, Zenon DEF Startable
    <3>2. y.connected /\ y.attached = v.attached /\ y.handled = v.handled /\ y.sent = v.sent
      BY <3>1, Zenon DEF Rest, Startable, Idle
    <3>3. x = Attach(Destroy(y), v.attached)
      BY <2>1, <3>2, Zenon DEF Reset
    <3>4. v.attached \in Characteristics \cup {Unattached}
      BY Zenon DEF Startable
    <3> HIDE DEF x, y
    <3>5. /\ Kept(x) /\ Changed(y, x, {"attached", "tx", "multi", "stored", "startedSecured", "timer"})
          /\ x.attached = v.attached /\ x.timer = FALSE
      BY <3>1, <3>2, <3>3, <3>4, AttachKept, Zenon
    <3>6. x.connected = y.connected /\ x.handled = y.handled /\ x.sent = y.sent
      BY <3>5 DEF Changed, Fields
    <3> QED BY <3>2, <3>5, <3>6, Zenon DEF Startable, Idle
  <2>2. CASE ~drops
    BY <2>2, Zenon
  <2> QED BY <2>1, <2>2
<1> HIDE DEF x
<1>3. Startable(z) /\ z.timer = TRUE /\ z.tx.state = "WaitingForInitialWrite" /\ z.attached = x.attached
  BY <1>2, BeginKept, Zenon
<1> HIDE DEF z
<1>4. Kept(u) /\ Rest(z, u)
  BY <1>1, <1>3, TimersKept, Zenon DEF Startable
<1> QED BY <1>2, <1>3, <1>4, Zenon DEF Startable, Idle, Rest

\* What the central has asked, once its packet is taken
AskedAs(v, packet, first) ==
  IF first THEN [v EXCEPT !.asked = [body |-> SubSeq(packet.bytes, 8, Len(packet.bytes)), sealed |-> packet.sealed],
                          !.received = <<>>]
  ELSE [v EXCEPT !.asked.body = @ \o SubSeq(packet.bytes, 3, Len(packet.bytes))]

WritePackets == [bytes : Seq(Bytes), sealed : BOOLEAN]
Opened(v, packet) == IF v.startedSecured THEN DecryptControlMessage(v, packet) ELSE Plaintext(packet)

AskedSound(v, u, b, sealed, first) ==
  /\ Changed(v, u, {"asked", "received"}) /\ u.asked \in Messages /\ u.received \in Seq({ResponseByte})
  /\ first => u.asked.body = SubSeq(b, 8, Len(b)) /\ u.asked.sealed = sealed
  /\ ~first => /\ u.asked.body = v.asked.body \o SubSeq(b, 3, Len(b))
               /\ Len(u.asked.body) = Len(v.asked.body) + Len(SubSeq(b, 3, Len(b)))
               /\ u.asked.sealed = v.asked.sealed

LEMMA AskedIs ==
  ASSUME NEW v, Session(v), v.asked \in Messages, v.received \in Seq({ResponseByte}), NEW packet \in WritePackets,
         NEW first \in BOOLEAN, NEW u, u = AskedAs(v, packet, first)
  PROVE  AskedSound(v, u, packet.bytes, packet.sealed, first)
<1>1. PICK b : b = packet.bytes
  OBVIOUS
<1>2. b \in Seq(Bytes) /\ packet.sealed \in BOOLEAN
  BY <1>1, Zenon DEF WritePackets
<1>3. PICK p, q : p = SubSeq(b, 8, Len(b)) /\ q = SubSeq(b, 3, Len(b))
  OBVIOUS
<1>4. p \in Seq(Bytes) /\ q \in Seq(Bytes)
  <2>1. 8 \in Nat \ {0} /\ 3 \in Nat \ {0}
    OBVIOUS
  <2> QED BY <1>2, <1>3, <2>1, SomeBytes, Zenon
<1>5. CASE first
  <2>1. u = [v EXCEPT !.asked = [body |-> p, sealed |-> packet.sealed], !.received = <<>>]
    BY <1>1, <1>3, <1>5, Zenon DEF AskedAs
  <2>2. /\ Changed(v, u, {"asked", "received"}) /\ u.asked = [body |-> p, sealed |-> packet.sealed]
        /\ u.received = <<>>
    BY <2>1 DEF Session, Changed, Fields
  <2>3. u.asked \in Messages
    BY <1>2, <1>4, <2>2 DEF Messages
  <2>4. <<>> \in Seq({ResponseByte})
    OBVIOUS
  <2>5. u.asked.body = p /\ u.asked.sealed = packet.sealed
    BY <2>2
  <2> QED BY <1>1, <1>3, <1>5, <2>2, <2>3, <2>4, <2>5, Zenon DEF AskedSound
<1>6. CASE ~first
  <2>1. u = [v EXCEPT !.asked.body = @ \o q]
    BY <1>1, <1>3, <1>6, Zenon DEF AskedAs
  <2>2. v.asked.body \in Seq(Bytes) /\ v.asked.sealed \in BOOLEAN
    BY Zenon DEF Messages
  <2>3. PICK x : x = v.asked.body \o q
    OBVIOUS
  <2>4. x \in Seq(Bytes) /\ Len(x) = Len(v.asked.body) + Len(q)
    BY <1>4, <2>2, <2>3, ConcatProperties, Zenon
  <2>5. /\ Changed(v, u, {"asked", "received"}) /\ u.received = v.received
        /\ u.asked = [v.asked EXCEPT !.body = x]
    <3>1. PICK a : a = [v.asked EXCEPT !.body = x]
      OBVIOUS
    <3>2. u = [v EXCEPT !.asked = a]
      <4>1. u = [v EXCEPT !.asked = [v.asked EXCEPT !.body = v.asked.body \o q]]
        BY <2>1
      <4> QED BY <2>3, <3>1, <4>1, Zenon
    <3>3. Changed(v, u, {"asked", "received"}) /\ u.received = v.received /\ u.asked = a
      BY <3>2 DEF Session, Changed, Fields
    <3> QED BY <3>1, <3>3, Zenon
  <2>6. u.asked.body = x /\ u.asked.sealed = v.asked.sealed /\ u.asked \in Messages
    BY <2>2, <2>4, <2>5 DEF Messages
  <2> QED BY <1>1, <1>3, <1>6, <2>3, <2>4, <2>5, <2>6, Zenon DEF AskedSound
<1> QED BY <1>5, <1>6

\* What is taken is sealed as the procedure was started.
LEMMA OpenedIs ==
  ASSUME NEW v, v.startedSecured \in BOOLEAN, NEW packet \in WritePackets, NEW d, d = Opened(v, packet), d.err = "none"
  PROVE  d.bytes = Garbage \/ (d.bytes = packet.bytes /\ packet.sealed = v.startedSecured)
<1>1. packet.sealed \in BOOLEAN
  BY Zenon DEF WritePackets
<1>2. CASE v.startedSecured
  <2>1. d = DecryptControlMessage(v, packet)
    BY <1>2, Zenon DEF Opened
  <2>2. CASE packet.sealed /\ v.active
    BY <1>2, <2>1, <2>2 DEF DecryptControlMessage
  <2>3. CASE ~(packet.sealed /\ v.active)
    <3>1. d.err # "none"
      BY <2>1, <2>3 DEF DecryptControlMessage
    <3> QED BY <3>1
  <2> QED BY <2>2, <2>3
<1>3. CASE ~v.startedSecured
  BY <1>1, <1>3 DEF Opened, Plaintext
<1> QED BY <1>2, <1>3

LEMMA ResponseKept ==
  ASSUME NEW v, NEW u, ResponseBuffered(v), u.tx = v.tx, u.scratch = v.scratch
  PROVE  ResponseBuffered(u)
BY Zenon DEF ResponseBuffered

\* The fragment of a request is in the buffer, as the central has asked.
LEMMA FragmentKept ==
  ASSUME NEW y, Startable(y), y.timer, NEW packet \in WritePackets,
         NEW d, d = Opened(y, packet), d.err = "none",
         NEW t, t = TransactionWrite(y.tx, y.scratch, d.bytes), t.err = "none",
         NEW first \in BOOLEAN, first <=> y.tx.state = "WaitingForInitialWrite",
         NEW z, z = AskedAs([y EXCEPT !.tx = t.tx, !.scratch = t.buffer], packet, first)
  PROVE  Kept(z)
<1> DEFINE x == [y EXCEPT !.tx = t.tx, !.scratch = t.buffer]
<1>1. y.tx \in Transactions /\ y.scratch \in Buffers /\ y.startedSecured \in BOOLEAN
      /\ y.asked \in Messages /\ y.received \in Seq({ResponseByte})
  BY Zenon DEF Startable, Kept, ProcedureTypes, Buffers
<1>2. PICK b \in Seq(Bytes) : b = packet.bytes
  BY Zenon DEF WritePackets
<1>3. d.bytes = b /\ packet.sealed = y.startedSecured
  <2>1. d.bytes \in Seq(Bytes) /\ (d.bytes = Garbage \/ (d.bytes = b /\ packet.sealed = y.startedSecured))
    <3>1. Garbage \in Seq(Bytes)
      BY DEF Garbage, Bytes
    <3>2. d.bytes = Garbage \/ (d.bytes = b /\ packet.sealed = y.startedSecured)
      <4>1. d.bytes = Garbage \/ (d.bytes = packet.bytes /\ packet.sealed = y.startedSecured)
        BY <1>1, OpenedIs
      <4> QED BY <1>2, <4>1, Zenon
    <3> QED BY <3>1, <3>2
  <2>2. y.tx.state = "ReadingRequest" => y.tx.offset <= y.tx.total
    BY Zenon DEF Startable, Kept, RequestBuffered
  <2>3. d.bytes # Garbage
    BY <1>1, <2>1, <2>2, TransactionWriteIs, Zenon
  <2> QED BY <2>1, <2>3
<1>4. FragmentTaken(y.tx, y.scratch, b, t)
  <2>1. y.tx.state = "ReadingRequest" => y.tx.offset <= y.tx.total
    BY Zenon DEF Startable, Kept, RequestBuffered
  <2> QED BY <1>1, <1>3, <2>1, TransactionWriteIs, Zenon
<1>5. Changed(y, x, {"tx", "scratch"}) /\ x.tx = t.tx /\ x.scratch = t.buffer
  BY DEF Startable, Kept, Session, Changed, Fields
<1>6. Session(x) /\ x.asked = y.asked /\ x.received = y.received
  <2>1. Changed(y, x, OtherFields)
    BY <1>5 DEF Changed, OtherFields
  <2>2. x.asked = y.asked /\ x.received = y.received
    BY <1>5 DEF Changed, Fields
  <2> QED BY <2>1, <2>2, SessionUnchanged, ZenonT(120) DEF SameSession, Startable, Kept
<1> HIDE DEF x
<1>7. AskedSound(x, z, b, packet.sealed, first)
  <2>1. z = AskedAs(x, packet, first) /\ x.asked \in Messages /\ x.received \in Seq({ResponseByte})
    BY <1>1, <1>6, Zenon DEF x
  <2>2. AskedSound(x, z, packet.bytes, packet.sealed, first)
    BY <1>6, <2>1, AskedIs, Zenon
  <2> QED BY <1>2, <2>2, Zenon
<1>8. Changed(y, z, {"tx", "scratch", "asked", "received"}) /\ z.tx = t.tx /\ z.scratch = t.buffer
  <2>1. Changed(x, z, {"asked", "received"})
    BY <1>7, Zenon DEF AskedSound
  <2>2. z.tx = x.tx /\ z.scratch = x.scratch
    BY <2>1, ZenonT(60) DEF Changed, Fields
  <2>3. Changed(y, z, {"tx", "scratch", "asked", "received"})
    <3>1. DOMAIN z = Fields
      BY <2>1, Zenon DEF Changed
    <3>2. ASSUME NEW f \in Fields \ {"tx", "scratch", "asked", "received"}
          PROVE  z[f] = y[f]
      <4>1. f \in Fields \ {"asked", "received"} /\ f \in Fields \ {"tx", "scratch"}
        BY <3>2, Zenon
      <4>2. z[f] = x[f]
        BY <2>1, <4>1, Zenon DEF Changed
      <4>3. x[f] = y[f]
        BY <1>5, <4>1, Zenon DEF Changed
      <4> QED BY <4>2, <4>3
    <3> QED BY <3>1, <3>2, Zenon DEF Changed
  <2> QED BY <1>5, <2>2, <2>3, Zenon
<1>9. /\ z.state = y.state /\ z.attached = y.attached /\ z.multi = y.multi /\ z.stored = y.stored
      /\ z.timer = y.timer /\ z.startedSecured = y.startedSecured /\ z.prepared = y.prepared
      /\ z.handled = y.handled /\ z.sent = y.sent /\ z.pending = y.pending
  BY <1>8, ZenonT(60) DEF Changed, Fields
<1>10. SameSession(y, z)
  <2>1. Changed(y, z, OtherFields)
    BY <1>8 DEF Changed, OtherFields
  <2> QED BY <2>1, SessionUnchanged, Zenon DEF Startable, Kept
<1>11. ServerTypes(z) /\ Timed(z)
  BY <1>9, <1>10, Zenon DEF Startable, Idle, Kept, SameSession, ServerTypes, Timed
<1>12. ProcedureTypes(z)
  BY <1>4, <1>7, <1>8, <1>9, Zenon DEF Startable, Kept, ProcedureTypes, Buffers, FragmentTaken, AskedSound
<1>13. y.tx.state \in {"WaitingForInitialWrite", "ReadingRequest", "HandlingRequest", "WaitingForInitialRead"}
  BY <1>1, <1>4, Zenon DEF Transactions, TransactionStates, FragmentTaken
<1>14. Sealing(z)
  <2>1. z.asked.sealed = z.startedSecured
    <3>1. CASE first
      <4>1. z.asked.sealed = packet.sealed
        BY <1>7, <3>1, Zenon DEF AskedSound
      <4> QED BY <1>3, <1>9, <4>1, Zenon
    <3>2. CASE ~first
      <4>1. z.asked.sealed = y.asked.sealed
        BY <1>6, <1>7, <3>2, Zenon DEF AskedSound
      <4>2. y.asked.sealed = y.startedSecured
        BY <3>2, Zenon DEF Startable, Kept, Sealing
      <4> QED BY <1>9, <4>1, <4>2, Zenon
    <3> QED BY <3>1, <3>2
  <2>2. z.tx.state \in {"WaitingForInitialWrite", "ReadingRequest"} =>
          y.tx.state \in {"WaitingForInitialWrite", "ReadingRequest"}
    BY <1>4, <1>8, <1>13, Zenon DEF FragmentTaken
  <2>3. Sealing(y)
    BY Zenon DEF Startable, Kept
  <2> QED BY <1>9, <1>10, <2>1, <2>2, <2>3, Zenon DEF Sealing, SameSession
<1>15. RequestBuffered(z)
  <2>1. SUFFICES ASSUME z.tx.state = "ReadingRequest"
                 PROVE  /\ z.tx.offset = Len(z.asked.body) /\ z.tx.offset <= z.tx.total
                        /\ z.tx.total <= z.tx.max => z.asked.body = SubSeq(z.scratch, 1, z.tx.offset)
    BY Zenon DEF RequestBuffered
  <2>2. CASE y.tx.state = "WaitingForInitialWrite"
    BY <1>4, <1>7, <1>8, <2>2, Zenon DEF FragmentTaken, AskedSound
  <2>3. CASE y.tx.state = "ReadingRequest"
    <3>1. ~first
      BY <2>3
    <3>2. /\ y.tx.offset = Len(y.asked.body)
          /\ y.tx.total <= y.tx.max => y.asked.body = SubSeq(y.scratch, 1, y.tx.offset)
      BY <2>3, Zenon DEF Startable, Kept, RequestBuffered
    <3>3. BodyAppended(y.tx, y.scratch, SubSeq(b, 3, Len(b)), t) /\ t.tx.offset <= t.tx.total
      BY <1>4, <2>3, Zenon DEF FragmentTaken
    <3>4. /\ t.tx.total = y.tx.total /\ t.tx.max = y.tx.max
          /\ t.tx.offset = y.tx.offset + Len(SubSeq(b, 3, Len(b)))
          /\ y.tx.total <= y.tx.max =>
               SubSeq(t.buffer, 1, t.tx.offset) = SubSeq(y.scratch, 1, y.tx.offset) \o SubSeq(b, 3, Len(b))
      BY <3>3, Zenon DEF BodyAppended
    <3>5. /\ z.asked.body = y.asked.body \o SubSeq(b, 3, Len(b))
          /\ Len(z.asked.body) = Len(y.asked.body) + Len(SubSeq(b, 3, Len(b)))
      BY <1>6, <1>7, <3>1, Zenon DEF AskedSound
    <3>6. t.tx.offset = Len(z.asked.body)
      BY <3>2, <3>4, <3>5, Zenon
    <3>7. t.tx.total <= t.tx.max => z.asked.body = SubSeq(t.buffer, 1, t.tx.offset)
      BY <3>2, <3>4, <3>5, Zenon
    <3> QED BY <1>8, <3>3, <3>6, <3>7, Zenon
  <2>4. CASE y.tx.state \in {"HandlingRequest", "WaitingForInitialRead"}
    <3>1. z.tx = y.tx
      BY <1>4, <1>8, <2>4, Zenon DEF FragmentTaken
    <3> QED BY <2>1, <2>4, <3>1
  <2> QED BY <1>13, <2>2, <2>3, <2>4, Zenon
<1>16. PreparedBuffered(z)
  <2>1. PreparedBuffered(y)
    BY Zenon DEF Startable, Kept
  <2>2. z.tx.max = y.tx.max
    BY <1>4, <1>8, Zenon DEF FragmentTaken
  <2>3. CASE y.tx.state \in {"HandlingRequest", "WaitingForInitialRead"}
    <3>1. z.tx = y.tx /\ z.scratch = y.scratch
      BY <1>4, <1>8, <2>3, Zenon DEF FragmentTaken
    <3> QED BY <1>9, <2>1, <3>1, ZenonT(60) DEF PreparedBuffered
  <2>4. CASE y.tx.state \in {"WaitingForInitialWrite", "ReadingRequest"}
    <3>1. y.multi => y.tx.max = 0
      BY <2>1, <2>4, Zenon DEF PreparedBuffered
    <3>2. y.multi => z.scratch = y.scratch
      BY <1>4, <1>8, <3>1, Zenon DEF FragmentTaken
    <3> QED BY <1>9, <2>1, <2>2, <3>1, <3>2, Zenon DEF PreparedBuffered
  <2> QED BY <1>13, <2>3, <2>4, Zenon
<1>17. ResponseBuffered(z)
  <2>1. CASE y.tx.state \in {"HandlingRequest", "WaitingForInitialRead"}
    <3>1. z.tx = y.tx /\ z.scratch = y.scratch
      BY <1>4, <1>8, <2>1, Zenon DEF FragmentTaken
    <3>2. ResponseBuffered(y)
      BY Zenon DEF Startable, Kept
    <3> QED BY <3>1, <3>2, ResponseKept, Zenon
  <2>2. CASE y.tx.state \in {"WaitingForInitialWrite", "ReadingRequest"}
    <3>1. z.tx.state = "ReadingRequest"
      BY <1>4, <1>8, <2>2, Zenon DEF BodyAppended, FragmentTaken
    <3> QED BY <3>1 DEF ResponseBuffered
  <2> QED BY <1>13, <2>1, <2>2, Zenon
<1>18. HandledSound(z) /\ SentSound(z)
  BY <1>9 DEF Startable, Idle, HandledSound, SentSound, Unhandled
<1> QED BY <1>10, <1>11, <1>12, <1>14, <1>15, <1>16, <1>17, <1>18, Zenon DEF Kept, SameSession

\* Responses and events after the packet are no matter.
LEMMA TimersEventsKept ==
  ASSUME NEW v, Kept(v), NEW u, Changed(v, u, {"safe", "safeTimer", "pending", "queued"}),
         u.pending \subseteq Characteristics
  PROVE  Kept(u)
<1>1. PICK t : t = [v EXCEPT !.safe = u.safe, !.safeTimer = u.safeTimer]
  OBVIOUS
<1>2. Changed(v, t, {"safe", "safeTimer"}) /\ t.safe = u.safe /\ t.safeTimer = u.safeTimer
  BY <1>1 DEF Kept, Session, Changed, Fields
<1>3. Changed(t, u, {"fallback", "pending", "queued"})
  BY <1>2 DEF Changed, Fields
<1>4. TimerStep(v, t)
  <2>1. t.link = v.link /\ t.verify = v.verify /\ t.removing = v.removing
    BY <1>2 DEF Changed, Fields
  <2>2. Changed(v, t, TimerFields)
    BY <1>2 DEF Changed, TimerFields
  <2> QED BY <2>1, <2>2, Zenon DEF TimerStep, Kept, Session, SessionTypes
<1>5. Kept(t)
  BY <1>4, KeptIsSession, TimerStepIsSessionStep, KeptBySession, Zenon
<1> QED BY <1>3, <1>5, EventsKept, Zenon

LEMMA FollowsAsked ==
  ASSUME NEW v, DOMAIN v = Fields, NEW u, Changed(v, u, {"safe", "safeTimer", "pending", "queued"}),
         NEW packet, NEW first \in BOOLEAN,
         NEW x, x = AskedAs(v, packet, first), NEW z, z = AskedAs(u, packet, first)
  PROVE  /\ Changed(x, z, {"safe", "safeTimer", "pending", "queued"}) /\ Changed(u, z, {"asked", "received"})
<1>1. u.asked = v.asked /\ u.received = v.received /\ DOMAIN u = Fields
  BY DEF Changed, Fields
<1>2. PICK p, q : p = SubSeq(packet.bytes, 8, Len(packet.bytes)) /\ q = SubSeq(packet.bytes, 3, Len(packet.bytes))
  OBVIOUS
<1>3. CASE first
  <2>1. PICK a : a = [body |-> p, sealed |-> packet.sealed]
    OBVIOUS
  <2>2. x = [v EXCEPT !.asked = a, !.received = <<>>] /\ z = [u EXCEPT !.asked = a, !.received = <<>>]
    BY <1>2, <1>3, <2>1, Zenon DEF AskedAs
  <2> QED BY <1>1, <2>2, ZenonT(60) DEF Changed, Fields
<1>4. CASE ~first
  <2>1. PICK a : a = [v.asked EXCEPT !.body = v.asked.body \o q]
    OBVIOUS
  <2>2. x = [v EXCEPT !.asked = a]
    <3>1. x = [v EXCEPT !.asked.body = @ \o q]
      BY <1>2, <1>4, Zenon DEF AskedAs
    <3>2. x = [v EXCEPT !.asked = [v.asked EXCEPT !.body = v.asked.body \o q]]
      BY <3>1
    <3> QED BY <2>1, <3>2, Zenon
  <2>3. z = [u EXCEPT !.asked = a]
    <3>1. z = [u EXCEPT !.asked.body = @ \o q]
      BY <1>2, <1>4, Zenon DEF AskedAs
    <3>2. z = [u EXCEPT !.asked = [u.asked EXCEPT !.body = u.asked.body \o q]]
      BY <3>1
    <3> QED BY <1>1, <2>1, <3>2, Zenon
  <2> QED BY <1>1, <2>2, <2>3 DEF Changed, Fields
<1> QED BY <1>3, <1>4

\* A packet that finds nothing to ask, in a procedure that has just begun
LEMMA AskedInVain ==
  ASSUME NEW y, Startable(y), y.tx.state = "WaitingForInitialWrite", NEW packet \in WritePackets,
         NEW z, z = AskedAs(y, packet, TRUE)
  PROVE  Kept(z)
<1>1. AskedSound(y, z, packet.bytes, packet.sealed, TRUE)
  <2>1. Session(y) /\ y.asked \in Messages /\ y.received \in Seq({ResponseByte}) /\ TRUE \in BOOLEAN
    BY Zenon DEF Startable, Kept, ProcedureTypes
  <2> QED BY <2>1, AskedIs, Zenon
<1>2. Changed(y, z, {"asked", "received"}) /\ z.asked \in Messages /\ z.received \in Seq({ResponseByte})
  BY <1>1, Zenon DEF AskedSound
<1>3. /\ z.state = y.state /\ z.attached = y.attached /\ z.multi = y.multi /\ z.stored = y.stored
      /\ z.timer = y.timer /\ z.startedSecured = y.startedSecured /\ z.prepared = y.prepared
      /\ z.handled = y.handled /\ z.sent = y.sent /\ z.pending = y.pending
      /\ z.tx = y.tx /\ z.scratch = y.scratch
  BY <1>2 DEF Changed, Fields
<1>4. SameSession(y, z)
  <2>1. Changed(y, z, OtherFields)
    BY <1>2 DEF Changed, OtherFields
  <2> QED BY <2>1, SessionUnchanged, Zenon DEF Startable, Kept
<1>5. ServerTypes(z) /\ Timed(z) /\ ProcedureTypes(z)
  BY <1>2, <1>3, <1>4, Zenon DEF Startable, Kept, SameSession, ServerTypes, Timed, ProcedureTypes
<1>6. Sealing(z)
  BY <1>3, <1>4, Zenon DEF Startable, Kept, SameSession, Sealing
<1>7. RequestBuffered(z)
  BY <1>3 DEF RequestBuffered
<1>8. PreparedBuffered(z)
  <2>1. PreparedBuffered(y)
    BY Zenon DEF Startable, Kept
  <2> QED BY <1>3, <2>1, Zenon DEF PreparedBuffered
<1>9. ResponseBuffered(z)
  BY <1>3 DEF ResponseBuffered
<1>10. HandledSound(z) /\ SentSound(z)
  <2>1. z.handled = Unhandled /\ z.sent = Unsent
    BY <1>3, Zenon DEF Startable, Idle
  <2>2. ~Unhandled.on
    BY DEF Unhandled
  <2> QED BY <2>1, <2>2, Zenon DEF HandledSound, SentSound
<1> QED BY <1>4, <1>5, <1>6, <1>7, <1>8, <1>9, <1>10, Zenon DEF Kept, SameSession

\* HAPBLEProcedureHandleGATTWrite
LEMMA ProcedureWriteKept ==
  ASSUME NEW v, Startable(v), NEW packet \in WritePackets,
         NEW first \in BOOLEAN, first <=> v.tx.state = "WaitingForInitialWrite" \/ ~v.timer,
         NEW r, r = ProcedureWrite(v, packet)
  PROVE  /\ r.err # "none" => Kept(r.w)
         /\ r.err = "none" => /\ Session(r.w) /\ r.w.pending \subseteq Characteristics
                              /\ Kept(AskedAs(r.w, packet, first))
<1> DEFINE y == IF v.timer THEN v ELSE StartProcedure(v)
           d == IF y.startedSecured THEN DecryptControlMessage(y, packet) ELSE Plaintext(packet)
           t == TransactionWrite(y.tx, y.scratch, d.bytes)
           refused == v.terminal \/ (~v.timer /\ IsTerminalSoon(v))
           x == [y EXCEPT !.tx = t.tx, !.scratch = t.buffer]
<1>1. r = IF refused THEN [err |-> "InvalidState", w |-> v]
          ELSE IF d.err # "none" THEN [err |-> d.err, w |-> y]
          ELSE IF t.err = "assertion" THEN [err |-> "none", w |-> Fault(y, "bodyOfExecuteWrite")]
          ELSE IF t.err # "none" THEN [err |-> t.err, w |-> y]
          ELSE [err |-> "none", w |-> DidSendGATTResponse(x)]
  BY Zenon DEF ProcedureWrite, IsInProgress
<1>2. Startable(y) /\ y.timer /\ (first <=> y.tx.state = "WaitingForInitialWrite")
  <2>1. CASE v.timer
    BY <2>1, Zenon
  <2>2. CASE ~v.timer
    BY <2>2, StartKept, Zenon
  <2> QED BY <2>1, <2>2
<1>3. d = Opened(y, packet)
  BY Zenon DEF Opened
<1> HIDE DEF y
<1>4. CASE refused \/ d.err # "none" \/ (t.err # "assertion" /\ t.err # "none")
  <2> HIDE DEF d, t, refused
  <2>1. r.err # "none" /\ r.w \in {v, y}
    BY <1>1, <1>4
  <2> QED BY <1>2, <2>1, Zenon DEF Startable
<1>5. CASE ~refused /\ d.err = "none" /\ t.err = "assertion"
  <2>1. PICK u : u = Fault(y, "bodyOfExecuteWrite")
    OBVIOUS
  <2>2. r.err = "none" /\ r.w = u
    <3> HIDE DEF d, t, refused
    <3>1. r = [err |-> "none", w |-> u]
      BY <1>1, <1>5, <2>1, Zenon
    <3> QED BY <3>1
  <2>3. Startable(u) /\ u.tx = y.tx
    <3>1. "bodyOfExecuteWrite" \in Faults \ {"none"}
      BY DEF Faults
    <3>2. Kept(u) /\ Rest(y, u)
      BY <1>2, <2>1, <3>1, KeptIsSession, FaultStep, KeptBySession, Zenon DEF Startable
    <3> QED BY <1>2, <3>2, Zenon DEF Startable, Rest, Idle
  <2>4. first = TRUE /\ y.tx.state = "WaitingForInitialWrite"
    <3>1. y.tx \in Transactions /\ y.scratch \in Buffers /\ y.startedSecured \in BOOLEAN
      BY <1>2, Zenon DEF Startable, Kept, ProcedureTypes, Buffers
    <3>2. d.bytes \in Seq(Bytes)
      <4>1. Garbage \in Seq(Bytes) /\ packet.bytes \in Seq(Bytes)
        BY DEF Garbage, Bytes, WritePackets
      <4>2. d.bytes = Garbage \/ d.bytes = packet.bytes
        BY <1>3, <1>5, <3>1, OpenedIs
      <4> QED BY <4>1, <4>2
    <3>3. y.tx.state = "ReadingRequest" => y.tx.offset <= y.tx.total
      BY <1>2, Zenon DEF Startable, Kept, RequestBuffered
    <3>4. y.tx.state = "WaitingForInitialWrite"
      BY <1>5, <3>1, <3>2, <3>3, TransactionWriteIs, Zenon
    <3> QED BY <1>2, <3>4, Zenon
  <2>5. Kept(AskedAs(u, packet, first))
    BY <2>3, <2>4, AskedInVain, Zenon
  <2> QED BY <2>2, <2>3, <2>5, Zenon DEF Startable, Kept, ServerTypes
<1>6. CASE ~refused /\ d.err = "none" /\ t.err = "none"
  <2>1. PICK u : u = DidSendGATTResponse(x)
    OBVIOUS
  <2>2. r.err = "none" /\ r.w = u
    <3>1. t.err # "assertion"
      BY <1>6
    <3> HIDE DEF d, t, refused, x
    <3>2. r = [err |-> "none", w |-> u]
      BY <1>1, <1>6, <2>1, <3>1, Zenon
    <3> QED BY <3>2
  <2>3. Kept(AskedAs(x, packet, first))
    BY <1>2, <1>3, <1>6, FragmentKept, Zenon
  <2>4. Changed(y, x, {"tx", "scratch"}) /\ DOMAIN x = Fields
    <3> HIDE DEF t
    <3> QED BY <1>2 DEF Startable, Kept, Session, Changed, Fields
  <2>5. Session(x) /\ x.pending \subseteq Characteristics
    <3> HIDE DEF x
    <3>1. Changed(y, x, OtherFields) /\ x.pending = y.pending
      BY <2>4 DEF Changed, OtherFields, Fields
    <3>2. Session(y) /\ y.pending \subseteq Characteristics
      BY <1>2, Zenon DEF Startable, Kept, ServerTypes
    <3>3. Session(x)
      BY <3>1, <3>2, SessionUnchanged, Zenon DEF SameSession
    <3> QED BY <3>1, <3>2, <3>3, Zenon
  <2> HIDE DEF x
  <2>6. Changed(x, u, {"safe", "safeTimer", "pending", "queued"}) /\ u.pending = x.pending
    BY <2>1, <2>4 DEF DidSendGATTResponse, Changed, Fields
  <2>7. Session(u)
    BY <2>1, <2>5, TimerOperators, TimerStepIsSessionStep, Zenon DEF SessionStep
  <2>8. PICK p, q : p = AskedAs(x, packet, first) /\ q = AskedAs(u, packet, first)
    OBVIOUS
  <2>9. Changed(p, q, {"safe", "safeTimer", "pending", "queued"}) /\ Changed(u, q, {"asked", "received"})
    BY <2>4, <2>6, <2>8, FollowsAsked, Zenon
  <2>10. q.pending \subseteq Characteristics
    BY <2>5, <2>6, <2>9 DEF Changed, Fields
  <2>11. Kept(q)
    BY <2>3, <2>8, <2>9, <2>10, TimersEventsKept, Zenon
  <2> QED BY <2>2, <2>5, <2>6, <2>7, <2>8, <2>11, Zenon
<1> QED BY <1>4, <1>5, <1>6, Zenon

LEMMA WaitsUnchanged ==
  ASSUME NEW v, Waits(v), NEW u, Changed(v, u, {"asked", "received"})
  PROVE  Waits(u)
<1>1. /\ u.orphaned = v.orphaned /\ u.fault = v.fault /\ u.active = v.active /\ u.pending = v.pending
      /\ u.subscribed = v.subscribed /\ u.queued = v.queued
  BY DEF Changed, Fields
<1> QED BY <1>1, Zenon DEF Waits

\* What the last step has left does not matter to the next.
LEMMA ForgottenKept ==
  ASSUME IInv
  PROVE  /\ Kept(Forget(w)) /\ Forget(w).handled = Unhandled /\ Forget(w).sent = Unsent
         /\ Changed(w, Forget(w), {"handled", "sent", "prepared", "orphaned", "asked", "received", "scratch"})
         /\ Forget(w).connected = w.connected /\ Forget(w).attached = w.attached /\ Forget(w).tx = w.tx
         /\ Forget(w).timer = w.timer /\ Forget(w).pending = w.pending /\ Forget(w).subscribed = w.subscribed
         /\ Forget(w).fault = w.fault /\ Forget(w).active = w.active /\ Forget(w).queued = w.queued
         /\ Forget(w).paired = w.paired /\ Forget(w).state = w.state
         /\ (Forget(w).orphaned = "no" <=> w.orphaned = "no")
<1>1. PICK f : f = Forget(w)
  OBVIOUS
<1>2. /\ Kept(f) /\ f.handled = Unhandled /\ f.sent = Unsent
      /\ Changed(w, f, {"handled", "sent", "prepared", "orphaned", "asked", "received", "scratch"})
      /\ (f.orphaned = "no" <=> w.orphaned = "no")
  BY <1>1, ForgetKept, Zenon DEF IInv
<1>3. /\ f.connected = w.connected /\ f.attached = w.attached /\ f.tx = w.tx
      /\ f.timer = w.timer /\ f.pending = w.pending /\ f.subscribed = w.subscribed
      /\ f.fault = w.fault /\ f.active = w.active /\ f.queued = w.queued
      /\ f.paired = w.paired /\ f.state = w.state
  BY <1>2 DEF Changed, Fields
<1> QED BY <1>1, <1>2, <1>3, Zenon

LEMMA WriteValueKept ==
  ASSUME IInv, NEW c \in Characteristics, NEW b \in Packets[c], NEW sealed \in BOOLEAN,
         WriteValue(c, [bytes |-> b, sealed |-> sealed])
  PROVE  IInv'
<1>1. PICK packet : packet = [bytes |-> b, sealed |-> sealed]
  OBVIOUS
<1>2. packet \in WritePackets
  <2>1. b \in Seq(Bytes)
    BY PeripheralManagerAssumption, Zenon DEF Bytes
  <2> QED BY <1>1, <2>1 DEF WritePackets
<1>3. PICK f : f = Forget(w)
  OBVIOUS
<1>4. /\ Kept(f) /\ Idle(f) /\ f.attached = w.attached /\ f.tx = w.tx /\ f.timer = w.timer
  BY <1>3, ForgottenKept, Zenon DEF Idle, WriteValue, Serving
<1>5. PICK a : a = AttachProcedure(f, c)
  OBVIOUS
<1>6. /\ Kept(a.w) /\ Idle(a.w) /\ a.kind \in {"Full", "Fallback", "InvalidState"}
      /\ a.kind = "Full" => AttachedAsBefore(f, a.w, c)
  BY <1>4, <1>5, AttachProcedureKept, Zenon
<1>7. PICK r : r = CASE a.kind = "Full" -> ProcedureWrite(a.w, packet)
                     [] a.kind = "Fallback" -> FallbackWrite(a, c, packet)
                     [] OTHER -> [err |-> a.kind, w |-> a.w]
  OBVIOUS
<1>8. PICK u \in Concluded(r) : w' = Asked(u, c, packet, a.kind = "Full" /\ r.err = "none")
  BY <1>1, <1>3, <1>5, <1>7, Zenon DEF WriteValue
<1>9. CASE a.kind = "Full"
  <2> DEFINE first == w.attached # c \/ w.tx.state = "WaitingForInitialWrite" \/ (~w.timer /\ Db[c].dropsSecurity)
  <2>1. r = ProcedureWrite(a.w, packet)
    BY <1>7, <1>9
  <2>2. Startable(a.w)
    BY <1>6, <1>9, Zenon DEF Startable, AttachedAsBefore
  <2>3. first <=> a.w.tx.state = "WaitingForInitialWrite" \/ ~a.w.timer
    <3>1. CASE w.attached = c
      <4>1. a.w.tx = w.tx /\ a.w.timer = w.timer
        BY <1>4, <1>6, <1>9, <3>1, Zenon DEF AttachedAsBefore
      <4>2. ~w.timer => w.tx.state = "WaitingForInitialWrite"
        BY <3>1, PeripheralManagerAssumption, Zenon DEF IInv, Kept, Timed
      <4> QED BY <3>1, <4>1, <4>2, Zenon
    <3>2. CASE w.attached # c
      BY <1>4, <1>6, <1>9, <3>2, Zenon DEF AttachedAsBefore
    <3> QED BY <3>1, <3>2
  <2>4. first \in BOOLEAN
    OBVIOUS
  <2>5. PICK start : start = first
    OBVIOUS
  <2>6. /\ r.err # "none" => Kept(r.w)
        /\ r.err = "none" => /\ Session(r.w) /\ r.w.pending \subseteq Characteristics
                             /\ Kept(AskedAs(r.w, packet, start))
    <3> HIDE DEF first
    <3>1. start \in BOOLEAN /\ (start <=> a.w.tx.state = "WaitingForInitialWrite" \/ ~a.w.timer)
      BY <2>3, <2>4, <2>5
    <3> QED BY <1>2, <2>1, <2>2, <3>1, ProcedureWriteKept, Zenon
  <2>7. CASE r.err # "none"
    <3>1. w' = u
      BY <1>8, <2>7, Zenon DEF Asked
    <3> QED BY <1>8, <2>6, <2>7, <3>1, ConcludedKept, Zenon DEF IInv
  <2>8. CASE r.err = "none"
    <3>1. w' = AskedAs(u, packet, start)
      BY <1>8, <1>9, <2>5, <2>8, Zenon DEF Asked, AskedAs
    <3>2. u \in SendPendingEventNotifications(r.w)
      BY <1>8, <2>8, Zenon DEF Concluded
    <3>3. Changed(r.w, u, {"pending", "queued"}) /\ u.pending \subseteq Characteristics /\ Waits(u)
      BY <2>6, <2>8, <3>2, SendPendingSends, Zenon
    <3>4. Changed(r.w, u, {"safe", "safeTimer", "pending", "queued"}) /\ DOMAIN r.w = Fields /\ DOMAIN u = Fields
      BY <2>6, <2>8, <3>3 DEF Changed, Session
    <3>5. PICK p, q : p = AskedAs(r.w, packet, start) /\ q = AskedAs(u, packet, start)
      OBVIOUS
    <3>6. Changed(p, q, {"safe", "safeTimer", "pending", "queued"}) /\ Changed(u, q, {"asked", "received"})
      <4>1. start \in BOOLEAN
        BY <2>4, <2>5
      <4> QED BY <3>4, <3>5, <4>1, FollowsAsked, Zenon
    <3>7. q.pending \subseteq Characteristics
      BY <3>3, <3>6 DEF Changed, Fields
    <3>8. Kept(q) /\ Waits(q)
      BY <2>6, <2>8, <3>3, <3>5, <3>6, <3>7, TimersEventsKept, WaitsUnchanged, Zenon
    <3> QED BY <3>1, <3>5, <3>8, Zenon DEF IInv
  <2> QED BY <2>7, <2>8
<1>10. CASE a.kind # "Full"
  <2>1. w' = u
    BY <1>8, <1>10, Zenon DEF Asked
  <2>2. Kept(r.w)
    <3>1. CASE a.kind = "Fallback"
      <4>1. r = FallbackWrite(a, c, packet)
        BY <1>7, <3>1
      <4> QED BY <1>6, <4>1, FallbackWriteKept, Zenon
    <3>2. CASE a.kind = "InvalidState"
      <4>1. r = [err |-> a.kind, w |-> a.w]
        BY <1>7, <3>2
      <4> QED BY <1>6, <4>1
    <3> QED BY <1>6, <1>10, <3>1, <3>2, Zenon
  <2> QED BY <1>8, <2>1, <2>2, ConcludedKept, Zenon DEF IInv
<1> QED BY <1>9, <1>10

-----------------------------------------------------------------------------
(* A request is processed. *)

ProcedureFields == {"tx", "scratch", "multi", "stored", "prepared", "handled"}

LEMMA ProcedureFrame ==
  ASSUME NEW v, Kept(v), v.timer, NEW u, Changed(v, u, ProcedureFields), u.tx \in Transactions, u.scratch \in Buffers,
         u.multi \in BOOLEAN, u.stored \in 0 .. ScratchBytes, u.prepared \in Messages
  PROVE  /\ SameSession(v, u) /\ ServerTypes(u) /\ ProcedureTypes(u) /\ Timed(u) /\ SentSound(u)
         /\ u.timer = v.timer /\ u.startedSecured = v.startedSecured /\ u.asked = v.asked /\ u.sent = v.sent
         /\ u.attached = v.attached
<1>1. /\ u.state = v.state /\ u.attached = v.attached /\ u.timer = v.timer
      /\ u.startedSecured = v.startedSecured /\ u.asked = v.asked /\ u.sent = v.sent
      /\ u.received = v.received /\ u.pending = v.pending
  BY DEF Changed, ProcedureFields, Fields
<1>2. SameSession(v, u)
  <2>1. Changed(v, u, OtherFields)
    BY DEF Changed, ProcedureFields, OtherFields
  <2> QED BY <2>1, SessionUnchanged, Zenon DEF Kept
<1>3. ServerTypes(u) /\ SentSound(u)
  BY <1>1, Zenon DEF Kept, ServerTypes, SentSound
<1>4. ProcedureTypes(u)
  BY <1>1, Zenon DEF Kept, ProcedureTypes, Buffers
<1>5. Timed(u)
  BY <1>1, <1>2, Zenon DEF Kept, SameSession, Timed
<1> QED BY <1>1, <1>2, <1>3, <1>4, <1>5

\* A request that is being handled, and one that has been
Requested(v) ==
  Kept(v) /\ v.timer /\ v.tx.state = "HandlingRequest" /\ v.sent = Unsent /\ v.attached \in Characteristics
Answered(v) ==
  Kept(v) /\ v.timer /\ v.tx.state = "WaitingForInitialRead" /\ v.sent = Unsent /\ v.attached \in Characteristics
Outcome(p) == (p.err = "none" /\ Answered(p.w)) \/ (p.err # "none" /\ Kept(p.w) /\ p.w.sent = Unsent)

LEMMA RefuseOutcome ==
  ASSUME NEW v, Requested(v), NEW p \in Refuse(v, "InvalidState")
  PROVE  Outcome(p)
<1>1. p = [err |-> "InvalidState", w |-> v]
  BY DEF Refuse
<1>2. p.err # "none" /\ p.w = v
  BY <1>1
<1> QED BY <1>2, Zenon DEF Outcome, Requested

LEMMA ReplyOutcome ==
  ASSUME NEW v, Requested(v), NEW status \in Nat
  PROVE  Outcome(Reply(v, status))
<1>1. PICK u : u = [v EXCEPT !.tx = SetResponse(v.tx, status, FALSE, 0)]
  OBVIOUS
<1>2. Reply(v, status).err = "none" /\ Reply(v, status).w = u
  BY <1>1 DEF Reply
<1>3. PICK t : t = SetResponse(v.tx, status, FALSE, 0)
  OBVIOUS
<1>4. /\ t \in Transactions /\ t.state = "WaitingForInitialRead" /\ t.hasBody = FALSE /\ t.total = 0 /\ t.offset = 0
      /\ t.max = v.tx.max
  BY <1>3 DEF SetResponse, Requested, Kept, ProcedureTypes, Transactions, TransactionStates
<1>5. Changed(v, u, {"tx"}) /\ u.tx = t
  BY <1>1, <1>3 DEF Requested, Kept, Session, Changed, Fields
<1>6. /\ u.scratch = v.scratch /\ u.multi = v.multi /\ u.stored = v.stored
      /\ u.prepared = v.prepared /\ u.handled = v.handled
  BY <1>5 DEF Changed, Fields
<1>7. /\ SameSession(v, u) /\ ServerTypes(u) /\ ProcedureTypes(u) /\ Timed(u) /\ SentSound(u)
      /\ u.timer = v.timer /\ u.startedSecured = v.startedSecured /\ u.asked = v.asked /\ u.sent = v.sent
      /\ u.attached = v.attached
  <2>1. Changed(v, u, ProcedureFields)
    BY <1>5 DEF Changed, ProcedureFields
  <2>2. /\ u.tx \in Transactions /\ u.scratch \in Buffers /\ u.multi \in BOOLEAN /\ u.stored \in 0 .. ScratchBytes
        /\ u.prepared \in Messages /\ Kept(v) /\ v.timer
    BY <1>4, <1>5, <1>6, Zenon DEF Requested, Kept, ProcedureTypes, Buffers
  <2> QED BY <2>1, <2>2, ProcedureFrame, Zenon
<1>8. Sealing(u)
  <2>1. u.tx.state \notin {"WaitingForInitialWrite", "ReadingRequest"} /\ v.tx.state # "WaitingForInitialWrite"
    BY <1>4, <1>5 DEF Requested
  <2> QED BY <1>6, <1>7, <2>1, Zenon DEF Requested, Kept, Sealing, SameSession
<1>9. RequestBuffered(u)
  BY <1>4, <1>5 DEF RequestBuffered
<1>10. PreparedBuffered(u)
  <2>1. u.tx.state \notin {"WaitingForInitialWrite", "ReadingRequest"}
    BY <1>4, <1>5
  <2> QED BY <1>6, <1>7, <2>1, Zenon DEF Requested, Kept, PreparedBuffered
<1>11. ResponseBuffered(u)
  BY <1>4, <1>5 DEF ResponseBuffered
<1>12. HandledSound(u)
  BY <1>6, <1>7, Zenon DEF Requested, Kept, HandledSound, SameSession
<1>13. Kept(u)
  BY <1>7, <1>8, <1>9, <1>10, <1>11, <1>12, Zenon DEF Kept, SameSession
<1> QED BY <1>2, <1>4, <1>5, <1>7, <1>13, Zenon DEF Outcome, Answered, Requested

LEMMA ReplyWithOutcome ==
  ASSUME NEW v, Requested(v), ~v.multi, NEW n \in ReadLengths
  PROVE  Outcome(ReplyWith(v, n))
<1>0. n \in 1 .. ScratchBytes
  OBVIOUS
<1>1. PICK u : u = ReplyWith(v, n).w
  OBVIOUS
<1>2. PICK t : t = SetResponse(v.tx, Success, TRUE, n)
  OBVIOUS
<1>3. PICK buffer : buffer = [k \in DOMAIN v.scratch |-> IF k <= n THEN ResponseByte ELSE v.scratch[k]]
  OBVIOUS
<1>4. ReplyWith(v, n).err = "none" /\ u = [v EXCEPT !.tx = t, !.scratch = buffer]
  BY <1>1, <1>2, <1>3 DEF ReplyWith
<1>5. /\ t \in Transactions /\ t.state = "WaitingForInitialRead" /\ t.hasBody = TRUE /\ t.total = n /\ t.offset = 0
      /\ t.max = v.tx.max
  <2>1. v.tx \in Transactions
    BY Zenon DEF Requested, Kept, ProcedureTypes
  <2>2. n \in Nat /\ Success \in Nat
    BY <1>0 DEF Success
  <2> QED BY <1>2, <2>1, <2>2 DEF SetResponse, Transactions, TransactionStates
<1>6. buffer \in Buffers /\ \A k \in 1 .. n : buffer[k] = ResponseByte
  <2>1. PICK old \in [1 .. ScratchBytes -> Bytes] : old = v.scratch
    BY Zenon DEF Requested, Kept, ProcedureTypes
  <2>2. ResponseByte \in Bytes
    BY DEF ResponseByte, Bytes
  <2>3. buffer = [k \in 1 .. ScratchBytes |-> IF k <= n THEN ResponseByte ELSE old[k]]
    BY <1>3, <2>1
  <2>4. \A k \in 1 .. n : k \in 1 .. ScratchBytes /\ k <= n
    BY <1>0
  <2>5. buffer \in Buffers
    BY <2>1, <2>2, <2>3, Zenon DEF Buffers
  <2> QED BY <2>3, <2>4, <2>5, Zenon
<1>7. Changed(v, u, {"tx", "scratch"}) /\ u.tx = t /\ u.scratch = buffer
  BY <1>4 DEF Requested, Kept, Session, Changed, Fields
<1>8. u.multi = v.multi /\ u.stored = v.stored /\ u.prepared = v.prepared /\ u.handled = v.handled
  BY <1>7 DEF Changed, Fields
<1>9. /\ SameSession(v, u) /\ ServerTypes(u) /\ ProcedureTypes(u) /\ Timed(u) /\ SentSound(u)
      /\ u.timer = v.timer /\ u.startedSecured = v.startedSecured /\ u.asked = v.asked /\ u.sent = v.sent
      /\ u.attached = v.attached
  <2>1. Changed(v, u, ProcedureFields)
    BY <1>7 DEF Changed, ProcedureFields
  <2>2. /\ u.tx \in Transactions /\ u.scratch \in Buffers /\ u.multi \in BOOLEAN /\ u.stored \in 0 .. ScratchBytes
        /\ u.prepared \in Messages /\ Kept(v) /\ v.timer
    BY <1>5, <1>6, <1>7, <1>8, Zenon DEF Requested, Kept, ProcedureTypes
  <2> QED BY <2>1, <2>2, ProcedureFrame, Zenon
<1>10. Sealing(u)
  <2>1. u.tx.state \notin {"WaitingForInitialWrite", "ReadingRequest"} /\ v.tx.state # "WaitingForInitialWrite"
    BY <1>5, <1>7 DEF Requested
  <2> QED BY <1>8, <1>9, <2>1, Zenon DEF Requested, Kept, Sealing, SameSession
<1>11. RequestBuffered(u)
  BY <1>5, <1>7 DEF RequestBuffered
<1>12. PreparedBuffered(u)
  BY <1>8, Zenon DEF PreparedBuffered
<1>13. ResponseBuffered(u)
  BY <1>0, <1>5, <1>6, <1>7 DEF ResponseBuffered
<1>14. HandledSound(u)
  BY <1>8, <1>9, Zenon DEF Requested, Kept, HandledSound, SameSession
<1>15. Kept(u)
  BY <1>9, <1>10, <1>11, <1>12, <1>13, <1>14, Zenon DEF Kept, SameSession
<1> QED BY <1>1, <1>4, <1>5, <1>7, <1>9, <1>15, Zenon DEF Outcome, Answered, Requested

\* A pairing message that is handled, not of a timed write that waits
LEMMA MessageHandled ==
  ASSUME NEW v, Requested(v), ~v.multi, NEW u, SessionStep(v, u)
  PROVE  Requested(u) /\ ~u.multi
<1>1. Kept(v) /\ PastWriting(v)
  BY DEF Requested, PastWriting
<1>2. Kept(u) /\ Rest(v, u)
  BY <1>1, KeptBySession, Zenon
<1> QED BY <1>2, Zenon DEF Requested, Rest

\* HandleReadRequest of HAPBLEProcedure.c
LEMMA ReadRequestOutcome ==
  ASSUME NEW v, Requested(v), NEW c, NEW returns \in BOOLEAN, NEW p \in ReadRequest(v, c, returns)
  PROVE  Outcome(p)
<1>1. \A status \in {InvalidRequest, InsufficientAuthentication, UnsupportedPDU, Success} : status \in Nat
  BY DEF InvalidRequest, InsufficientAuthentication, UnsupportedPDU, Success
<1>2. CASE v.multi
  <2>1. p \in Refuse(v, "InvalidState")
    BY <1>2, Zenon DEF ReadRequest
  <2> QED BY <2>1, RefuseOutcome, Zenon
<1>3. CASE ~v.multi /\ ~OpenTo(c, FALSE, IsSecured(v))
  <2>1. p = Reply(v, Denied(c, FALSE, IsSecured(v)))
    BY <1>3, Zenon DEF ReadRequest
  <2>2. Denied(c, FALSE, IsSecured(v)) \in Nat
    BY <1>1, Zenon DEF Denied
  <2> QED BY <2>1, <2>2, ReplyOutcome, Zenon
<1>4. CASE ~v.multi /\ OpenTo(c, FALSE, IsSecured(v))
  <2> DEFINE answers == UNION {IF r.err THEN {Reply(r.w, InvalidRequest)}
                               ELSE IF returns THEN {ReplyWith(r.w, n) : n \in ReadLengths}
                               ELSE {Reply(r.w, Success)} : r \in ReadHandlers(v, c)}
  <2>0. p \in AdminOnly(v, c.readRequiresAdmin, answers)
    BY <1>4, Zenon DEF ReadRequest
  <2> HIDE DEF answers
  <2>5. CASE p = Reply(v, InsufficientAuthentication)
    BY <1>1, <2>5, ReplyOutcome, Zenon
  <2> SUFFICES ASSUME p \in answers  PROVE  Outcome(p)
    BY <2>0, <2>5, Zenon DEF AdminOnly
  <2>1. PICK r \in ReadHandlers(v, c) :
          p \in IF r.err THEN {Reply(r.w, InvalidRequest)}
                ELSE IF returns THEN {ReplyWith(r.w, n) : n \in ReadLengths} ELSE {Reply(r.w, Success)}
    BY Zenon DEF answers
  <2>2. Requested(r.w) /\ ~r.w.multi
    <3>1. CASE r \in PairVerifyRead(v) \cup PairingsRead(v)
      <4>1. v.connected /\ Session(v)
        BY Zenon DEF Requested, Kept, Timed
      <4>2. SessionStep(v, r.w)
        BY <3>1, <4>1, ReadMessages, Zenon
      <4> QED BY <1>4, <4>2, MessageHandled, Zenon
    <3>2. CASE r \in {Taken(v), NotTaken(v)}
      <4>1. r.w = v
        BY <3>2 DEF Taken, NotTaken
      <4> QED BY <1>4, <4>1, Zenon
    <3> QED BY <2>1, <3>1, <3>2 DEF ReadHandlers
  <2>3. \/ p = Reply(r.w, InvalidRequest)
        \/ p = Reply(r.w, Success)
        \/ \E n \in ReadLengths : p = ReplyWith(r.w, n)
    BY <2>1, Zenon
  <2>4. InvalidRequest \in Nat /\ Success \in Nat
    BY <1>1, Zenon
  <2> QED BY <2>2, <2>3, <2>4, ReplyOutcome, ReplyWithOutcome, Zenon
<1> QED BY <1>2, <1>3, <1>4, Zenon

\* What a handler is given is what has been asked, with the rights it has been asked with.
Secured(v) == ~Orphan(v) => IsSecured(v) = v.asked.sealed

LEMMA WrittenHandled ==
  ASSUME NEW v, Requested(v), ~v.multi, Secured(v), NEW timed \in BOOLEAN,
         NEW body, body = (IF timed THEN v.prepared ELSE v.asked).body,
         NEW u, u = Written(v, body, timed)
  PROVE  Requested(u) /\ ~u.multi
<1>1. PICK h : h = [on |-> TRUE, body |-> body, timed |-> timed, secured |-> IsSecured(v)]
  OBVIOUS
<1>2. u = [v EXCEPT !.handled = h]
  BY <1>1, Zenon DEF Written
<1>3. h.body = body /\ h.timed = timed /\ h.secured = IsSecured(v)
  BY <1>1
<1>4. Changed(v, u, {"handled"}) /\ u.handled = h
  BY <1>2 DEF Requested, Kept, Session, Changed, Fields
<1>5. /\ u.scratch = v.scratch /\ u.multi = v.multi /\ u.stored = v.stored
      /\ u.prepared = v.prepared /\ u.tx = v.tx
  BY <1>4 DEF Changed, Fields
<1>6. /\ SameSession(v, u) /\ ServerTypes(u) /\ ProcedureTypes(u) /\ Timed(u) /\ SentSound(u)
      /\ u.timer = v.timer /\ u.startedSecured = v.startedSecured /\ u.asked = v.asked /\ u.sent = v.sent
      /\ u.attached = v.attached
  <2>1. Changed(v, u, ProcedureFields)
    BY <1>4 DEF Changed, ProcedureFields
  <2>2. /\ u.tx \in Transactions /\ u.scratch \in Buffers /\ u.multi \in BOOLEAN /\ u.stored \in 0 .. ScratchBytes
        /\ u.prepared \in Messages /\ Kept(v) /\ v.timer
    BY <1>5, Zenon DEF Requested, Kept, ProcedureTypes, Buffers
  <2> QED BY <2>1, <2>2, ProcedureFrame, Zenon
<1>7. Sealing(u)
  BY <1>5, <1>6, Zenon DEF Requested, Kept, Sealing, SameSession
<1>8. RequestBuffered(u)
  BY <1>5 DEF RequestBuffered, Requested
<1>9. PreparedBuffered(u)
  BY <1>5, Zenon DEF PreparedBuffered
<1>10. ResponseBuffered(u)
  BY <1>5 DEF ResponseBuffered, Requested
<1>11. HandledSound(u)
  <2>1. u.handled.body = (IF u.handled.timed THEN u.prepared ELSE u.asked).body
    BY <1>3, <1>4, <1>5, <1>6, Zenon
  <2>2. u.orphaned # "now" => u.handled.secured = u.asked.sealed
    BY <1>3, <1>4, <1>6, Zenon DEF Secured, SameSession, Orphan
  <2> QED BY <2>1, <2>2, Zenon DEF HandledSound
<1>12. Kept(u)
  BY <1>6, <1>7, <1>8, <1>9, <1>10, <1>11, Zenon DEF Kept, SameSession
<1> QED BY <1>5, <1>6, <1>12, Zenon DEF Requested

\* HandleWriteRequest of HAPBLEProcedure.c
LEMMA WriteRequestOutcome ==
  ASSUME NEW v, Requested(v), Secured(v), NEW c, NEW timed \in BOOLEAN,
         NEW body, body = (IF timed THEN v.prepared ELSE v.asked).body,
         NEW p \in WriteRequest(v, c, body, timed)
  PROVE  Outcome(p)
<1>1. \A status \in {InvalidRequest, InsufficientAuthentication, InsufficientAuthorization, UnsupportedPDU, Success} :
        status \in Nat
  BY DEF InvalidRequest, InsufficientAuthentication, InsufficientAuthorization, UnsupportedPDU, Success
<1> DEFINE open == IF c.role = "Identify" /\ ~IsSecured(v) THEN ~v.paired ELSE OpenTo(c, TRUE, IsSecured(v))
           x == Written(v, body, timed)
<1>2. CASE v.multi
  <2>1. p \in Refuse(v, "InvalidState")
    BY <1>2, Zenon DEF WriteRequest
  <2> QED BY <2>1, RefuseOutcome, Zenon
<1>3. CASE ~v.multi /\ ~open
  <2>1. p = Reply(v, Denied(c, TRUE, IsSecured(v)))
    BY <1>3, Zenon DEF WriteRequest
  <2>2. Denied(c, TRUE, IsSecured(v)) \in Nat
    BY <1>1, Zenon DEF Denied
  <2> QED BY <2>1, <2>2, ReplyOutcome, Zenon
<1>4. CASE ~v.multi /\ open
  <2> DEFINE answers ==
        IF ~timed /\ c.requiresTimedWrite THEN {Reply(v, InvalidRequest)}
        ELSE {Reply(v, InvalidRequest)}
               \cup (IF timed THEN {Reply(v, UnsupportedPDU)} ELSE {})
               \cup UNION {IF r.err THEN {Reply(r.w, InvalidRequest), Reply(r.w, InsufficientAuthorization)}
                           ELSE UNION {IF ~returns /\ ~c.supportsWriteResponse THEN {Reply(r.w, Success)}
                                       ELSE ReadRequest(r.w, c, returns) : returns \in BOOLEAN} :
                             r \in WriteHandlers(x, c)}
  <2>0. p \in AdminOnly(v, c.writeRequiresAdmin, answers)
    BY <1>4, Zenon DEF WriteRequest
  <2> HIDE DEF answers
  <2>7. CASE p = Reply(v, InsufficientAuthentication)
    BY <1>1, <2>7, ReplyOutcome, Zenon
  <2> SUFFICES ASSUME p \in answers  PROVE  Outcome(p)
    BY <2>0, <2>7, Zenon DEF AdminOnly
  <2>1. \/ p = Reply(v, InvalidRequest)
        \/ p = Reply(v, UnsupportedPDU)
        \/ \E r \in WriteHandlers(x, c) :
             p \in IF r.err THEN {Reply(r.w, InvalidRequest), Reply(r.w, InsufficientAuthorization)}
                   ELSE UNION {IF ~returns /\ ~c.supportsWriteResponse THEN {Reply(r.w, Success)}
                               ELSE ReadRequest(r.w, c, returns) : returns \in BOOLEAN}
    <3> HIDE DEF x
    <3>1. CASE ~timed /\ c.requiresTimedWrite
      <4>1. p = Reply(v, InvalidRequest)
        BY <3>1, Zenon DEF answers
      <4> QED BY <4>1
    <3>2. CASE ~(~timed /\ c.requiresTimedWrite)
      <4>1. p \in {Reply(v, InvalidRequest)}
               \cup (IF timed THEN {Reply(v, UnsupportedPDU)} ELSE {})
               \cup UNION {IF r.err THEN {Reply(r.w, InvalidRequest), Reply(r.w, InsufficientAuthorization)}
                           ELSE UNION {IF ~returns /\ ~c.supportsWriteResponse THEN {Reply(r.w, Success)}
                                       ELSE ReadRequest(r.w, c, returns) : returns \in BOOLEAN} :
                             r \in WriteHandlers(x, c)}
        BY <3>2, Zenon DEF answers
      <4> QED BY <4>1, Zenon
    <3> QED BY <3>1, <3>2
  <2>2. Requested(x) /\ ~x.multi
    BY <1>4, WrittenHandled, Zenon
  <2> HIDE DEF x
  <2>3. ASSUME NEW r \in WriteHandlers(x, c)  PROVE  Requested(r.w) /\ ~r.w.multi
    <3>1. CASE r \in PairVerifyWrite(x) \cup PairingsWrite(x)
      <4>1. SessionStep(x, r.w)
        BY <2>2, <3>1, WriteMessages, Zenon DEF Requested, Kept
      <4> QED BY <2>2, <4>1, MessageHandled, Zenon
    <3>2. CASE r \in {Taken(x), NotTaken(x)}
      <4>1. r.w = x
        BY <3>2 DEF Taken, NotTaken
      <4> QED BY <2>2, <4>1, Zenon
    <3> QED BY <2>3, <3>1, <3>2 DEF WriteHandlers
  <2>4. InvalidRequest \in Nat /\ InsufficientAuthorization \in Nat /\ UnsupportedPDU \in Nat /\ Success \in Nat
    BY <1>1, Zenon
  <2>5. CASE p = Reply(v, InvalidRequest) \/ p = Reply(v, UnsupportedPDU)
    BY <2>4, <2>5, ReplyOutcome, Zenon
  <2>6. ASSUME NEW r \in WriteHandlers(x, c),
               p \in IF r.err THEN {Reply(r.w, InvalidRequest), Reply(r.w, InsufficientAuthorization)}
                     ELSE UNION {IF ~returns /\ ~c.supportsWriteResponse THEN {Reply(r.w, Success)}
                                 ELSE ReadRequest(r.w, c, returns) : returns \in BOOLEAN}
        PROVE  Outcome(p)
    <3>1. Requested(r.w)
      BY <2>3, Zenon
    <3>2. \/ p \in {Reply(r.w, InvalidRequest), Reply(r.w, InsufficientAuthorization), Reply(r.w, Success)}
          \/ \E returns \in BOOLEAN : p \in ReadRequest(r.w, c, returns)
      BY <2>6, Zenon
    <3> QED BY <2>4, <3>1, <3>2, ReplyOutcome, ReadRequestOutcome, Zenon
  <2> QED BY <2>1, <2>5, <2>6, Zenon
<1> QED BY <1>2, <1>3, <1>4, Zenon

LEMMA AnswerOutcome ==
  ASSUME NEW v, Requested(v), NEW supported, NEW mayBeEmpty, NEW p \in Answer(v, supported, mayBeEmpty)
  PROVE  Outcome(p)
<1>1. InvalidRequest \in Nat /\ UnsupportedPDU \in Nat /\ Success \in Nat
  BY DEF InvalidRequest, UnsupportedPDU, Success
<1>2. CASE v.multi
  <2>1. p \in Refuse(v, "InvalidState")
    BY <1>2, Zenon DEF Answer
  <2> QED BY <2>1, RefuseOutcome, Zenon
<1>3. CASE ~v.multi
  <2>1. \/ p = Reply(v, UnsupportedPDU) \/ p = Reply(v, InvalidRequest) \/ p = Reply(v, Success)
        \/ \E n \in ReadLengths : p = ReplyWith(v, n)
    BY <1>3, Zenon DEF Answer, Serialized
  <2> QED BY <1>1, <1>3, <2>1, ReplyOutcome, ReplyWithOutcome, Zenon
<1> QED BY <1>2, <1>3

\* The body of a timed write waits in the buffer.
LEMMA TimedWriteOutcome ==
  ASSUME NEW v, Requested(v), Secured(v), v.handled = Unhandled, v.asked.body = Body(v, v.tx.total),
         v.tx.total \in 0 .. ScratchBytes, NEW p \in TimedWriteRequest(v)
  PROVE  Outcome(p)
<1>1. CASE v.multi
  <2>1. p \in Refuse(v, "InvalidState")
    BY <1>1, Zenon DEF TimedWriteRequest
  <2> QED BY <2>1, RefuseOutcome, Zenon
<1>2. CASE ~v.multi
  <2>1. PICK u : u = [v EXCEPT !.multi = TRUE, !.stored = v.tx.total, !.prepared = v.asked]
    OBVIOUS
  <2>2. p = Reply(u, Success) /\ Success \in Nat
    <3>1. Success \in Nat
      BY DEF Success
    <3> QED BY <1>2, <2>1, <3>1, Zenon DEF TimedWriteRequest
  <2>3. /\ Changed(v, u, {"multi", "stored", "prepared"})
        /\ u.multi = TRUE /\ u.stored = v.tx.total /\ u.prepared = v.asked
    BY <2>1 DEF Requested, Kept, Session, Changed, Fields
  <2>4. u.scratch = v.scratch /\ u.tx = v.tx /\ u.handled = v.handled
    BY <2>3 DEF Changed, Fields
  <2>5. /\ SameSession(v, u) /\ ServerTypes(u) /\ ProcedureTypes(u) /\ Timed(u) /\ SentSound(u)
        /\ u.timer = v.timer /\ u.startedSecured = v.startedSecured /\ u.asked = v.asked /\ u.sent = v.sent
        /\ u.attached = v.attached
    <3>1. Changed(v, u, ProcedureFields)
      BY <2>3 DEF Changed, ProcedureFields
    <3>2. u.multi \in BOOLEAN /\ u.stored \in 0 .. ScratchBytes
      BY <2>3, Zenon
    <3>3. u.tx \in Transactions /\ u.scratch \in Buffers /\ u.prepared \in Messages /\ Kept(v) /\ v.timer
      BY <2>3, <2>4, Zenon DEF Requested, Kept, ProcedureTypes, Buffers
    <3> QED BY <3>1, <3>2, <3>3, ProcedureFrame, Zenon
  <2>6. u.tx.state \notin {"WaitingForInitialWrite", "ReadingRequest", "WaitingForInitialRead", "WritingResponse"}
    BY <2>4 DEF Requested
  <2>7. Sealing(u)
    <3>1. u.asked.sealed = u.startedSecured
      <4>1. v.tx.state # "WaitingForInitialWrite"
        BY DEF Requested
      <4> QED BY <2>5, <4>1, Zenon DEF Requested, Kept, Sealing
    <3>2. Trusted(u) => u.asked.sealed = IsSecured(u)
      BY <2>5, Zenon DEF Secured, SameSession, Trusted
    <3> QED BY <3>1, <3>2, Zenon DEF Sealing
  <2>8. RequestBuffered(u) /\ ResponseBuffered(u)
    BY <2>6, Zenon DEF RequestBuffered, ResponseBuffered
  <2>9. PreparedBuffered(u)
    BY <2>3, <2>4, <2>6, Zenon DEF PreparedBuffered, Body
  <2>10. HandledSound(u)
    <3>1. ~Unhandled.on
      BY DEF Unhandled
    <3> QED BY <2>4, <3>1, Zenon DEF HandledSound
  <2>11. Requested(u)
    BY <2>4, <2>5, <2>7, <2>8, <2>9, <2>10, Zenon DEF Requested, Kept, SameSession
  <2> QED BY <2>2, <2>11, ReplyOutcome, Zenon
<1> QED BY <1>1, <1>2

\* The timed write that is executed no longer waits.
LEMMA ExecuteRequested ==
  ASSUME NEW v, Requested(v), Secured(v), v.handled = Unhandled, NEW u, u = [v EXCEPT !.multi = FALSE]
  PROVE  Requested(u) /\ Secured(u) /\ u.prepared = v.prepared
<1>1. Changed(v, u, {"multi"}) /\ u.multi = FALSE
  BY DEF Requested, Kept, Session, Changed, Fields
<1>2. u.scratch = v.scratch /\ u.tx = v.tx /\ u.handled = v.handled /\ u.stored = v.stored /\ u.prepared = v.prepared
  BY <1>1 DEF Changed, Fields
<1>3. /\ SameSession(v, u) /\ ServerTypes(u) /\ ProcedureTypes(u) /\ Timed(u) /\ SentSound(u)
      /\ u.timer = v.timer /\ u.startedSecured = v.startedSecured /\ u.asked = v.asked /\ u.sent = v.sent
      /\ u.attached = v.attached
  <2>1. Changed(v, u, ProcedureFields)
    BY <1>1 DEF Changed, ProcedureFields
  <2>2. /\ u.tx \in Transactions /\ u.scratch \in Buffers /\ u.stored \in 0 .. ScratchBytes
        /\ u.prepared \in Messages /\ Kept(v) /\ v.timer
    BY <1>2, Zenon DEF Requested, Kept, ProcedureTypes, Buffers
  <2>3. u.multi \in BOOLEAN
    BY <1>1, Zenon
  <2> QED BY <2>1, <2>2, <2>3, ProcedureFrame, Zenon
<1>4. u.tx.state \notin {"WaitingForInitialWrite", "ReadingRequest", "WaitingForInitialRead", "WritingResponse"}
  BY <1>2 DEF Requested
<1>5. Sealing(u)
  <2>1. v.tx.state # "WaitingForInitialWrite"
    BY DEF Requested
  <2> QED BY <1>1, <1>3, <1>4, <2>1, Zenon DEF Requested, Kept, Sealing
<1>6. RequestBuffered(u) /\ ResponseBuffered(u) /\ PreparedBuffered(u)
  BY <1>1, <1>4, Zenon DEF RequestBuffered, ResponseBuffered, PreparedBuffered
<1>7. HandledSound(u)
  <2>1. ~Unhandled.on
    BY DEF Unhandled
  <2> QED BY <1>2, <2>1, Zenon DEF HandledSound
<1>8. Requested(u)
  BY <1>2, <1>3, <1>5, <1>6, <1>7, Zenon DEF Requested, Kept, SameSession
<1>9. Secured(u)
  BY <1>3, Zenon DEF Secured, SameSession, Orphan
<1> QED BY <1>2, <1>8, <1>9

\* A request that is complete is handled.
LEMMA HandlingRequested ==
  ASSUME NEW v, Kept(v), Idle(v), v.attached \in Characteristics, ~v.terminal, v.fault = "none",
         IsRequestAvailable(v.tx), NEW u, u = [v EXCEPT !.tx.state = "HandlingRequest"]
  PROVE  /\ Requested(u) /\ Secured(u) /\ u.handled = Unhandled /\ u.attached = v.attached
         /\ u.tx.total = v.tx.total /\ u.tx.max = v.tx.max /\ u.tx.opcode = v.tx.opcode
         /\ u.tx.total <= u.tx.max => u.asked.body = Body(u, u.tx.total) /\ u.tx.total \in 0 .. ScratchBytes
         /\ u.multi => u.prepared.body = Body(u, u.stored)
<1>1. PICK t : t = [v.tx EXCEPT !.state = "HandlingRequest"]
  OBVIOUS
<1>2. v.tx \in Transactions /\ v.tx.state = "ReadingRequest" /\ v.tx.offset = v.tx.total
  BY Zenon DEF Kept, ProcedureTypes, IsRequestAvailable
<1>3. /\ t \in Transactions /\ t.state = "HandlingRequest" /\ t.total = v.tx.total /\ t.max = v.tx.max
      /\ t.opcode = v.tx.opcode
  BY <1>1, <1>2 DEF Transactions, TransactionStates
<1>4. Changed(v, u, {"tx"}) /\ u.tx = t
  <2>1. u = [v EXCEPT !.tx = t]
    <3>1. u = [v EXCEPT !.tx = [v.tx EXCEPT !.state = "HandlingRequest"]]
      OBVIOUS
    <3> QED BY <1>1, <3>1, Zenon
  <2> QED BY <2>1 DEF Kept, Session, Changed, Fields
<1>5. /\ u.scratch = v.scratch /\ u.multi = v.multi /\ u.stored = v.stored
      /\ u.prepared = v.prepared /\ u.handled = v.handled
  BY <1>4 DEF Changed, Fields
<1>6. v.timer /\ v.handled = Unhandled /\ v.sent = Unsent
  <2>1. v.attached # Unattached
    BY PeripheralManagerAssumption, Zenon
  <2>2. v.tx.state # "WaitingForInitialWrite"
    BY <1>2
  <2> QED BY <2>1, <2>2, Zenon DEF Kept, Timed, Idle
<1>7. /\ SameSession(v, u) /\ ServerTypes(u) /\ ProcedureTypes(u) /\ Timed(u) /\ SentSound(u)
      /\ u.timer = v.timer /\ u.startedSecured = v.startedSecured /\ u.asked = v.asked /\ u.sent = v.sent
      /\ u.attached = v.attached
  <2>1. Changed(v, u, ProcedureFields)
    BY <1>4 DEF Changed, ProcedureFields
  <2>2. /\ u.tx \in Transactions /\ u.scratch \in Buffers /\ u.multi \in BOOLEAN /\ u.stored \in 0 .. ScratchBytes
        /\ u.prepared \in Messages
    BY <1>3, <1>4, <1>5, Zenon DEF Kept, ProcedureTypes, Buffers
  <2> QED BY <1>6, <2>1, <2>2, ProcedureFrame, Zenon
<1>8. u.tx.state \notin {"WaitingForInitialWrite", "ReadingRequest", "WaitingForInitialRead", "WritingResponse"}
      /\ v.tx.state # "WaitingForInitialWrite" /\ v.tx.state \in {"WaitingForInitialWrite", "ReadingRequest"}
  BY <1>2, <1>3, <1>4
<1>9. Sealing(u)
  BY <1>5, <1>7, <1>8, Zenon DEF Kept, Sealing, SameSession
<1>10. RequestBuffered(u) /\ ResponseBuffered(u)
  BY <1>8, Zenon DEF RequestBuffered, ResponseBuffered
<1>11. PreparedBuffered(u) /\ (u.multi => u.prepared.body = Body(u, u.stored))
  <2>1. PreparedBuffered(v)
    BY Zenon DEF Kept
  <2> QED BY <1>5, <1>6, <1>7, <1>8, <2>1, Zenon DEF PreparedBuffered, Body
<1>12. HandledSound(u)
  <2>1. ~Unhandled.on
    BY DEF Unhandled
  <2> QED BY <1>5, <1>6, <2>1, Zenon DEF HandledSound
<1>13. Requested(u)
  BY <1>3, <1>4, <1>6, <1>7, <1>9, <1>10, <1>11, <1>12, Zenon DEF Requested, Kept, SameSession
<1>14. Secured(u)
  <2>1. ~Orphan(v) => Trusted(v)
    BY Zenon DEF Trusted
  <2>2. Trusted(v) => v.startedSecured = IsSecured(v)
    BY <1>6, <1>8, Zenon DEF Kept, Sealing
  <2>3. v.asked.sealed = v.startedSecured
    BY <1>6, <1>8, Zenon DEF Kept, Sealing
  <2>4. Orphan(u) <=> Orphan(v)
    BY <1>7, Zenon DEF SameSession, Orphan
  <2> QED BY <1>7, <2>1, <2>2, <2>3, <2>4, Zenon DEF Secured, SameSession
<1>15. ASSUME u.tx.total <= u.tx.max
       PROVE  u.asked.body = Body(u, u.tx.total) /\ u.tx.total \in 0 .. ScratchBytes
  <2>1. u.tx.total = v.tx.total /\ v.tx.total <= v.tx.max
    BY <1>3, <1>4, <1>15, Zenon
  <2>2. v.asked.body = SubSeq(v.scratch, 1, v.tx.offset)
    BY <1>2, <1>6, <2>1, Zenon DEF Kept, RequestBuffered
  <2>3. v.tx.total \in 0 .. ScratchBytes
    <3>1. v.tx.total \in Nat /\ v.tx.max \in {0, ScratchBytes}
      BY <1>2, Zenon DEF Transactions
    <3> QED BY <2>1, <3>1
  <2> QED BY <1>2, <1>5, <1>7, <2>1, <2>2, <2>3, Zenon DEF Body
<1> QED BY <1>3, <1>4, <1>5, <1>6, <1>7, <1>11, <1>13, <1>14, <1>15, Zenon

\* What is done with a request x that fits, to the characteristic c, of opcode op
Processed(x, c, op) ==
  CASE op = Read -> ReadRequest(x, c, TRUE)
    [] op = Write -> WriteRequest(x, c, Body(x, x.tx.total), FALSE)
    [] op = TimedWrite -> TimedWriteRequest(x)
    [] op = ExecuteWrite ->
         IF ~x.multi THEN Refuse(x, "InvalidState")
         ELSE WriteRequest([x EXCEPT !.multi = FALSE], c, Body(x, x.stored), TRUE)
    [] op = ServiceSignatureRead -> ServiceSignatureRequest(x, c)
    [] op = SignatureRead -> SignatureRequest(x, c)
    [] op = Configuration -> ConfigurationRequest(x, c)
    [] op = ProtocolConfiguration -> ProtocolConfigurationRequest(x, c)
    [] op = Token -> TokenRequest(x, c)
    [] op = TokenUpdate -> TokenUpdateRequest(x, c)
    [] op = Info -> InfoRequest(x, c)

LEMMA ProcessIs ==
  ASSUME NEW v, NEW p \in ProcessTransaction(v)
  PROVE  LET x == [v EXCEPT !.tx.state = "HandlingRequest"]
         IN  \/ p = Reply(x, InvalidRequest) \/ p = Reply(x, UnsupportedPDU) \/ p = Reply(x, InvalidInstanceID)
             \/ /\ RequestFits(v.tx) /\ IsValidOpcode(v.tx.opcode)
                /\ p \in Processed(x, Db[v.attached], v.tx.opcode)
<1>1. ProcessTransaction(v) =
        IF ~RequestFits(v.tx) THEN {Reply([v EXCEPT !.tx.state = "HandlingRequest"], InvalidRequest)}
        ELSE IF ~IsValidOpcode(v.tx.opcode) THEN {Reply([v EXCEPT !.tx.state = "HandlingRequest"], UnsupportedPDU)}
        ELSE IF v.tx.iid # (IF IsServiceOperation(v.tx.opcode) THEN Db[v.attached].serviceIID ELSE Db[v.attached].iid)
                /\ v.tx.opcode # ServiceSignatureRead THEN {Reply([v EXCEPT !.tx.state = "HandlingRequest"], InvalidInstanceID)}
        ELSE Processed([v EXCEPT !.tx.state = "HandlingRequest"], Db[v.attached], v.tx.opcode)
  BY Zenon DEF ProcessTransaction, Processed
<1> QED BY <1>1, Zenon

\* HAPBLEProcedureProcessTransaction
LEMMA ProcessOutcome ==
  ASSUME NEW v, Kept(v), Idle(v), v.attached \in Characteristics, ~v.terminal, v.fault = "none",
         IsRequestAvailable(v.tx), NEW p \in ProcessTransaction(v)
  PROVE  Outcome(p)
<1>1. PICK x : x = [v EXCEPT !.tx.state = "HandlingRequest"]
  OBVIOUS
<1>2. PICK c, op : c = Db[v.attached] /\ op = v.tx.opcode
  OBVIOUS
<1>3. PICK y : y = [x EXCEPT !.multi = FALSE]
  OBVIOUS
<1>4. \/ p = Reply(x, InvalidRequest) \/ p = Reply(x, UnsupportedPDU) \/ p = Reply(x, InvalidInstanceID)
      \/ RequestFits(v.tx) /\ IsValidOpcode(op) /\ p \in Processed(x, c, op)
  BY <1>1, <1>2, ProcessIs, Zenon
<1>5. /\ Requested(x) /\ Secured(x) /\ x.handled = Unhandled
      /\ x.tx.total = v.tx.total /\ x.tx.max = v.tx.max
      /\ x.tx.total <= x.tx.max => x.asked.body = Body(x, x.tx.total) /\ x.tx.total \in 0 .. ScratchBytes
      /\ x.multi => x.prepared.body = Body(x, x.stored)
  BY <1>1, HandlingRequested, ZenonT(120)
<1>6. InvalidRequest \in Nat /\ UnsupportedPDU \in Nat /\ InvalidInstanceID \in Nat /\ Success \in Nat
  BY DEF InvalidRequest, UnsupportedPDU, InvalidInstanceID, Success
<1>7. CASE p = Reply(x, InvalidRequest) \/ p = Reply(x, UnsupportedPDU) \/ p = Reply(x, InvalidInstanceID)
  BY <1>5, <1>6, <1>7, ReplyOutcome, Zenon
<1>8. CASE RequestFits(v.tx) /\ IsValidOpcode(op) /\ p \in Processed(x, c, op)
  <2>1. op \in {Read, Write, TimedWrite, ExecuteWrite, ServiceSignatureRead, SignatureRead, Configuration,
                ProtocolConfiguration, Token, TokenUpdate, Info}
    BY <1>8 DEF IsValidOpcode, Read, Write, TimedWrite, ExecuteWrite, ServiceSignatureRead, SignatureRead,
       Configuration, ProtocolConfiguration, Token, TokenUpdate, Info
  <2>2. p \in Processed(x, c, op)
    BY <1>8
  <2>3. \/ p \in ReadRequest(x, c, TRUE)
        \/ p \in WriteRequest(x, c, Body(x, x.tx.total), FALSE)
        \/ p \in TimedWriteRequest(x)
        \/ p \in IF ~x.multi THEN Refuse(x, "InvalidState") ELSE WriteRequest(y, c, Body(x, x.stored), TRUE)
        \/ p \in ServiceSignatureRequest(x, c) \/ p \in SignatureRequest(x, c) \/ p \in ConfigurationRequest(x, c)
        \/ p \in ProtocolConfigurationRequest(x, c) \/ p \in TokenRequest(x, c) \/ p \in TokenUpdateRequest(x, c)
        \/ p \in InfoRequest(x, c)
    BY <1>3, <2>1, <2>2, Zenon DEF Processed
  <2>4. CASE p \in ReadRequest(x, c, TRUE)
    <3>1. TRUE \in BOOLEAN
      OBVIOUS
    <3> QED BY <1>5, <2>4, <3>1, ReadRequestOutcome, Zenon
  <2>5. x.asked.body = Body(x, x.tx.total) /\ x.tx.total \in 0 .. ScratchBytes
    BY <1>5, <1>8, Zenon DEF RequestFits
  <2>6. CASE p \in WriteRequest(x, c, Body(x, x.tx.total), FALSE)
    <3>1. FALSE \in BOOLEAN /\ Body(x, x.tx.total) = (IF FALSE THEN x.prepared ELSE x.asked).body
      BY <2>5, Zenon
    <3> QED BY <1>5, <2>6, <3>1, WriteRequestOutcome, Zenon
  <2>7. CASE p \in TimedWriteRequest(x)
    BY <1>5, <2>5, <2>7, TimedWriteOutcome, Zenon
  <2>8. CASE p \in IF ~x.multi THEN Refuse(x, "InvalidState") ELSE WriteRequest(y, c, Body(x, x.stored), TRUE)
    <3>1. CASE ~x.multi
      <4>1. p \in Refuse(x, "InvalidState")
        BY <2>8, <3>1, Zenon
      <4> QED BY <1>5, <4>1, RefuseOutcome, Zenon
    <3>2. CASE x.multi
      <4>1. p \in WriteRequest(y, c, Body(x, x.stored), TRUE)
        BY <2>8, <3>2, Zenon
      <4>2. Requested(y) /\ Secured(y) /\ y.prepared = x.prepared
        BY <1>3, <1>5, ExecuteRequested, Zenon
      <4>3. TRUE \in BOOLEAN /\ Body(x, x.stored) = (IF TRUE THEN y.prepared ELSE y.asked).body
        BY <1>5, <3>2, <4>2, Zenon
      <4> QED BY <4>1, <4>2, <4>3, WriteRequestOutcome, Zenon
    <3> QED BY <3>1, <3>2
  <2>9. CASE p \in TokenUpdateRequest(x, c)
    <3>1. p \in Answer(x, FALSE, FALSE) \/ p = Reply(x, InvalidRequest) \/ p = Reply(x, Success)
      BY <2>9, Zenon DEF TokenUpdateRequest
    <3> QED BY <1>5, <1>6, <3>1, AnswerOutcome, ReplyOutcome, Zenon
  <2>10. CASE \/ p \in ServiceSignatureRequest(x, c) \/ p \in SignatureRequest(x, c) \/ p \in ConfigurationRequest(x, c)
              \/ p \in ProtocolConfigurationRequest(x, c) \/ p \in TokenRequest(x, c) \/ p \in InfoRequest(x, c)
    BY <1>5, <2>10, AnswerOutcome, Zenon DEF ServiceSignatureRequest, SignatureRequest, ConfigurationRequest,
       ProtocolConfigurationRequest, TokenRequest, InfoRequest
  <2> QED BY <2>3, <2>4, <2>6, <2>7, <2>8, <2>9, <2>10, Zenon
<1> QED BY <1>4, <1>7, <1>8, Zenon

-----------------------------------------------------------------------------
(* A response is read. *)

LEMMA ByteCounts ==
  /\ \A n \in Nat : AsLittleUInt16(n) \in Seq(Nat) /\ Len(AsLittleUInt16(n)) = 2
  /\ \A n \in Nat, m \in Nat : <<n, m>> \in Seq(Nat) /\ Len(<<n, m>>) = 2
  /\ \A n \in Nat : <<n>> \in Seq(Nat) /\ Len(<<n>>) = 1 /\ <<n>>[1] = n
  /\ <<>> \in Seq(Nat) /\ Len(<<>>) = 0
<1>1. \A n \in Nat, m \in Nat : <<n, m>> \in Seq(Nat) /\ Len(<<n, m>>) = 2
  OBVIOUS
<1>2. \A n \in Nat : n % 256 \in Nat /\ n \div 256 \in Nat
  OBVIOUS
<1>3. \A n \in Nat : AsLittleUInt16(n) \in Seq(Nat) /\ Len(AsLittleUInt16(n)) = 2
  BY <1>1, <1>2, Zenon DEF AsLittleUInt16
<1>4. \A n \in Nat : <<n>> \in Seq(Nat) /\ Len(<<n>>) = 1 /\ <<n>>[1] = n
  OBVIOUS
<1>5. <<>> \in Seq(Nat) /\ Len(<<>>) = 0
  OBVIOUS
<1> QED BY <1>1, <1>3, <1>4, <1>5, Zenon

\* What follows the header is the body.
LEMMA PayloadOf ==
  ASSUME NEW header \in Seq(Nat), Len(header) \in 2 .. 5, NEW body \in Seq({ResponseByte}),
         NEW b, b = header \o body,
         header[1] >= Continuation \/ Len(header) = 5 \/ body = <<>>,
         header[1] >= Continuation => Len(header) = 2
  PROVE  Payload(b) \in Seq({ResponseByte})
<1>1. Len(header) \in Nat /\ Len(body) \in Nat /\ \A k \in 1 .. Len(body) : body[k] \in {ResponseByte}
  BY LenProperties, ElementOfSeq
<1>2. header \in Seq(Nat) /\ body \in Seq(Nat)
  <2>1. {ResponseByte} \subseteq Nat
    BY DEF ResponseByte
  <2> QED BY <2>1
<1>3. /\ Len(b) = Len(header) + Len(body)
      /\ \A k \in 1 .. Len(header) + Len(body) :
           b[k] = IF k <= Len(header) THEN header[k] ELSE body[k - Len(header)]
  BY <1>2, ConcatProperties, Zenon
<1>31. \A l \in Nat : (l = 2 => 3 = l + 1) /\ (l = 5 => 6 = l + 1) /\ (l \in 2 .. 5 => 6 >= l + 1)
  OBVIOUS
<1>4. b[1] = header[1]
  BY <1>1, <1>3
<1>5. ASSUME NEW m \in {3, 6}, m = Len(header) + 1 \/ (body = <<>> /\ m >= Len(header) + 1)
      PROVE  SubSeq(b, m, Len(b)) \in Seq({ResponseByte})
  <2>1. m \in Int /\ Len(b) \in Int
    BY <1>1, <1>3
  <2>2. \A k \in m .. Len(b) : b[k] \in {ResponseByte}
    <3>1. CASE m = Len(header) + 1
      BY <1>1, <1>3, <3>1
    <3>2. CASE body = <<>> /\ m >= Len(header) + 1
      <4>1. Len(body) = 0
        BY <3>2
      <4> QED BY <1>1, <1>3, <3>2, <4>1
    <3> QED BY <1>5, <3>1, <3>2
  <2> QED BY <2>1, <2>2, SubSeqProperties, Zenon
<1>6. CASE header[1] >= Continuation
  <2>1. 3 \in {3, 6} /\ 3 = Len(header) + 1
    BY <1>1, <1>31, <1>6, Zenon
  <2>2. Payload(b) = SubSeq(b, 3, Len(b))
    BY <1>4, <1>6, Zenon DEF Payload
  <2> QED BY <1>5, <2>1, <2>2, Zenon
<1>7. CASE ~(header[1] >= Continuation)
  <2>1. 6 \in {3, 6} /\ (6 = Len(header) + 1 \/ (body = <<>> /\ 6 >= Len(header) + 1))
    BY <1>1, <1>31, <1>7, Zenon
  <2>2. Payload(b) = SubSeq(b, 6, Len(b))
    BY <1>4, <1>7, Zenon DEF Payload
  <2> QED BY <1>5, <2>1, <2>2, Zenon
<1> QED BY <1>6, <1>7

ResponsePdu(pdu, fragment, fixed, length, body) ==
  /\ fragment \in {First, Continuation}
  /\ pdu.fragment = fragment /\ pdu.type = Response /\ pdu.body = body
  /\ fixed = IF fragment = First THEN <<pdu.tid, pdu.status>> ELSE <<pdu.tid>>
  /\ length = IF fragment = First /\ pdu.hasBody THEN AsLittleUInt16(pdu.total) ELSE <<>>

Concatenated(p, fragment, fixed, length, body) == p.bytes = <<fragment + Response>> \o fixed \o length \o body

LEMMA SerializeIs ==
  ASSUME NEW pdu, NEW fragment, NEW fixed, NEW length, NEW body, ResponsePdu(pdu, fragment, fixed, length, body),
         NEW n, Serialize(pdu, n).err = "none"
  PROVE  Concatenated(Serialize(pdu, n), fragment, fixed, length, body)
<1>1. PICK p : p = Serialize(pdu, n)
  OBVIOUS
<1>2. p.err = "none"
  BY <1>1, Zenon
<1>3. Response # Request /\ First # Continuation
  BY DEF Response, Request, First, Continuation
<1>5. fixed = IF pdu.fragment = Continuation THEN <<pdu.tid>>
              ELSE IF pdu.type = Request THEN <<pdu.opcode, pdu.tid>> \o AsLittleUInt16(pdu.iid)
              ELSE <<pdu.tid, pdu.status>>
  BY <1>3, Zenon DEF ResponsePdu
<1>7. length = IF pdu.fragment = First /\ pdu.hasBody THEN AsLittleUInt16(pdu.total) ELSE <<>>
  BY Zenon DEF ResponsePdu
<1>8. PICK b : b = <<fragment + Response>> \o fixed \o length \o body
  OBVIOUS
<1>9. b = <<pdu.fragment + pdu.type>> \o fixed \o length \o pdu.body
  BY <1>8, Zenon DEF ResponsePdu
<1>10. p = IF Len(b) > n THEN OutOfResources ELSE [bytes |-> b, err |-> "none"]
  BY <1>1, <1>5, <1>7, <1>9, Zenon DEF Serialize
<1>11. p.bytes = b
  BY <1>2, <1>10 DEF OutOfResources
<1> QED BY <1>1, <1>8, <1>11, Zenon DEF Concatenated

\* The header of a response
HeaderIs(h, x, fixed, length) == h = <<x>> \o fixed \o length
Header(h, x, fixed, length) == h \in Seq(Nat) /\ Len(h) = 1 + Len(fixed) + Len(length) /\ h[1] = x

LEMMA HeaderOf ==
  ASSUME NEW x \in Nat, NEW fixed \in Seq(Nat), NEW length \in Seq(Nat), NEW h, HeaderIs(h, x, fixed, length)
  PROVE  Header(h, x, fixed, length)
<1>1. <<x>> \in Seq(Nat) /\ Len(<<x>>) = 1 /\ <<x>>[1] = x
  OBVIOUS
<1>2. PICK y : y = <<x>> \o fixed
  OBVIOUS
<1>3. Len(fixed) \in Nat /\ Len(length) \in Nat
  BY LenProperties
<1>4. /\ y \in Seq(Nat) /\ Len(y) = 1 + Len(fixed)
      /\ \A i \in 1 .. 1 + Len(fixed) : y[i] = IF i <= 1 THEN <<x>>[i] ELSE fixed[i - 1]
  BY <1>1, <1>2, ConcatProperties, Zenon
<1>5. y[1] = x
  <2>1. 1 \in 1 .. 1 + Len(fixed) /\ 1 <= 1
    BY <1>3
  <2> QED BY <1>1, <1>4, <2>1, Zenon
<1>6. /\ h = y \o length /\ y \o length \in Seq(Nat) /\ Len(y \o length) = Len(y) + Len(length)
      /\ \A i \in 1 .. Len(y) + Len(length) :
           (y \o length)[i] = IF i <= Len(y) THEN y[i] ELSE length[i - Len(y)]
  <2>1. h = y \o length
    BY <1>2, Zenon DEF HeaderIs
  <2> QED BY <1>4, <2>1, ConcatProperties, Zenon
<1>7. h[1] = x
  <2>1. 1 \in 1 .. Len(y) + Len(length) /\ 1 <= Len(y)
    BY <1>3, <1>4
  <2>2. (y \o length)[1] = y[1]
    BY <1>6, <2>1, Zenon
  <2> QED BY <1>5, <1>6, <2>2, Zenon
<1>8. Len(h) = 1 + Len(fixed) + Len(length) /\ h \in Seq(Nat)
  BY <1>4, <1>6, Zenon
<1> QED BY <1>7, <1>8, Zenon DEF Header

\* What is read of a response, as long as the buffer holds it, is of the response.
ResponseIn(t, buffer) ==
  /\ t.offset <= t.total /\ t.total <= ScratchBytes
  /\ t.state = "WaitingForInitialRead" => t.offset = 0
  /\ ~t.hasBody => t.total = 0
  /\ \A k \in 1 .. t.total : buffer[k] = ResponseByte
ResponseTaken(t, r) ==
  /\ t.state \in {"WaitingForInitialRead", "WritingResponse"}
  /\ r.tx \in Transactions /\ r.tx.state = "WritingResponse" /\ r.tx.total = t.total /\ r.tx.max = t.max
  /\ r.tx.hasBody = t.hasBody /\ r.tx.offset <= t.total
  /\ Payload(r.bytes) \in Seq({ResponseByte})

LEMMA TransactionReadIs ==
  ASSUME NEW t \in Transactions, NEW buffer \in Buffers, NEW max \in Nat,
         t.state \in {"WaitingForInitialRead", "WritingResponse"} => ResponseIn(t, buffer),
         NEW r, r = TransactionRead(t, buffer, max), r.err = "none"
  PROVE  ResponseTaken(t, r)
<1> DEFINE first == t.state = "WaitingForInitialRead"
           header == IF first THEN (IF t.total > 0 THEN 5 ELSE 3) ELSE 2
<1>1. PICK n : n = AnyOf(max - header, t.total - t.offset)
  OBVIOUS
<1>2. PICK fragment : fragment = IF first THEN First ELSE Continuation
  OBVIOUS
<1>3. PICK body : body = SubSeq(buffer, t.offset + 1, t.offset + n)
  OBVIOUS
<1>4. PICK pdu : \E response : /\ response = [fragment |-> fragment, type |-> Response, tid |-> t.tid, status |-> t.status,
                                            total |-> t.total, hasBody |-> t.hasBody, body |-> body]
                              /\ pdu = Serialize(response, max)
  OBVIOUS
<1>5. r = IF t.state \notin {"WaitingForInitialRead", "WritingResponse"} THEN Fail("InvalidState")
          ELSE IF max < header THEN Fail("OutOfResources")
          ELSE IF pdu.err # "none" THEN Fail(pdu.err)
          ELSE [err |-> "none", bytes |-> pdu.bytes, final |-> t.offset + n = t.total,
                tx |-> [t EXCEPT !.state = "WritingResponse", !.offset = t.offset + n]]
  BY <1>1, <1>2, <1>3, <1>4, ZenonT(120) DEF TransactionRead, Fragment
<1>6. /\ t.state \in {"WaitingForInitialRead", "WritingResponse"} /\ ~(max < header) /\ pdu.err = "none"
      /\ r.bytes = pdu.bytes /\ r.tx = [t EXCEPT !.state = "WritingResponse", !.offset = t.offset + n]
  BY <1>5 DEF Fail
<1>7. /\ t.total \in Nat /\ t.offset \in Nat /\ t.tid \in Nat /\ t.status \in Nat /\ t.hasBody \in BOOLEAN
      /\ header \in {2, 3, 5}
  BY DEF Transactions
<1>8. /\ t.offset <= t.total /\ t.total <= ScratchBytes /\ (first => t.offset = 0) /\ (~t.hasBody => t.total = 0)
      /\ \A k \in 1 .. t.total : buffer[k] = ResponseByte
  BY <1>6, Zenon DEF ResponseIn
<1> HIDE DEF first, header
<1>9. n \in Nat /\ t.offset + n <= t.total /\ (t.total = 0 => n = 0)
  BY <1>1, <1>6, <1>7, <1>8 DEF AnyOf
<1>10. /\ body \in Seq({ResponseByte}) /\ (n = 0 => body = <<>>)
  <2>1. t.offset + 1 \in Int /\ t.offset + n \in Int /\ \A k \in t.offset + 1 .. t.offset + n : k \in 1 .. t.total
    BY <1>7, <1>9
  <2>2. body \in Seq({ResponseByte})
    <3>1. \A k \in t.offset + 1 .. t.offset + n : buffer[k] \in {ResponseByte}
      BY <1>8, <2>1, Zenon
    <3> QED BY <1>3, <2>1, <3>1, SubSeqProperties, Zenon
  <2>3. n = 0 => body = <<>>
    <3>1. n = 0 => t.offset + n < t.offset + 1
      BY <1>7, <1>9
    <3> QED BY <1>3, <2>1, <3>1, SubSeqEmpty, Zenon
  <2> QED BY <2>2, <2>3
<1>11. PICK fixed : fixed = IF fragment = First THEN <<t.tid, t.status>> ELSE <<t.tid>>
  OBVIOUS
<1>12. PICK length : length = IF fragment = First /\ t.hasBody THEN AsLittleUInt16(t.total) ELSE <<>>
  OBVIOUS
<1>130. PICK x : x = fragment + Response
  OBVIOUS
<1>13. PICK h : h = <<x>> \o fixed \o length
  OBVIOUS
<1>14. r.bytes = h \o body /\ HeaderIs(h, x, fixed, length)
  <2>1. fragment \in {First, Continuation}
    BY <1>2
  <2>2. pdu.bytes = <<fragment + Response>> \o fixed \o length \o body
    <3>1. PICK response : /\ response = [fragment |-> fragment, type |-> Response, tid |-> t.tid, status |-> t.status,
                                          total |-> t.total, hasBody |-> t.hasBody, body |-> body]
                          /\ pdu = Serialize(response, max)
      BY <1>4
    <3>4. /\ response.fragment = fragment /\ response.type = Response /\ response.tid = t.tid
          /\ response.status = t.status /\ response.total = t.total /\ response.hasBody = t.hasBody
          /\ response.body = body
      BY <3>1
    <3>2. ResponsePdu(response, fragment, fixed, length, body)
      BY <1>11, <1>12, <2>1, <3>4, Zenon DEF ResponsePdu
    <3>3. pdu = Serialize(response, max) /\ pdu.err = "none"
      BY <1>6, <3>1
    <3>5. Serialize(response, max).err = "none"
      BY <3>3, Zenon
    <3>6. Concatenated(Serialize(response, max), fragment, fixed, length, body)
      BY <3>2, <3>5, SerializeIs, Zenon
    <3> QED BY <3>3, <3>6, Zenon DEF Concatenated
  <2> QED BY <1>6, <1>13, <1>130, <2>2, Zenon DEF HeaderIs
<1>15. /\ r.tx \in Transactions /\ r.tx.state = "WritingResponse" /\ r.tx.total = t.total /\ r.tx.max = t.max
       /\ r.tx.hasBody = t.hasBody /\ r.tx.offset = t.offset + n
  <2>1. t.offset + n \in Nat
    BY <1>7, <1>9
  <2> QED BY <1>6, <2>1 DEF Transactions, TransactionStates
<1>16. Payload(r.bytes) \in Seq({ResponseByte})
  <2>1. CASE fragment = First
    <3>1. x \in Nat /\ ~(x >= Continuation)
      BY <1>130, <2>1 DEF First, Response, Continuation
    <3>2. fixed \in Seq(Nat) /\ Len(fixed) = 2
      BY <1>7, <1>11, <2>1, ByteCounts, Zenon
    <3>3. CASE t.hasBody
      <4>1. length \in Seq(Nat) /\ Len(length) = 2
        BY <1>7, <1>12, <2>1, <3>3, ByteCounts, Zenon
      <4>2. h \in Seq(Nat) /\ Len(h) = 1 + Len(fixed) + Len(length) /\ h[1] = x
        <5>1. Header(h, x, fixed, length)
          BY <1>14, <3>1, <3>2, <4>1, HeaderOf, Zenon
        <5> QED BY <5>1 DEF Header
      <4>3. Len(h) = 5 /\ Len(h) \in 2 .. 5
        BY <3>2, <4>1, <4>2
      <4> QED BY <1>10, <1>14, <3>1, <4>2, <4>3, PayloadOf, Zenon
    <3>4. CASE ~t.hasBody
      <4>1. length \in Seq(Nat) /\ Len(length) = 0
        BY <1>12, <3>4, ByteCounts, Zenon
      <4>2. h \in Seq(Nat) /\ Len(h) = 1 + Len(fixed) + Len(length) /\ h[1] = x
        <5>1. Header(h, x, fixed, length)
          BY <1>14, <3>1, <3>2, <4>1, HeaderOf, Zenon
        <5> QED BY <5>1 DEF Header
      <4>3. Len(h) \in 2 .. 5
        BY <3>2, <4>1, <4>2
      <4>4. body = <<>>
        BY <1>8, <1>9, <1>10, <3>4, Zenon
      <4> QED BY <1>10, <1>14, <3>1, <4>2, <4>3, <4>4, PayloadOf, Zenon
    <3> QED BY <1>7, <3>3, <3>4
  <2>2. CASE fragment # First
    <3>1. x \in Nat /\ x >= Continuation
      BY <1>2, <1>130, <2>2 DEF Continuation, Response
    <3>2. fixed \in Seq(Nat) /\ Len(fixed) = 1
      BY <1>7, <1>11, <2>2, ByteCounts, Zenon
    <3>3. length \in Seq(Nat) /\ Len(length) = 0
      BY <1>12, <2>2, ByteCounts, Zenon
    <3>4. h \in Seq(Nat) /\ Len(h) = 1 + Len(fixed) + Len(length) /\ h[1] = x
      <4>1. Header(h, x, fixed, length)
        BY <1>14, <3>1, <3>2, <3>3, HeaderOf, Zenon
      <4> QED BY <4>1 DEF Header
    <3>5. Len(h) = 2 /\ Len(h) \in 2 .. 5
      BY <3>2, <3>3, <3>4
    <3>6. h[1] >= Continuation
      BY <3>1, <3>4, Zenon
    <3> QED BY <1>10, <1>14, <3>4, <3>5, <3>6, PayloadOf, Zenon
  <2> QED BY <2>1, <2>2
<1>17. r.tx.offset <= t.total
  BY <1>9, <1>15, Zenon
<1> QED BY <1>6, <1>15, <1>16, <1>17, Zenon DEF ResponseTaken

-----------------------------------------------------------------------------
(* A response is read by the central. *)

\* As long as it lasts the response is in the buffer; then the procedure is over, or waits
\* for the request that executes a timed write.
LEMMA ReadingKept ==
  ASSUME NEW v, Kept(v), v.timer, v.tx.state \in {"WaitingForInitialRead", "WritingResponse"},
         NEW u, Changed(v, u, {"tx", "sent", "timer"}), u.tx \in Transactions, u.timer \in BOOLEAN,
         \/ u.timer /\ u.tx.state = "WritingResponse" /\ ResponseIn(u.tx, v.scratch)
         \/ u.timer /\ v.multi /\ u.tx.state = "WaitingForInitialWrite" /\ u.tx.max = 0
         \/ ~u.timer /\ ~v.multi /\ u.tx.state = "WaitingForInitialWrite",
         u.sent # Unsent => u.sent.sealed = v.startedSecured
  PROVE  Kept(u)
<1>1. /\ u.state = v.state /\ u.attached = v.attached
      /\ u.startedSecured = v.startedSecured /\ u.multi = v.multi /\ u.stored = v.stored
      /\ u.scratch = v.scratch /\ u.asked = v.asked /\ u.prepared = v.prepared /\ u.pending = v.pending
      /\ u.handled = v.handled /\ u.received = v.received
  BY DEF Changed, Fields
<1>2. SameSession(v, u)
  <2>1. Changed(v, u, OtherFields)
    BY DEF Changed, OtherFields
  <2> QED BY <2>1, SessionUnchanged, Zenon DEF Kept
<1>3. ServerTypes(u) /\ ProcedureTypes(u)
  BY <1>1, Zenon DEF Kept, ServerTypes, ProcedureTypes
<1>4. Timed(u)
  <2>1. u.connected
    BY <1>2, Zenon DEF Kept, Timed, SameSession
  <2> QED BY <1>1, <2>1, Zenon DEF Timed
<1>5. v.asked.sealed = v.startedSecured
  BY DEF Kept, Sealing
<1>6. Sealing(u)
  <2>1. v.multi /\ Trusted(v) => v.startedSecured = IsSecured(v)
    BY Zenon DEF Kept, Sealing
  <2>2. "WritingResponse" \notin {"WaitingForInitialWrite", "ReadingRequest"}
    OBVIOUS
  <2> QED BY <1>1, <1>2, <1>5, <2>1, <2>2, Zenon DEF Sealing, SameSession
<1>7. RequestBuffered(u)
  BY DEF RequestBuffered
<1>8. PreparedBuffered(u)
  <2>1. v.multi => v.prepared.body = SubSeq(v.scratch, 1, v.stored)
    BY Zenon DEF Kept, PreparedBuffered
  <2>2. "WritingResponse" \notin {"WaitingForInitialWrite", "ReadingRequest"}
    OBVIOUS
  <2> QED BY <1>1, <2>1, <2>2, Zenon DEF PreparedBuffered
<1>9. ResponseBuffered(u)
  <2>1. CASE u.tx.state = "WritingResponse" /\ ResponseIn(u.tx, v.scratch)
    BY <1>1, <2>1, Zenon DEF ResponseBuffered, ResponseIn
  <2>2. CASE u.tx.state = "WaitingForInitialWrite"
    BY <2>2 DEF ResponseBuffered
  <2> QED BY <2>1, <2>2
<1>10. HandledSound(u)
  BY <1>1, <1>2, Zenon DEF Kept, HandledSound, SameSession
<1>11. SentSound(u)
  BY <1>1, <1>5, Zenon DEF SentSound
<1> QED BY <1>2, <1>3, <1>4, <1>6, <1>7, <1>8, <1>9, <1>10, <1>11, Zenon DEF Kept, SameSession

\* What the central is given to read is of a response.
ReadSound(u) == Kept(u) /\ (u.sent # Unsent => Payload(u.sent.bytes) \in Seq({ResponseByte}))

LEMMA AfterReadSound ==
  ASSUME NEW v, ReadSound(v)
  PROVE  ReadSound(AfterRead(DidSendGATTResponse(v)))
<1>1. PICK u : u = DidSendGATTResponse(v)
  OBVIOUS
<1>2. Kept(u) /\ u.sent = v.sent
  BY <1>1, TimersKept, Zenon DEF ReadSound, Rest
<1>3. Kept(Invalidate(u, TRUE)) /\ Invalidate(u, TRUE).sent = u.sent
  BY <1>2, InvalidateKept, Zenon DEF Rest
<1>4. AfterRead(u) = u \/ AfterRead(u) = Invalidate(u, TRUE)
  BY Zenon DEF AfterRead
<1> QED BY <1>1, <1>2, <1>3, <1>4, Zenon DEF ReadSound

LEMMA Created0 ==
  /\ Create(0) \in Transactions /\ Create(0).state = "WaitingForInitialWrite" /\ Create(0).max = 0
  /\ Create(ScratchBytes) \in Transactions /\ Create(ScratchBytes).state = "WaitingForInitialWrite"
BY DEF Create, Transactions, TransactionStates

LEMMA CompletedSound ==
  ASSUME NEW v, Kept(v), v.timer, v.tx.state \in {"WaitingForInitialRead", "WritingResponse"},
         NEW x, Changed(v, x, {"tx", "sent"}), x.sent # Unsent => x.sent.sealed = v.startedSecured,
         x.sent # Unsent => Payload(x.sent.bytes) \in Seq({ResponseByte})
  PROVE  ReadSound(CompleteTransaction(x))
<1>1. PICK u : u = CompleteTransaction(x)
  OBVIOUS
<1>2. PICK one, other : one = Create(0) /\ other = Create(ScratchBytes)
  OBVIOUS
<1>3. x.timer /\ x.multi = v.multi /\ DOMAIN x = Fields
  BY DEF Changed, Fields
<1>4. CASE v.multi
  <2>1. u = [x EXCEPT !.tx = one]
    BY <1>1, <1>2, <1>3, <1>4, Zenon DEF CompleteTransaction
  <2>2. Changed(v, u, {"tx", "sent", "timer"}) /\ u.tx = one /\ u.timer = v.timer /\ u.sent = x.sent
    BY <2>1 DEF Changed, Fields
  <2>3. Kept(u)
    BY <1>2, <1>4, <2>2, Created0, ReadingKept, Zenon DEF Kept, ProcedureTypes
  <2> QED BY <1>1, <2>2, <2>3, Zenon DEF ReadSound
<1>5. CASE ~v.multi
  <2>1. u = [x EXCEPT !.timer = FALSE, !.tx = other]
    BY <1>1, <1>2, <1>3, <1>5, Zenon DEF CompleteTransaction
  <2>2. Changed(v, u, {"tx", "sent", "timer"}) /\ u.tx = other /\ u.timer = FALSE /\ u.sent = x.sent
    BY <1>3, <2>1 DEF Changed, Fields
  <2>3. Kept(u)
    BY <1>2, <1>5, <2>2, Created0, ReadingKept, Zenon
  <2> QED BY <1>1, <2>2, <2>3, Zenon DEF ReadSound
<1> QED BY <1>4, <1>5

LEMMA RespondSound ==
  ASSUME NEW v, Kept(v), v.sent = Unsent, v.attached \in Characteristics, NEW max \in Nat
  PROVE  ReadSound(Respond(v, max).w)
<1>1. PICK p : p = Respond(v, max)
  OBVIOUS
<1>2. PICK r : r = TransactionRead(v.tx, v.scratch, max)
  OBVIOUS
<1>3. PICK sent : sent = [bytes |-> r.bytes, sealed |-> v.startedSecured, final |-> r.final]
  OBVIOUS
<1>4. PICK x : x = [v EXCEPT !.tx = r.tx, !.sent = sent]
  OBVIOUS
<1>5. p = IF r.err # "none" THEN [err |-> r.err, w |-> v]
          ELSE IF v.startedSecured /\ ~v.active THEN [err |-> "InvalidState", w |-> [v EXCEPT !.tx = r.tx]]
          ELSE [err |-> "none", w |-> AfterRead(DidSendGATTResponse(IF r.final THEN CompleteTransaction(x) ELSE x))]
  BY <1>1, <1>2, <1>3, <1>4, Zenon DEF Respond
<1>6. CASE r.err # "none"
  <2>1. p.w = v
    BY <1>5, <1>6
  <2> QED BY <1>1, <2>1, Zenon DEF ReadSound
<1>7. CASE r.err = "none"
  <2>1. ResponseTaken(v.tx, r)
    <3>1. /\ v.tx \in Transactions /\ v.scratch \in Buffers
          /\ v.tx.state \in {"WaitingForInitialRead", "WritingResponse"} => ResponseIn(v.tx, v.scratch)
      BY Zenon DEF Kept, ProcedureTypes, Buffers, ResponseBuffered, ResponseIn
    <3> QED BY <1>2, <1>7, <3>1, TransactionReadIs, Zenon
  <2>2. v.tx.state \in {"WaitingForInitialRead", "WritingResponse"} /\ v.tx.state # "WaitingForInitialWrite"
    BY <2>1 DEF ResponseTaken
  <2>3. v.timer
    BY <2>2, PeripheralManagerAssumption, Zenon DEF Kept, Timed
  <2>4. /\ r.tx \in Transactions /\ r.tx.state = "WritingResponse" /\ ResponseIn(r.tx, v.scratch)
    <3>1. /\ r.tx \in Transactions /\ r.tx.state = "WritingResponse" /\ r.tx.offset <= r.tx.total
          /\ r.tx.total = v.tx.total /\ r.tx.hasBody = v.tx.hasBody
      BY <2>1, Zenon DEF ResponseTaken
    <3>2. /\ v.tx.total <= ScratchBytes /\ (~v.tx.hasBody => v.tx.total = 0)
          /\ \A k \in 1 .. v.tx.total : v.scratch[k] = ResponseByte
      BY <2>2, Zenon DEF Kept, ResponseBuffered
    <3>3. "WritingResponse" # "WaitingForInitialRead"
      OBVIOUS
    <3> QED BY <3>1, <3>2, <3>3, Zenon DEF ResponseIn
  <2>5. PICK t : t = r.tx
    OBVIOUS
  <2>6. CASE v.startedSecured /\ ~v.active
    <3>1. PICK u : u = [v EXCEPT !.tx = t]
      OBVIOUS
    <3>2. p.w = u
      BY <1>5, <1>7, <2>5, <2>6, <3>1
    <3>3. Changed(v, u, {"tx", "sent", "timer"}) /\ u.tx = t /\ u.timer = v.timer /\ u.sent = v.sent
      BY <3>1 DEF Changed, Kept, Session, Fields
    <3>4. u.timer \in BOOLEAN
      BY <3>3, Zenon DEF Kept, ProcedureTypes
    <3>5. Kept(u)
      BY <2>2, <2>3, <2>4, <2>5, <3>3, <3>4, ReadingKept, Zenon
    <3> QED BY <1>1, <3>2, <3>3, <3>5, Zenon DEF ReadSound
  <2>7. CASE ~(v.startedSecured /\ ~v.active)
    <3>1. x = [v EXCEPT !.tx = t, !.sent = sent]
      BY <1>4, <2>5, Zenon
    <3>2. Changed(v, x, {"tx", "sent"}) /\ x.tx = t /\ x.timer = v.timer /\ x.sent = sent
      BY <3>1 DEF Changed, Kept, Session, Fields
    <3>3. sent.sealed = v.startedSecured /\ sent.bytes = r.bytes
      BY <1>3
    <3>4. Payload(sent.bytes) \in Seq({ResponseByte})
      BY <2>1, <3>3, Zenon DEF ResponseTaken
    <3>5. ReadSound(CompleteTransaction(x))
      BY <2>2, <2>3, <3>2, <3>3, <3>4, CompletedSound, Zenon
    <3>6. ReadSound(x)
      <4>1. Changed(v, x, {"tx", "sent", "timer"})
        BY <3>2 DEF Changed
      <4>2. x.timer \in BOOLEAN
        BY <3>2, Zenon DEF Kept, ProcedureTypes
      <4>3. Kept(x)
        BY <2>2, <2>3, <2>4, <2>5, <3>2, <3>3, <4>1, <4>2, ReadingKept, Zenon
      <4> QED BY <3>2, <3>4, <4>3, Zenon DEF ReadSound
    <3>7. PICK z : z = IF r.final THEN CompleteTransaction(x) ELSE x
      OBVIOUS
    <3>8. ReadSound(z)
      BY <3>5, <3>6, <3>7, Zenon
    <3>9. p.w = AfterRead(DidSendGATTResponse(z))
      BY <1>5, <1>7, <2>7, <3>7
    <3> QED BY <1>1, <3>8, <3>9, AfterReadSound, Zenon
  <2> QED BY <2>6, <2>7
<1> QED BY <1>6, <1>7

LEMMA ProcedureReadSound ==
  ASSUME NEW v, Kept(v), Idle(v), v.attached \in Characteristics, v.fault = "none", NEW max \in Nat,
         NEW p \in ProcedureRead(v, max)
  PROVE  ReadSound(p.w)
<1>1. CASE v.terminal
  <2>1. p = [err |-> "InvalidState", w |-> v]
    BY <1>1 DEF ProcedureRead, Refuse
  <2>2. p.w = v
    BY <2>1
  <2> QED BY <2>2, Zenon DEF ReadSound, Idle
<1>2. CASE ~v.terminal
  <2>1. PICK q \in (IF IsRequestAvailable(v.tx) THEN ProcessTransaction(v) ELSE {[err |-> "none", w |-> v]}) :
          p = IF q.err # "none" THEN q ELSE Respond(q.w, max)
    BY <1>2, Zenon DEF ProcedureRead
  <2>2. CASE IsRequestAvailable(v.tx)
    <3>1. Outcome(q)
      BY <1>2, <2>1, <2>2, ProcessOutcome, Zenon
    <3>2. CASE q.err # "none"
      BY <2>1, <3>1, <3>2, Zenon DEF Outcome, ReadSound
    <3>3. CASE q.err = "none"
      <4>1. p = Respond(q.w, max) /\ Answered(q.w)
        BY <2>1, <3>1, <3>3, Zenon DEF Outcome
      <4> QED BY <4>1, RespondSound, Zenon DEF Answered
    <3> QED BY <3>2, <3>3
  <2>3. CASE ~IsRequestAvailable(v.tx)
    <3>1. q = [err |-> "none", w |-> v]
      BY <2>1, <2>3, Zenon
    <3>2. q.err = "none" /\ q.w = v
      BY <3>1
    <3>3. p = Respond(v, max)
      BY <2>1, <3>2, Zenon
    <3> QED BY <3>3, RespondSound, Zenon DEF Idle
  <2> QED BY <2>2, <2>3
<1> QED BY <1>1, <1>2

\* The central keeps what it reads.
LEMMA ReceivedKept ==
  ASSUME NEW v, ReadSound(v), Waits(v)
  PROVE  Kept(Received(v)) /\ Waits(Received(v))
<1>1. CASE v.sent = Unsent
  BY <1>1, Zenon DEF Received, ReadSound
<1>2. CASE v.sent # Unsent
  <2>1. PICK part : part = Payload(v.sent.bytes)
    OBVIOUS
  <2>2. PICK whole : whole = v.received \o part
    OBVIOUS
  <2>3. whole \in Seq({ResponseByte})
    <3>1. v.received \in Seq({ResponseByte}) /\ part \in Seq({ResponseByte})
      BY <1>2, <2>1, Zenon DEF ReadSound, Kept, ProcedureTypes
    <3>2. v.received \o part \in Seq({ResponseByte})
      BY <3>1, ConcatProperties, Zenon
    <3> QED BY <2>2, <3>2, Zenon
  <2>4. PICK u : u = Received(v)
    OBVIOUS
  <2>5. u = [v EXCEPT !.received = whole]
    <3>1. u = [v EXCEPT !.received = @ \o Payload(v.sent.bytes)]
      BY <1>2, <2>4, Zenon DEF Received
    <3>2. u = [v EXCEPT !.received = v.received \o Payload(v.sent.bytes)]
      BY <3>1
    <3> QED BY <2>1, <2>2, <3>2, Zenon
  <2>6. Kept(v)
    BY Zenon DEF ReadSound
  <2>7. Changed(v, u, {"received"}) /\ u.received = whole
    BY <2>5, <2>6 DEF Changed, Kept, Session, Fields
  <2>8. /\ DOMAIN u = Fields /\ u.state = v.state /\ u.attached = v.attached /\ u.timer = v.timer /\ u.tx = v.tx
        /\ u.startedSecured = v.startedSecured /\ u.multi = v.multi /\ u.stored = v.stored
        /\ u.scratch = v.scratch /\ u.asked = v.asked /\ u.prepared = v.prepared /\ u.pending = v.pending
        /\ u.handled = v.handled /\ u.sent = v.sent
        /\ u.paired = v.paired /\ u.connected = v.connected /\ u.active = v.active /\ u.terminal = v.terminal
        /\ u.fault = v.fault /\ u.orphaned = v.orphaned /\ u.subscribed = v.subscribed /\ u.told = v.told
        /\ u.link = v.link /\ u.verify = v.verify /\ u.removing = v.removing
    BY <2>7 DEF Changed, Fields
  <2>9. Session(u) /\ IsSecured(u) = IsSecured(v) /\ (Trusted(u) <=> Trusted(v))
    BY <2>6, <2>8, Zenon DEF Kept, Session, SessionTypes, SessionSound, Told, IsSecured, Trusted, Orphan
  <2>10. ServerTypes(u) /\ ProcedureTypes(u) /\ Timed(u)
    BY <2>3, <2>6, <2>7, <2>8, Zenon DEF Kept, ServerTypes, ProcedureTypes, Timed
  <2>11. Sealing(u)
    BY <2>6, <2>8, <2>9, Zenon DEF Kept, Sealing
  <2>12. RequestBuffered(u) /\ PreparedBuffered(u) /\ ResponseBuffered(u)
    <3>1. RequestBuffered(u)
      BY <2>6, <2>8, Zenon DEF Kept, RequestBuffered
    <3>2. PreparedBuffered(u)
      BY <2>6, <2>8, Zenon DEF Kept, PreparedBuffered
    <3>3. ResponseBuffered(u)
      BY <2>6, <2>8, Zenon DEF Kept, ResponseBuffered
    <3> QED BY <3>1, <3>2, <3>3
  <2>13. HandledSound(u) /\ SentSound(u)
    BY <2>6, <2>8, Zenon DEF Kept, HandledSound, SentSound
  <2>14. Waits(u)
    <3>1. Changed(v, u, {"asked", "received"})
      BY <2>7 DEF Changed
    <3> QED BY <3>1, WaitsUnchanged, Zenon
  <2> QED BY <2>4, <2>9, <2>10, <2>11, <2>12, <2>13, <2>14, Zenon DEF Kept
<1> QED BY <1>1, <1>2

LEMMA ReadValueKept ==
  ASSUME IInv, NEW c \in Characteristics, NEW max \in Lengths, ReadValue(c, max)
  PROVE  IInv'
<1>1. max \in Nat
  BY PeripheralManagerAssumption
<1>2. PICK f : f = Forget(w)
  OBVIOUS
<1>3. Kept(f) /\ Idle(f) /\ f.fault = "none"
  BY <1>2, ForgottenKept, Zenon DEF Idle, ReadValue, Serving, Alive
<1>4. PICK g : g = GetProcedure(f, c)
  OBVIOUS
<1>5. /\ Kept(g.w) /\ Idle(g.w) /\ g.kind \in {"Full", "Fallback", "InvalidState"}
      /\ g.kind = "Full" => g.w.attached = c /\ g.w.fault = f.fault
  BY <1>3, <1>4, GetProcedureKept, Zenon
<1>6. PICK R : R = CASE g.kind = "Full" -> ProcedureRead(g.w, max)
                     [] g.kind = "Fallback" -> {FallbackRead(g.w, c, max)}
                     [] OTHER -> {[err |-> g.kind, w |-> g.w]}
  OBVIOUS
<1>70. w' \in {Received(v) : v \in UNION {Concluded(r) : r \in R}}
  BY <1>2, <1>4, <1>6, Zenon DEF ReadValue
<1>71. PICK r \in R : \E u \in Concluded(r) : w' = Received(u)
  BY <1>70
<1>7. PICK u \in Concluded(r) : w' = Received(u)
  BY <1>71
<1>8. ReadSound(r.w)
  <2>1. CASE g.kind = "Full"
    <3>1. R = ProcedureRead(g.w, max)
      BY <1>6, <2>1
    <3> QED BY <1>1, <1>3, <1>5, <1>7, <2>1, <3>1, ProcedureReadSound, Zenon
  <2>2. CASE g.kind = "Fallback"
    <3>0. R = {FallbackRead(g.w, c, max)}
      BY <1>6, <2>2
    <3>1. r = FallbackRead(g.w, c, max)
      BY <1>71, <3>0, Zenon
    <3>2. Kept(r.w) /\ r.w.sent = g.w.sent
      BY <1>5, <3>1, FallbackReadKept, Zenon
    <3> QED BY <1>5, <3>2, Zenon DEF ReadSound, Idle
  <2>3. CASE g.kind = "InvalidState"
    <3>1. r = [err |-> g.kind, w |-> g.w]
      BY <1>6, <1>7, <2>3
    <3>2. r.w = g.w
      BY <3>1
    <3> QED BY <1>5, <3>2, Zenon DEF ReadSound, Idle
  <2> QED BY <1>5, <2>1, <2>2, <2>3
<1>9. Kept(u) /\ Waits(u) /\ u.sent = r.w.sent
  BY <1>7, <1>8, ConcludedKept, Zenon DEF ReadSound
<1>10. ReadSound(u)
  BY <1>8, <1>9, Zenon DEF ReadSound
<1> QED BY <1>7, <1>9, <1>10, ReceivedKept, Zenon DEF IInv

-----------------------------------------------------------------------------
(* The other callbacks *)

LEMMA ForgottenWaits ==
  ASSUME IInv
  PROVE  Waits(Forget(w))
BY ForgottenKept, Zenon DEF IInv, Waits

LEMMA TimerStepKept ==
  ASSUME NEW v, Kept(v), NEW u, TimerStep(v, u)
  PROVE  Kept(u) /\ (Waits(v) => Waits(u))
<1>1. Kept(u)
  BY KeptIsSession, TimerStepIsSessionStep, KeptBySession, Zenon
<1>2. /\ u.orphaned = v.orphaned /\ u.fault = v.fault /\ u.active = v.active /\ u.pending = v.pending
      /\ u.subscribed = v.subscribed /\ u.queued = v.queued
  BY DEF TimerStep, Changed, TimerFields, Fields
<1> QED BY <1>1, <1>2, Zenon DEF Waits

LEMMA RaiseEventKept ==
  ASSUME IInv, NEW c \in Characteristics, RaiseEvent(c)
  PROVE  IInv'
<1>1. PICK f : f = Forget(w)
  OBVIOUS
<1>2. Kept(f)
  BY <1>1, ForgottenKept, Zenon
<1>3. PICK x : x = [f EXCEPT !.pending = f.pending \cup {c}]
  OBVIOUS
<1>4. w' \in SendPendingEventNotifications(x)
  BY <1>1, <1>3, Zenon DEF RaiseEvent
<1>5. Changed(f, x, {"pending"}) /\ x.pending \subseteq Characteristics
  BY <1>2, <1>3 DEF Changed, Fields, Kept, Session, ServerTypes
<1>6. Changed(f, x, {"fallback", "pending", "queued"})
  BY <1>5 DEF Changed
<1> QED BY <1>2, <1>4, <1>5, <1>6, EventsKept, EventsSent, Zenon DEF IInv

LEMMA ReadyToUpdateKept ==
  ASSUME IInv, ReadyToUpdateSubscribers
  PROVE  IInv'
<1>1. PICK f : f = Forget(w)
  OBVIOUS
<1>2. Kept(f)
  BY <1>1, ForgottenKept, Zenon
<1>3. PICK x : x = [f EXCEPT !.queued = FALSE]
  OBVIOUS
<1>4. w' \in SendPendingEventNotifications(x)
  BY <1>1, <1>3, Zenon DEF ReadyToUpdateSubscribers
<1>5. Changed(f, x, {"queued"}) /\ x.pending \subseteq Characteristics
  BY <1>2, <1>3 DEF Changed, Fields, Kept, Session, ServerTypes
<1>6. Changed(f, x, {"fallback", "pending", "queued"})
  BY <1>5 DEF Changed
<1> QED BY <1>2, <1>4, <1>5, <1>6, EventsKept, EventsSent, Zenon DEF IInv

\* Who listens is told as soon as it is known, or when the session is accepted.
LEMMA SubscribedKept ==
  ASSUME NEW v, Kept(v), NEW u, Changed(v, u, {"subscribed", "told"}),
         u.subscribed \subseteq Characteristics, u.told \subseteq Characteristics, Told(u)
  PROVE  Kept(u)
<1>1. /\ DOMAIN u = Fields /\ u.state = v.state /\ u.attached = v.attached /\ u.timer = v.timer /\ u.tx = v.tx
      /\ u.startedSecured = v.startedSecured /\ u.multi = v.multi /\ u.stored = v.stored
      /\ u.scratch = v.scratch /\ u.asked = v.asked /\ u.prepared = v.prepared /\ u.pending = v.pending
      /\ u.handled = v.handled /\ u.sent = v.sent /\ u.received = v.received
      /\ u.paired = v.paired /\ u.connected = v.connected /\ u.active = v.active /\ u.terminal = v.terminal
      /\ u.fault = v.fault /\ u.orphaned = v.orphaned
      /\ u.link = v.link /\ u.verify = v.verify /\ u.removing = v.removing
  BY DEF Changed, Fields
<1>2. Session(u) /\ IsSecured(u) = IsSecured(v) /\ (Trusted(u) <=> Trusted(v))
  BY <1>1, Zenon DEF Kept, Session, SessionTypes, SessionSound, IsSecured, Trusted, Orphan
<1>3. ServerTypes(u) /\ ProcedureTypes(u) /\ Timed(u)
  BY <1>1, Zenon DEF Kept, ServerTypes, ProcedureTypes, Timed
<1>4. Sealing(u)
  BY <1>1, <1>2, Zenon DEF Kept, Sealing
<1>5. RequestBuffered(u) /\ PreparedBuffered(u) /\ ResponseBuffered(u)
  <2>1. RequestBuffered(u)
    BY <1>1, Zenon DEF Kept, RequestBuffered
  <2>2. PreparedBuffered(u)
    BY <1>1, Zenon DEF Kept, PreparedBuffered
  <2>3. ResponseBuffered(u)
    BY <1>1, Zenon DEF Kept, ResponseBuffered
  <2> QED BY <2>1, <2>2, <2>3
<1>6. HandledSound(u) /\ SentSound(u)
  BY <1>1, Zenon DEF Kept, HandledSound, SentSound
<1> QED BY <1>2, <1>3, <1>4, <1>5, <1>6, Zenon DEF Kept

LEMMA WriteConfigurationKept ==
  ASSUME IInv, NEW c \in Characteristics, NEW enable \in BOOLEAN, WriteConfiguration(c, enable)
  PROVE  IInv'
<1>1. PICK f : f = Forget(w)
  OBVIOUS
<1>2. Kept(f) /\ Waits(f) /\ f.fault = "none"
  BY <1>1, ForgottenKept, ForgottenWaits, Zenon DEF WriteConfiguration, Serving, Alive
<1>3. PICK now : now = IF enable THEN f.subscribed \cup {c} ELSE f.subscribed \ {c}
  OBVIOUS
<1>4. PICK told : told = IF enable THEN f.told \cup {c} ELSE f.told \ {c}
  OBVIOUS
<1>5. PICK u : u = [f EXCEPT !.subscribed = now]
  OBVIOUS
<1>6. Changed(f, u, {"subscribed"}) /\ u.subscribed = now
  BY <1>2, <1>5 DEF Changed, Fields, Kept, Session
<1>7. u.told = f.told /\ u.active = f.active /\ u.orphaned = f.orphaned
  BY <1>6 DEF Changed, Fields
<1>8. PICK t : t = [u EXCEPT !.told = told]
  OBVIOUS
<1>9. Changed(f, t, {"subscribed", "told"}) /\ t.subscribed = now /\ t.told = told
  BY <1>6, <1>8 DEF Changed, Fields
<1>10. t.active = f.active /\ t.orphaned = f.orphaned
  BY <1>9 DEF Changed, Fields
<1>11. now \subseteq Characteristics /\ told \subseteq Characteristics /\ f.told \subseteq Characteristics
  <2>1. f.subscribed \subseteq Characteristics /\ f.told \subseteq Characteristics
    BY <1>2, Zenon DEF Kept, Session, SessionTypes
  <2> QED BY <1>3, <1>4, <2>1
<1>12. w' = f \/ w' \in SendPendingEventNotifications(IF IsSecured(f) THEN t ELSE u)
  <2>1. f.told = u.told
    BY <1>7
  <2>2. w' \in SetNotificationsEnabled(f, c, enable)
    BY <1>1, Zenon DEF WriteConfiguration
  <2>3. SetNotificationsEnabled(f, c, enable) =
          IF (c \in f.subscribed) = enable THEN {f}
          ELSE SendPendingEventNotifications(
                 IF IsSecured(f) THEN [[f EXCEPT !.subscribed = IF enable THEN @ \cup {c} ELSE @ \ {c}]
                                          EXCEPT !.told = IF enable THEN @ \cup {c} ELSE @ \ {c}]
                 ELSE [f EXCEPT !.subscribed = IF enable THEN @ \cup {c} ELSE @ \ {c}])
    BY Zenon DEF SetNotificationsEnabled
  <2>4. u = [f EXCEPT !.subscribed = IF enable THEN @ \cup {c} ELSE @ \ {c}]
    BY <1>3, <1>5
  <2>5. t = [u EXCEPT !.told = IF enable THEN @ \cup {c} ELSE @ \ {c}]
    BY <1>4, <1>7, <1>8
  <2> QED BY <2>2, <2>3, <2>4, <2>5, Zenon
<1>13. CASE w' = f
  BY <1>2, <1>13, Zenon DEF IInv
<1>14. CASE w' \in SendPendingEventNotifications(IF IsSecured(f) THEN t ELSE u)
  <2>1. CASE IsSecured(f)
    <3>1. f.orphaned = "no" => f.told = f.subscribed
      BY <1>2, <2>1, Zenon DEF IsSecured, Kept, Session, SessionSound, Told
    <3>2. f.orphaned = "no" => told = now
      BY <1>3, <1>4, <3>1, Zenon
    <3>3. Told(t)
      BY <1>9, <1>10, <2>1, <3>2, Zenon DEF Told, IsSecured
    <3>4. Kept(t)
      BY <1>2, <1>9, <1>11, <3>3, SubscribedKept, Zenon
    <3> QED BY <1>14, <2>1, <3>4, EventsSent, Zenon DEF IInv
  <2>2. CASE ~IsSecured(f)
    <3>1. f.orphaned = "no" => ~f.active
      BY <1>2, <2>2, Zenon DEF IsSecured, Kept, Session, SessionSound, SessionTypes
    <3>2. Told(u)
      BY <1>2, <1>7, <3>1, Zenon DEF Kept, Session, SessionSound, Told
    <3>3. Changed(f, u, {"subscribed", "told"})
      BY <1>6 DEF Changed
    <3>4. Kept(u)
      BY <1>2, <1>6, <1>7, <1>11, <3>2, <3>3, SubscribedKept, Zenon
    <3> QED BY <1>14, <2>2, <3>4, EventsSent, Zenon DEF IInv
  <2> QED BY <2>1, <2>2
<1> QED BY <1>12, <1>13, <1>14

LEMMA ProcedureTimerKept ==
  ASSUME IInv, ProcedureTimer
  PROVE  IInv'
<1>1. PICK f : f = Forget(w)
  OBVIOUS
<1>2. Kept(f) /\ f.connected
  BY <1>1, ForgottenKept, Zenon DEF ProcedureTimer, Serving
<1>3. PICK x : x = [f EXCEPT !.timer = FALSE]
  OBVIOUS
<1>4. PICK a, t : a = f.attached /\ t = Create(ScratchBytes)
  OBVIOUS
<1>5. DOMAIN f = Fields /\ x.attached = a /\ DOMAIN x = Fields
  BY <1>2, <1>3, <1>4 DEF Kept, Session, Fields
<1>6. PICK u : u = Attach(Destroy(f), a)
  OBVIOUS
<1>7. Reset(x) = u
  <2>1. Reset(x) = [[x EXCEPT !.timer = FALSE] EXCEPT !.attached = a, !.tx = t, !.multi = FALSE, !.stored = 0,
                                                       !.startedSecured = FALSE, !.timer = FALSE]
    BY <1>4, <1>5, Zenon DEF Reset, Attach, Destroy
  <2>2. u = [[f EXCEPT !.timer = FALSE] EXCEPT !.attached = a, !.tx = t, !.multi = FALSE, !.stored = 0,
                                               !.startedSecured = FALSE, !.timer = FALSE]
    BY <1>4, <1>6, Zenon DEF Attach, Destroy
  <2>3. [x EXCEPT !.timer = FALSE] = [f EXCEPT !.timer = FALSE]
    BY <1>3, <1>5
  <2> QED BY <2>1, <2>2, <2>3, Zenon
<1>8. Kept(u)
  <2>1. a \in Characteristics \cup {Unattached}
    BY <1>2, <1>4, Zenon DEF Kept, ProcedureTypes
  <2> QED BY <1>2, <1>6, <2>1, AttachKept, Zenon
<1>9. w' = Invalidate(u, TRUE)
  BY <1>1, <1>3, <1>7, Zenon DEF ProcedureTimer, ProcedureTimerExpired
<1> QED BY <1>8, <1>9, InvalidateKept, Zenon DEF IInv

LEMMA SessionTimersKept ==
  ASSUME IInv, PairingTimer \/ LinkDeadline \/ LinkTimer \/ SafeTimer
  PROVE  IInv'
<1>1. PICK f : f = Forget(w)
  OBVIOUS
<1>2. Kept(f) /\ Waits(f)
  BY <1>1, ForgottenKept, ForgottenWaits, Zenon
<1>3. CASE PairingTimer
  <2>1. PICK x : x = [f EXCEPT !.pairingTimer = FALSE]
    OBVIOUS
  <2>2. TimerStep(f, x)
    BY <1>2, <2>1 DEF Kept, Session, SessionTypes, TimerStep, Changed, TimerFields, Fields
  <2>3. w' = Invalidate(x, TRUE)
    BY <1>1, <1>3, <2>1, Zenon DEF PairingTimer, PairingProcedureTimerExpired
  <2> QED BY <1>2, <2>2, <2>3, TimerStepKept, InvalidateKept, Zenon DEF IInv
<1>4. CASE LinkDeadline
  <2>1. PICK x : x = [f EXCEPT !.link = "due"]
    OBVIOUS
  <2>2. TimerStep(f, x)
    BY <1>2, <2>1 DEF Kept, Session, SessionTypes, TimerStep, Changed, TimerFields, Fields
  <2>3. w' = x
    BY <1>1, <1>4, <2>1, Zenon DEF LinkDeadline
  <2> QED BY <1>2, <2>2, <2>3, TimerStepKept, Zenon DEF IInv
<1>5. CASE LinkTimer
  <2>1. PICK x : x = [f EXCEPT !.link = "off"]
    OBVIOUS
  <2>2. TimerStep(f, x)
    BY <1>2, <2>1 DEF Kept, Session, SessionTypes, TimerStep, Changed, TimerFields, Fields
  <2>3. w' = Invalidate(x, TRUE)
    BY <1>1, <1>5, <2>1, Zenon DEF LinkTimer, LinkTimerExpired
  <2> QED BY <1>2, <2>2, <2>3, TimerStepKept, InvalidateKept, Zenon DEF IInv
<1>6. CASE SafeTimer
  <2>1. PICK x : x = [f EXCEPT !.safeTimer = FALSE, !.safe = TRUE]
    OBVIOUS
  <2>2. TimerStep(f, x)
    BY <1>2, <2>1 DEF Kept, Session, SessionTypes, TimerStep, Changed, TimerFields, Fields
  <2>3. Kept(x) /\ Waits(x)
    BY <1>2, <2>2, TimerStepKept, Zenon
  <2>4. Kept(CancelCentralConnection(x)) /\ Waits(CancelCentralConnection(x))
    BY <2>3, KeptIsSession, TimerOperators, TimerStepKept, Zenon
  <2>5. w' = x \/ w' = CancelCentralConnection(x)
    BY <1>1, <1>6, <2>1, Zenon DEF SafeTimer, SafeToDisconnectTimerExpired
  <2> QED BY <2>3, <2>4, <2>5, Zenon DEF IInv
<1> QED BY <1>3, <1>4, <1>5, <1>6

LEMMA FallbackTimerKept ==
  ASSUME IInv, NEW c \in Characteristics, FallbackTimer(c)
  PROVE  IInv'
<1>1. PICK f : f = Forget(w)
  OBVIOUS
<1>2. Kept(f)
  BY <1>1, ForgottenKept, Zenon
<1>3. PICK x : x = [f EXCEPT !.fallback[c] = NoFallback]
  OBVIOUS
<1>4. Changed(f, x, {"fallback"})
  BY <1>2, <1>3 DEF Changed, Kept, Session, Fields
<1>5. Kept(x)
  BY <1>2, <1>4, FallbackChanged, Zenon
<1>6. "timerDeregistered" \in Faults \ {"none"}
  BY DEF Faults
<1>7. Kept(Fault(x, "timerDeregistered"))
  BY <1>5, <1>6, KeptIsSession, FaultStep, KeptBySession, Zenon
<1>8. w' = Invalidate(Fault(x, "timerDeregistered"), TRUE)
  BY <1>1, <1>3, Zenon DEF FallbackTimer
<1> QED BY <1>7, <1>8, InvalidateKept, Zenon DEF IInv

\* The state of the server alone changes.
LEMMA StateKept ==
  ASSUME NEW v, Kept(v), NEW u, Changed(v, u, {"state"}), u.state \in {"Idle", "Running", "Stopping"}
  PROVE  Kept(u) /\ (Waits(v) => Waits(u))
<1>1. /\ u.attached = v.attached /\ u.timer = v.timer /\ u.tx = v.tx
      /\ u.startedSecured = v.startedSecured /\ u.multi = v.multi /\ u.stored = v.stored
      /\ u.scratch = v.scratch /\ u.asked = v.asked /\ u.prepared = v.prepared /\ u.pending = v.pending
      /\ u.handled = v.handled /\ u.sent = v.sent /\ u.received = v.received /\ u.queued = v.queued
  BY DEF Changed, Fields
<1>2. SameSession(v, u)
  <2>1. Changed(v, u, OtherFields)
    BY DEF Changed, OtherFields
  <2> QED BY <2>1, SessionUnchanged, Zenon DEF Kept
<1>3. ServerTypes(u) /\ ProcedureTypes(u) /\ Timed(u)
  BY <1>1, <1>2, Zenon DEF Kept, SameSession, ServerTypes, ProcedureTypes, Timed
<1>4. Sealing(u)
  BY <1>1, <1>2, Zenon DEF Kept, SameSession, Sealing
<1>5. RequestBuffered(u) /\ PreparedBuffered(u) /\ ResponseBuffered(u)
  <2>1. RequestBuffered(u)
    BY <1>1, Zenon DEF Kept, RequestBuffered
  <2>2. PreparedBuffered(u)
    BY <1>1, Zenon DEF Kept, PreparedBuffered
  <2>3. ResponseBuffered(u)
    BY <1>1, Zenon DEF Kept, ResponseBuffered
  <2> QED BY <2>1, <2>2, <2>3
<1>6. HandledSound(u) /\ SentSound(u)
  BY <1>1, <1>2, Zenon DEF Kept, SameSession, HandledSound, SentSound
<1>7. Waits(v) => Waits(u)
  BY <1>1, <1>2, Zenon DEF SameSession, Waits
<1> QED BY <1>2, <1>3, <1>4, <1>5, <1>6, <1>7, Zenon DEF Kept, SameSession

LEMMA TryStopKept ==
  ASSUME NEW v, Kept(v), Waits(v)
  PROVE  Kept(TryStop(v)) /\ Waits(TryStop(v))
<1>1. PICK x : x = [v EXCEPT !.state = "Idle"]
  OBVIOUS
<1>2. Changed(v, x, {"state"}) /\ x.state \in {"Idle", "Running", "Stopping"}
  BY <1>1 DEF Kept, Session, Changed, Fields
<1>3. Kept(x) /\ Waits(x)
  BY <1>2, StateKept, Zenon
<1>4. Kept(CancelCentralConnection(v)) /\ Waits(CancelCentralConnection(v))
  BY KeptIsSession, TimerOperators, TimerStepKept, Zenon
<1>5. TryStop(v) = x \/ TryStop(v) = CancelCentralConnection(v) \/ TryStop(v) = v
  BY <1>1, Zenon DEF TryStop
<1> QED BY <1>3, <1>4, <1>5, Zenon

LEMMA StartStopKept ==
  ASSUME IInv, Start \/ Stop
  PROVE  IInv'
<1>1. PICK f : f = Forget(w)
  OBVIOUS
<1>2. Kept(f) /\ Waits(f)
  BY <1>1, ForgottenKept, ForgottenWaits, Zenon
<1>3. ASSUME NEW state \in {"Idle", "Running", "Stopping"}, NEW x, x = [f EXCEPT !.state = state]
      PROVE  Kept(x) /\ Waits(x)
  <2>1. Changed(f, x, {"state"}) /\ x.state \in {"Idle", "Running", "Stopping"}
    BY <1>2, <1>3 DEF Kept, Session, Changed, Fields
  <2> QED BY <1>2, <2>1, StateKept, Zenon
<1>4. CASE Start
  <2>1. PICK x : x = [f EXCEPT !.state = "Running"]
    OBVIOUS
  <2>2. w' = x
    BY <1>1, <1>4, <2>1, Zenon DEF Start
  <2>3. Kept(x) /\ Waits(x)
    BY <1>3, <2>1
  <2> QED BY <2>2, <2>3, Zenon DEF IInv
<1>5. CASE Stop
  <2>1. PICK x : x = [f EXCEPT !.state = "Stopping"]
    OBVIOUS
  <2>2. w' = TryStop(x)
    BY <1>1, <1>5, <2>1, Zenon DEF Stop
  <2>3. Kept(x) /\ Waits(x)
    BY <1>3, <2>1
  <2> QED BY <2>2, <2>3, TryStopKept, Zenon DEF IInv
<1> QED BY <1>4, <1>5

\* A pairing that is added while none is active changes no session; one that is removed
\* orphans it.
LEMMA PairedOverIPKept ==
  ASSUME IInv, PairedOverIP
  PROVE  IInv'
<1>1. PICK f : f = Forget(w)
  OBVIOUS
<1>2. /\ Kept(f) /\ Waits(f) /\ f.paired = w.paired /\ f.fault = "none"
      /\ (f.orphaned = "no" <=> w.orphaned = "no")
  BY <1>1, ForgottenKept, ForgottenWaits, Zenon DEF PairedOverIP, Alive
<1>3. CASE w.paired
  <2>1. w' = Unpaired(f)
    BY <1>1, <1>3, Zenon DEF PairedOverIP
  <2>2. PICK u : u = Unpaired(f)
    OBVIOUS
  <2>3. Kept(u) /\ u.active = f.active /\ (f.active => u.orphaned = "now")
    BY <1>2, <2>2, KeptIsSession, UnpairedStep, KeptBySession, Zenon
  <2>4. Waits(u)
    BY <2>3 DEF Waits
  <2> QED BY <2>1, <2>2, <2>3, <2>4, Zenon DEF IInv
<1>4. CASE ~w.paired
  <2>1. f.orphaned = "no" /\ ~f.paired /\ f.active = FALSE
    <3>1. f.orphaned = "no" /\ ~f.paired
      BY <1>2, <1>4, Zenon DEF PairedOverIP
    <3>2. ~f.active /\ f.active \in BOOLEAN
      BY <1>2, <3>1 DEF Kept, Session, SessionSound, SessionTypes
    <3> QED BY <3>1, <3>2
  <2>2. PICK u : u = [f EXCEPT !.paired = TRUE]
    OBVIOUS
  <2>3. w' = u
    BY <1>1, <1>4, <2>2, Zenon DEF PairedOverIP
  <2>4. Changed(f, u, {"paired"}) /\ u.paired = TRUE
    BY <1>2, <2>2 DEF Changed, Kept, Session, Fields
  <2>5. /\ DOMAIN u = Fields
        /\ u.connected = f.connected /\ u.active = f.active /\ u.terminal = f.terminal
        /\ u.fault = f.fault /\ u.orphaned = f.orphaned /\ u.subscribed = f.subscribed /\ u.told = f.told
        /\ u.link = f.link /\ u.verify = f.verify /\ u.removing = f.removing
        /\ u.pending = f.pending /\ u.queued = f.queued
    BY <2>4 DEF Changed, Fields
  <2>6. Session(u)
    <3>1. SessionTypes(u)
      BY <1>2, <2>4, <2>5, Zenon DEF Kept, Session, SessionTypes
    <3>2. SessionSound(u)
      BY <1>2, <2>1, <2>4, <2>5, Zenon DEF Kept, Session, SessionSound, Told
    <3> QED BY <2>5, <3>1, <3>2, Zenon DEF Session
  <2>7. Changed(f, u, SessionFields)
    BY <2>4 DEF Changed, SessionFields
  <2>8. SessionStep(f, u)
    BY <2>5, <2>6, <2>7, Zenon DEF SessionStep
  <2>9. SecurityStays(f, u)
    BY <2>1, <2>5, Zenon DEF SecurityStays, Trusted, Orphan, IsSecured
  <2>10. Kept(u)
    BY <1>2, <2>8, <2>9, KeptBySession, Zenon
  <2>11. Waits(u)
    BY <2>1, <2>5, Zenon DEF Waits
  <2> QED BY <2>3, <2>10, <2>11, Zenon DEF IInv
<1> QED BY <1>3, <1>4

-----------------------------------------------------------------------------
(* Connections, and the life of the process *)

LEMMA Zero ==
  /\ 0 \in 0 .. 3 /\ 0 \in 0 .. 1 /\ TRUE \in BOOLEAN /\ FALSE \in BOOLEAN
  /\ "off" \in {"off", "on", "due"} /\ "on" \in {"off", "on", "due"}
OBVIOUS

\* Without a session and a procedure little is to be kept.
LEMMA QuietKept ==
  ASSUME NEW v, Kept(v), v.handled = Unhandled, v.sent = Unsent,
         NEW u, DOMAIN u = Fields, u.state \in {"Idle", "Running", "Stopping"},
         u.paired = v.paired, u.fault = v.fault, u.orphaned = v.orphaned,
         u.connected \in BOOLEAN, u.terminal \in BOOLEAN, u.link \in {"off", "on", "due"},
         u.verify \in 0 .. 3, u.removing \in 0 .. 1, u.active = FALSE, u.timer = FALSE, u.attached = Unattached,
         u.subscribed = {}, u.pending = {}, u.told \subseteq Characteristics, v.orphaned = "no" => u.told = {},
         u.startedSecured = v.startedSecured, u.multi = v.multi, u.stored = v.stored, u.tx = v.tx,
         u.scratch = v.scratch, u.asked \in Messages, u.prepared \in Messages,
         u.received \in Seq({ResponseByte}), u.handled = Unhandled, u.sent = Unsent
  PROVE  Kept(u) /\ Waits(u)
<1>1. {} \subseteq Characteristics
  OBVIOUS
<1>2. SessionTypes(u)
  BY <1>1, Zenon DEF Kept, Session, SessionTypes
<1>3. SessionSound(u)
  BY Zenon DEF Kept, Session, SessionSound, Told
<1>4. ServerTypes(u)
  BY <1>1, Zenon DEF ServerTypes
<1>5. ProcedureTypes(u)
  <2>1. Unattached \in Characteristics \cup {Unattached} /\ FALSE \in BOOLEAN
    OBVIOUS
  <2> QED BY <2>1, Zenon DEF Kept, ProcedureTypes
<1>6. Timed(u)
  BY Zenon DEF Timed
<1>7. Sealing(u) /\ RequestBuffered(u) /\ PreparedBuffered(u)
  BY Zenon DEF Sealing, RequestBuffered, PreparedBuffered
<1>8. ResponseBuffered(u)
  BY Zenon DEF Kept, ResponseBuffered
<1>9. HandledSound(u) /\ SentSound(u)
  <2>1. ~Unhandled.on
    BY DEF Unhandled
  <2> QED BY <2>1, Zenon DEF HandledSound, SentSound
<1>10. Waits(u)
  BY Zenon DEF Waits
<1> QED BY <1>2, <1>3, <1>4, <1>5, <1>6, <1>7, <1>8, <1>9, <1>10, Zenon DEF Kept, Session

LEMMA ConnectKept ==
  ASSUME IInv, Connect
  PROVE  IInv'
<1>1. PICK f : f = Forget(w)
  OBVIOUS
<1>2. Kept(f) /\ f.handled = Unhandled /\ f.sent = Unsent /\ f.connected = w.connected
  BY <1>1, ForgottenKept, Zenon
<1>3. ~f.connected
  BY <1>2, Zenon DEF Connect
<1>4. f.active = FALSE /\ f.timer = FALSE /\ f.attached = Unattached /\ (f.orphaned = "no" => f.told = {})
  <2>1. ~f.active /\ ~f.timer /\ f.attached = Unattached /\ (f.orphaned = "no" => f.told = {})
    BY <1>2, <1>3, Zenon DEF Kept, Session, SessionSound, Told, Timed
  <2>2. f.active \in BOOLEAN /\ f.timer \in BOOLEAN
    BY <1>2, Zenon DEF Kept, Session, SessionTypes, ProcedureTypes
  <2> QED BY <2>1, <2>2
<1>5. PICK none : none = [c \in Characteristics |-> NoFallback]
  OBVIOUS
<1>6. PICK x : x = [f EXCEPT !.fallback = none, !.subscribed = {}, !.pending = {}, !.connected = TRUE,
                             !.cancel = FALSE, !.queued = FALSE]
  OBVIOUS
<1>7. PICK u : u = CreateSession(x)
  OBVIOUS
<1>8. w' = u
  <2>1. DOMAIN f = Fields
    BY <1>2, Zenon DEF Kept, Session
  <2>2. x = [[[f EXCEPT !.fallback = none] EXCEPT !.subscribed = {}, !.pending = {}]
               EXCEPT !.connected = TRUE, !.cancel = FALSE, !.queued = FALSE]
    BY <1>6, <2>1 DEF Fields
  <2> QED BY <1>1, <1>5, <1>7, <2>2, Zenon DEF Connect, ResetEventState, AbortAllFallbackProcedures
<1>9. /\ DOMAIN x = Fields /\ x.subscribed = {} /\ x.pending = {} /\ x.connected = TRUE
      /\ \A i \in Fields \ {"fallback", "subscribed", "pending", "connected", "cancel", "queued"} : x[i] = f[i]
  BY <1>2, <1>6 DEF Kept, Session, Fields
<1>10. /\ DOMAIN u = Fields /\ u.active = FALSE /\ u.verify = 0 /\ u.removing = 0 /\ u.link = "on"
       /\ u.terminal = FALSE
       /\ \A i \in Fields \ {"active", "verify", "verified", "removing", "link", "pairingTimer", "terminal",
                             "safe", "safeTimer"} : u[i] = x[i]
  BY <1>7, <1>9 DEF CreateSession, Fields
<1>11. /\ u.state = f.state /\ u.paired = f.paired /\ u.fault = f.fault /\ u.orphaned = f.orphaned
       /\ u.connected = TRUE /\ u.timer = f.timer /\ u.attached = f.attached
       /\ u.subscribed = {} /\ u.pending = {} /\ u.told = f.told
       /\ u.startedSecured = f.startedSecured /\ u.multi = f.multi /\ u.stored = f.stored /\ u.tx = f.tx
       /\ u.scratch = f.scratch /\ u.asked = f.asked /\ u.prepared = f.prepared /\ u.received = f.received
       /\ u.handled = f.handled /\ u.sent = f.sent
  BY <1>9, <1>10 DEF Fields
<1>12. /\ u.verify \in 0 .. 3 /\ u.removing \in 0 .. 1 /\ u.link \in {"off", "on", "due"}
       /\ u.terminal \in BOOLEAN /\ u.connected \in BOOLEAN
  BY <1>10, <1>11, Zero, Zenon
<1>13. /\ f.state \in {"Idle", "Running", "Stopping"} /\ f.told \subseteq Characteristics
       /\ f.asked \in Messages /\ f.prepared \in Messages /\ f.received \in Seq({ResponseByte})
  BY <1>2, Zenon DEF Kept, Session, SessionTypes, ServerTypes, ProcedureTypes
<1>14. Kept(u) /\ Waits(u)
  BY <1>2, <1>4, <1>10, <1>11, <1>12, <1>13, QuietKept, Zenon
<1> QED BY <1>8, <1>14, Zenon DEF IInv

LEMMA DisconnectKept ==
  ASSUME IInv, w' = Disconnected
  PROVE  IInv'
<1>1. PICK f : f = Forget(w)
  OBVIOUS
<1>2. Kept(f) /\ f.handled = Unhandled /\ f.sent = Unsent
  BY <1>1, ForgottenKept, Zenon
<1>3. PICK none : none = [c \in Characteristics |-> NoFallback]
  OBVIOUS
<1>4. PICK x : x = [[f EXCEPT !.connected = FALSE, !.timer = FALSE] EXCEPT !.fallback = none]
  OBVIOUS
<1>5. /\ DOMAIN x = Fields /\ x.connected = FALSE /\ x.timer = FALSE
      /\ \A i \in Fields \ {"connected", "timer", "fallback"} : x[i] = f[i]
  BY <1>2, <1>4 DEF Kept, Session, Fields
<1>6. x.active = f.active /\ x.told = f.told /\ x.subscribed = f.subscribed /\ x.orphaned = f.orphaned
  BY <1>5 DEF Fields
<1>7. PICK told : told = IF x.active THEN x.told \ x.subscribed ELSE x.told
  OBVIOUS
<1>8. told \subseteq Characteristics /\ (f.orphaned = "no" => told = {})
  <2>1. f.told \subseteq Characteristics /\ (f.orphaned = "no" => f.told = (IF f.active THEN f.subscribed ELSE {}))
    BY <1>2, Zenon DEF Kept, Session, SessionTypes, SessionSound, Told
  <2> QED BY <1>6, <1>7, <2>1
<1>9. PICK y : y = IF x.active THEN HandleSessionInvalidate(x) ELSE x
  OBVIOUS
<1>10. DOMAIN y = Fields /\ y.told = told /\ \A i \in Fields \ {"told"} : y[i] = x[i]
  BY <1>5, <1>7, <1>9 DEF HandleSessionInvalidate, Fields
<1>11. PICK e : e = [y EXCEPT !.active = FALSE, !.verify = 0, !.verified = FALSE, !.removing = 0]
  OBVIOUS
<1>12. /\ DOMAIN e = Fields /\ e.active = FALSE /\ e.verify = 0 /\ e.removing = 0
       /\ \A i \in Fields \ {"active", "verify", "verified", "removing"} : e[i] = y[i]
  BY <1>10, <1>11 DEF Fields
<1>13. PICK z : z = Invalidate(x, TRUE)
  OBVIOUS
<1>14. /\ DOMAIN z = Fields /\ \A i \in Fields \ {"link", "pairingTimer", "terminal", "cancel"} : z[i] = e[i]
  <2>1. z = InvalidateBLE(e, TRUE)
    BY <1>9, <1>11, <1>13, Zenon DEF Invalidate
  <2> QED BY <1>12, <2>1 DEF Fields, InvalidateBLE, CancelCentralConnection
<1>15. PICK r : r = ReleaseSession(x)
  OBVIOUS
<1>16. /\ DOMAIN r = Fields /\ r.link = "off" /\ r.terminal = FALSE
       /\ \A i \in Fields \ {"link", "pairingTimer", "safeTimer", "terminal", "safe"} : r[i] = z[i]
  BY <1>13, <1>14, <1>15 DEF ReleaseSession, Fields
<1>17. PICK d : d = [[r EXCEPT !.subscribed = {}, !.pending = {}]
                       EXCEPT !.attached = Unattached, !.cancel = FALSE, !.queued = FALSE,
                              !.asked = Nothing, !.prepared = Nothing, !.received = <<>>]
  OBVIOUS
<1>18. w' = IF w.state = "Stopping" THEN TryStop(d) ELSE d
  BY <1>1, <1>3, <1>4, <1>15, <1>17, Zenon DEF Disconnected, ResetEventState, AbortAllFallbackProcedures
<1>19. /\ DOMAIN d = Fields /\ d.subscribed = {} /\ d.pending = {} /\ d.attached = Unattached
       /\ d.asked = Nothing /\ d.prepared = Nothing /\ d.received = <<>>
       /\ \A i \in Fields \ {"subscribed", "pending", "attached", "cancel", "queued", "asked", "prepared",
                             "received"} : d[i] = r[i]
  BY <1>16, <1>17 DEF Fields
<1>20. /\ d.link = "off" /\ d.terminal = FALSE /\ d.active = FALSE /\ d.verify = 0 /\ d.removing = 0
       /\ d.told = told /\ d.connected = FALSE /\ d.timer = FALSE
  <2>1. /\ d.link = r.link /\ d.terminal = r.terminal /\ d.active = r.active /\ d.verify = r.verify
        /\ d.removing = r.removing /\ d.told = r.told /\ d.connected = r.connected /\ d.timer = r.timer
    BY <1>19 DEF Fields
  <2>2. /\ r.active = z.active /\ r.verify = z.verify /\ r.removing = z.removing /\ r.told = z.told
        /\ r.connected = z.connected /\ r.timer = z.timer
    BY <1>16 DEF Fields
  <2>3. /\ z.active = e.active /\ z.verify = e.verify /\ z.removing = e.removing /\ z.told = e.told
        /\ z.connected = e.connected /\ z.timer = e.timer
    BY <1>14 DEF Fields
  <2>4. e.told = told /\ e.connected = FALSE /\ e.timer = FALSE
    BY <1>5, <1>10, <1>12 DEF Fields
  <2> QED BY <1>12, <1>16, <2>1, <2>2, <2>3, <2>4, Zenon
<1>21. /\ d.state = f.state /\ d.paired = f.paired /\ d.fault = f.fault /\ d.orphaned = f.orphaned
       /\ d.startedSecured = f.startedSecured /\ d.multi = f.multi /\ d.stored = f.stored /\ d.tx = f.tx
       /\ d.scratch = f.scratch /\ d.handled = f.handled /\ d.sent = f.sent
  <2> DEFINE Same == {"state", "paired", "fault", "orphaned", "startedSecured", "multi", "stored", "tx", "scratch",
                      "handled", "sent"}
  <2>1. \A i \in Same : x[i] = f[i]
    BY <1>5 DEF Fields
  <2>2. \A i \in Same : y[i] = x[i]
    BY <1>10 DEF Fields
  <2>3. \A i \in Same : e[i] = y[i]
    BY <1>12 DEF Fields
  <2>4. \A i \in Same : z[i] = e[i]
    BY <1>14 DEF Fields
  <2>5. \A i \in Same : r[i] = z[i]
    BY <1>16 DEF Fields
  <2>6. \A i \in Same : d[i] = r[i]
    BY <1>19 DEF Fields
  <2>7. \A i \in Same : d[i] = f[i]
    <3> HIDE DEF Same
    <3> QED BY <2>1, <2>2, <2>3, <2>4, <2>5, <2>6, Zenon
  <2> QED BY <2>7
<1>22. /\ d.verify \in 0 .. 3 /\ d.removing \in 0 .. 1 /\ d.link \in {"off", "on", "due"}
       /\ d.terminal \in BOOLEAN /\ d.connected \in BOOLEAN
  BY <1>20, Zero, Zenon
<1>23. Nothing \in Messages /\ <<>> \in Seq({ResponseByte}) /\ f.state \in {"Idle", "Running", "Stopping"}
  <2>1. f.state \in {"Idle", "Running", "Stopping"}
    BY <1>2, Zenon DEF Kept, ServerTypes
  <2> QED BY <2>1 DEF Nothing, Messages
<1>24. Kept(d) /\ Waits(d)
  BY <1>2, <1>8, <1>19, <1>20, <1>21, <1>22, <1>23, QuietKept, Zenon
<1> QED BY <1>18, <1>24, TryStopKept, Zenon DEF IInv

\* A process that has been started
LEMMA CreatedKept ==
  ASSUME NEW paired \in BOOLEAN
  PROVE  Kept(Created(paired)) /\ Waits(Created(paired))
<1>1. PICK u : u = Created(paired)
  OBVIOUS
<1>2. PICK none : none = [c \in Characteristics |-> NoFallback]
  OBVIOUS
<1>3. PICK t : t = Create(0)
  OBVIOUS
<1>4. PICK buffer : buffer = Scratch
  OBVIOUS
<1>5. u = [state |-> "Idle", paired |-> paired, connected |-> FALSE, cancel |-> FALSE, fault |-> "none",
           active |-> FALSE, terminal |-> FALSE, safe |-> FALSE, safeTimer |-> FALSE, link |-> "off",
           pairingTimer |-> FALSE, verify |-> 0, verified |-> FALSE, removing |-> 0,
           attached |-> Unattached, timer |-> FALSE, startedSecured |-> FALSE, multi |-> FALSE, stored |-> 0,
           tx |-> t, scratch |-> buffer, fallback |-> none,
           subscribed |-> {}, pending |-> {}, told |-> {}, queued |-> FALSE, orphaned |-> "no",
           asked |-> Nothing, prepared |-> Nothing, handled |-> Unhandled, sent |-> Unsent, received |-> <<>>]
  BY <1>1, <1>2, <1>3, <1>4, Zenon DEF Created
<1>6. DOMAIN u = Fields
  BY <1>5 DEF Fields
<1>7. /\ u.state = "Idle" /\ u.paired = paired /\ u.connected = FALSE /\ u.fault = "none" /\ u.active = FALSE
      /\ u.terminal = FALSE /\ u.link = "off" /\ u.verify = 0 /\ u.removing = 0 /\ u.attached = Unattached
      /\ u.timer = FALSE /\ u.startedSecured = FALSE /\ u.multi = FALSE /\ u.stored = 0 /\ u.tx = t
      /\ u.scratch = buffer /\ u.subscribed = {} /\ u.pending = {} /\ u.told = {} /\ u.orphaned = "no"
      /\ u.asked = Nothing /\ u.prepared = Nothing /\ u.handled = Unhandled /\ u.sent = Unsent /\ u.received = <<>>
  BY <1>5
<1>8. Nothing \in Messages /\ buffer \in [1 .. ScratchBytes -> Bytes] /\ <<>> \in Seq({ResponseByte})
  BY <1>4 DEF Nothing, Messages, Scratch, Bytes
<1>9. t \in Transactions /\ t.state = "WaitingForInitialWrite"
  BY <1>3, Created0, Zenon
<1>10. Session(u)
  <2>1. {} \subseteq Characteristics /\ "none" \in Faults /\ "no" \in {"no", "now", "once"}
    BY DEF Faults
  <2>3. SessionTypes(u)
    BY <1>7, <2>1, Zero, Zenon DEF SessionTypes
  <2>2. SessionSound(u)
    BY <1>7 DEF SessionSound, Told
  <2> QED BY <1>6, <2>2, <2>3, Zenon DEF Session
<1>11. ServerTypes(u) /\ Timed(u)
  BY <1>7 DEF ServerTypes, Timed
<1>12. ProcedureTypes(u)
  <2>1. u.stored \in 0 .. ScratchBytes /\ u.attached \in Characteristics \cup {Unattached}
    BY <1>7
  <2>2. u.timer \in BOOLEAN /\ u.startedSecured \in BOOLEAN /\ u.multi \in BOOLEAN
    BY <1>7
  <2> QED BY <1>7, <1>8, <1>9, <2>1, <2>2, Zenon DEF ProcedureTypes
<1>13. Sealing(u) /\ RequestBuffered(u) /\ PreparedBuffered(u)
  BY <1>7, Zenon DEF Sealing, RequestBuffered, PreparedBuffered
<1>14. ResponseBuffered(u)
  BY <1>7, <1>9 DEF ResponseBuffered
<1>15. HandledSound(u) /\ SentSound(u)
  BY <1>7 DEF HandledSound, SentSound, Unhandled
<1>16. Waits(u)
  BY <1>7, Zenon DEF Waits
<1> QED BY <1>1, <1>10, <1>11, <1>12, <1>13, <1>14, <1>15, <1>16, Zenon DEF Kept

-----------------------------------------------------------------------------
(* The theorems *)

LEMMA InitIInv == Init => IInv
<1>1. FALSE \in BOOLEAN
  OBVIOUS
<1> QED BY <1>1, CreatedKept, Zenon DEF Init, IInv

LEMMA NextIInv == IInv /\ [Next]_w => IInv'
<1> SUFFICES ASSUME IInv, [Next]_w
             PROVE  IInv'
  OBVIOUS
<1>1. CASE Requests
  <2>1. PICK c \in Characteristics :
          \/ \E b \in Packets[c], sealed \in BOOLEAN : WriteValue(c, [bytes |-> b, sealed |-> sealed])
          \/ \E n \in Lengths : ReadValue(c, n)
    BY <1>1, Zenon DEF Requests
  <2>2. ASSUME NEW b \in Packets[c], NEW sealed \in BOOLEAN, WriteValue(c, [bytes |-> b, sealed |-> sealed])
        PROVE  IInv'
    BY <2>2, WriteValueKept, Zenon
  <2>3. ASSUME NEW n \in Lengths, ReadValue(c, n)
        PROVE  IInv'
    BY <2>3, ReadValueKept, Zenon
  <2> QED BY <2>1, <2>2, <2>3, Zenon
<1>2. ASSUME NEW c \in Notifying, RaiseEvent(c) \/ \E enable \in BOOLEAN : WriteConfiguration(c, enable)
      PROVE  IInv'
  <2>1. c \in Characteristics
    BY Zenon DEF Notifying
  <2> QED BY <1>2, <2>1, RaiseEventKept, WriteConfigurationKept, Zenon
<1>3. CASE ReadyToUpdateSubscribers
  BY <1>3, ReadyToUpdateKept, Zenon
<1>4. CASE Connect
  BY <1>4, ConnectKept, Zenon
<1>5. CASE Disconnect
  BY <1>5, DisconnectKept, Zenon DEF Disconnect
<1>6. CASE ProcedureTimer
  BY <1>6, ProcedureTimerKept, Zenon
<1>7. CASE PairingTimer \/ LinkDeadline \/ LinkTimer \/ SafeTimer
  BY <1>7, SessionTimersKept, Zenon
<1>8. ASSUME NEW c \in Characteristics, FallbackTimer(c)
      PROVE  IInv'
  BY <1>8, FallbackTimerKept, Zenon
<1>9. CASE Start \/ Stop
  BY <1>9, StartStopKept, Zenon
<1>10. CASE PairedOverIP
  BY <1>10, PairedOverIPKept, Zenon
<1>11. CASE Restart
  <2>1. w.paired \in BOOLEAN
    BY Zenon DEF IInv, Kept, Session, SessionTypes
  <2> QED BY <1>11, <2>1, CreatedKept, Zenon DEF Restart, IInv
<1>12. CASE UNCHANGED w
  BY <1>12, Zenon DEF IInv
<1> QED BY <1>1, <1>2, <1>3, <1>4, <1>5, <1>6, <1>7, <1>8, <1>9, <1>10, <1>11, <1>12, Zenon DEF Next

\* The inductive invariant holds in every state.
THEOREM InvariantKept == Spec => []IInv
<1>1. Init => IInv
  BY InitIInv
<1>2. IInv /\ [Next]_w => IInv'
  BY NextIInv
<1> QED BY <1>1, <1>2, PTL DEF Spec

\* Types, and the assertions of the source: of those that could fail, only the three that the
\* type invariant names do.
THEOREM TypesKept == Spec => []TypeOK
<1>1. IInv => TypeOK
  <2> SUFFICES ASSUME IInv
               PROVE  TypeOK
    OBVIOUS
  <2>1. w.attached \in Characteristics \cup {Unattached} /\ w.stored \in 0 .. ScratchBytes
    BY Zenon DEF IInv, Kept, ProcedureTypes
  <2>2. /\ w.link \in {"off", "on", "due"} /\ w.verify \in 0 .. 3 /\ w.removing \in 0 .. 1 /\ w.fault \in Faults
        /\ w.subscribed \subseteq Characteristics /\ w.told \subseteq Characteristics
    BY Zenon DEF IInv, Kept, Session, SessionTypes
  <2>3. w.state \in {"Idle", "Running", "Stopping"} /\ w.pending \subseteq Characteristics
    BY Zenon DEF IInv, Kept, ServerTypes
  <2>4. {w.attached} \cup w.subscribed \cup w.pending \cup w.told \subseteq Characteristics \cup {Unattached}
    BY <2>1, <2>2, <2>3
  <2> QED BY <2>1, <2>2, <2>3, <2>4, Zenon DEF TypeOK, Faults
<1> QED BY <1>1, InvariantKept, PTL

\* A write handler is given the bytes the central has written for that write, in however many
\* fragments, those of its timed write when it executes one; and what the central reads back
\* is the response as it was made.
THEOREM BodiesAreIntact == Spec => []BodiesIntact
<1>1. IInv => BodiesIntact
  <2> SUFFICES ASSUME IInv
               PROVE  BodiesIntact
    OBVIOUS
  <2>1. w.handled.on => w.handled.body = (IF w.handled.timed THEN w.prepared ELSE w.asked).body
    BY Zenon DEF IInv, Kept, HandledSound
  <2>2. \A k \in DOMAIN w.received : w.received[k] = ResponseByte
    <3>1. w.received \in Seq({ResponseByte})
      BY Zenon DEF IInv, Kept, ProcedureTypes
    <3> QED BY <3>1
  <2> QED BY <2>1, <2>2, Zenon DEF BodiesIntact
<1> QED BY <1>1, InvariantKept, PTL

\* A request is handled with the rights of the secure session exactly if it was sealed, while
\* the pairing of the session stays; and an answer is sealed exactly if its request was.
THEOREM SecurityIsKept == Spec => []SecurityKept
<1>1. IInv => SecurityKept
  BY Zenon DEF IInv, Kept, HandledSound, SentSound, SecurityKept
<1> QED BY <1>1, InvariantKept, PTL

\* The application knows who listens, and an event waits only for room in the queue.
THEOREM ApplicationInformed == Spec => []Informed
<1>1. IInv => Informed
  BY Zenon DEF IInv, Kept, Session, SessionSound, Told, Waits, Informed, Alive
<1> QED BY <1>1, InvariantKept, PTL
=============================================================================
