---------------------------- MODULE BLEProcedure ----------------------------
(* HAP-BLE procedures (HAP/HAPBLEProcedure.c): one transaction, or two for a    *)
(* timed write, over GATT writes and reads of one characteristic.  Operators    *)
(* take the state w of the server; those that depend on the application or on   *)
(* what a body says return the set of outcomes.                                 *)
EXTENDS BLETransaction, BLESession

CONSTANTS
  Db,            \* the characteristics
  ScratchBytes,  \* size of the procedure's buffer
  ReadLengths    \* how long a serialized value or signature may be

ASSUME ProcedureAssumption == ScratchBytes \in Nat /\ ReadLengths \subseteq 1 .. ScratchBytes

Unattached == "none"
Scratch == [k \in 1 .. ScratchBytes |-> 0]
\* Bytes of a response, as opposed to those of a request
ResponseByte == 99

\* HAPBLEProcedureDestroy, HAPBLEProcedureAttach and HAPBLEProcedureReset
Destroy(w) == [w EXCEPT !.timer = FALSE]
Attach(w, c) == [w EXCEPT !.attached = c, !.tx = Create(ScratchBytes), !.multi = FALSE, !.stored = 0,
                          !.startedSecured = FALSE, !.timer = FALSE]
Reset(w) == Attach(Destroy(w), w.attached)

ProcedureTimerExpired(w) == Invalidate(Reset([w EXCEPT !.timer = FALSE]), TRUE)

IsInProgress(w) == w.timer

-----------------------------------------------------------------------------
(* HAPBLEProcedureProcessTransaction                                            *)

\* SEND_ERROR_AND_RETURN, SEND_RESPONSE_AND_RETURN, and errors of GATT
Reply(w, status) == [err |-> "none", w |-> [w EXCEPT !.tx = SetResponse(@, status, FALSE, 0)]]
ReplyWith(w, n) ==
  [err |-> "none",
   w |-> [w EXCEPT !.tx = SetResponse(@, Success, TRUE, n),
                   !.scratch = [k \in DOMAIN @ |-> IF k <= n THEN ResponseByte ELSE @[k]]]]
Refuse(w, err) == {[err |-> err, w |-> w]}

\* A value, a signature or the like is serialized, unless that fails.
Serialized(w) == {ReplyWith(w, n) : n \in ReadLengths} \cup {Reply(w, InvalidRequest)}

OpenTo(c, write, secured) ==
  IF write THEN (IF secured THEN c.writable ELSE c.writableWithoutSecurity)
           ELSE (IF secured THEN c.readable ELSE c.readableWithoutSecurity)

\* An unsecured session is told so if security is all it lacks.
Denied(c, write, secured) ==
  IF ~secured /\ OpenTo(c, write, TRUE) THEN InsufficientAuthentication ELSE UnsupportedPDU

\* The read handler: that of Pair Verify and Pairings is the next message's.
ReadHandlers(w, c) ==
  CASE c.role = "PairVerify" -> PairVerifyRead(w)
    [] c.role = "Pairings" -> PairingsRead(w)
    [] OTHER -> {Taken(w), NotTaken(w)}

\* A session without admin permissions is refused where they are required: one in the clear
\* always, a secured one if its pairing does not have them, which is left open.
AdminOnly(w, required, answers) ==
  (IF required THEN {Reply(w, InsufficientAuthentication)} ELSE {})
    \cup (IF required /\ ~IsSecured(w) THEN {} ELSE answers)

ReadRequest(w, c, hasReturnResponse) ==
  IF w.multi THEN Refuse(w, "InvalidState")
  ELSE IF ~OpenTo(c, FALSE, IsSecured(w)) THEN {Reply(w, Denied(c, FALSE, IsSecured(w)))}
  ELSE AdminOnly(w, c.readRequiresAdmin,
         UNION {IF r.err THEN {Reply(r.w, InvalidRequest)}
                ELSE IF hasReturnResponse THEN {ReplyWith(r.w, n) : n \in ReadLengths}
                ELSE {Reply(r.w, Success)} : r \in ReadHandlers(w, c)})

WriteHandlers(w, c) ==
  CASE c.role = "PairVerify" -> PairVerifyWrite(w)
    [] c.role = "Pairings" -> PairingsWrite(w)
    [] OTHER -> {Taken(w), NotTaken(w)}

\* HAPBLECharacteristicParseAndWriteValue hands the body on, or finds it malformed or late.
Written(w, body, timed) == [w EXCEPT !.handled = [on |-> TRUE, body |-> body, timed |-> timed, secured |-> IsSecured(w)]]

WriteRequest(w, c, body, timed) ==
  LET open == IF c.role = "Identify" /\ ~IsSecured(w) THEN ~w.paired ELSE OpenTo(c, TRUE, IsSecured(w))
  IN  IF w.multi THEN Refuse(w, "InvalidState")
      ELSE IF ~open THEN {Reply(w, Denied(c, TRUE, IsSecured(w)))}
      ELSE AdminOnly(w, c.writeRequiresAdmin,
             IF ~timed /\ c.requiresTimedWrite THEN {Reply(w, InvalidRequest)}
             ELSE {Reply(w, InvalidRequest)}
                    \cup (IF timed THEN {Reply(w, UnsupportedPDU)} ELSE {})
                    \cup UNION {IF r.err THEN {Reply(r.w, InvalidRequest), Reply(r.w, InsufficientAuthorization)}
                                ELSE UNION {IF ~returns /\ ~c.supportsWriteResponse THEN {Reply(r.w, Success)}
                                            ELSE ReadRequest(r.w, c, returns) : returns \in BOOLEAN} :
                                  r \in WriteHandlers(Written(w, body, timed), c)})

\* A request that is supported is answered with what it asks for, a configuration perhaps
\* with nothing.
Answer(w, supported, mayBeEmpty) ==
  IF w.multi THEN Refuse(w, "InvalidState")
  ELSE IF ~supported THEN {Reply(w, UnsupportedPDU)}
  ELSE Serialized(w) \cup (IF mayBeEmpty THEN {Reply(w, Success)} ELSE {})

ServiceSignatureRequest(w, c) == Answer(w, c.serviceProcedures, FALSE)
SignatureRequest(w, c) == Answer(w, ~(IsSecured(w) /\ c.dropsSecurity), FALSE)
ConfigurationRequest(w, c) == Answer(w, IsSecured(w), FALSE)
ProtocolConfigurationRequest(w, c) ==
  Answer(w, c.serviceProcedures /\ c.supportsConfiguration /\ IsSecured(w), TRUE)
TokenRequest(w, c) == Answer(w, c.protocolInformation /\ IsSecured(w), FALSE)
TokenUpdateRequest(w, c) ==
  IF w.multi \/ ~c.protocolInformation \/ ~IsSecured(w) THEN Answer(w, FALSE, FALSE)
  ELSE {Reply(w, InvalidRequest), Reply(w, Success)}
InfoRequest(w, c) == Answer(w, c.protocolInformation /\ IsSecured(w), FALSE)

\* The body is kept where it is, in the buffer.
TimedWriteRequest(w) ==
  IF w.multi THEN Refuse(w, "InvalidState")
  ELSE {Reply([w EXCEPT !.multi = TRUE, !.stored = w.tx.total, !.prepared = w.asked], Success)}

Body(w, n) == SubSeq(w.scratch, 1, n)

ProcessTransaction(w) ==
  LET c        == Db[w.attached]
      op       == w.tx.opcode
      v        == [w EXCEPT !.tx.state = "HandlingRequest"]
      expected == IF IsServiceOperation(op) THEN c.serviceIID ELSE c.iid
  IN  IF ~RequestFits(w.tx) THEN {Reply(v, InvalidRequest)}
      ELSE IF ~IsValidOpcode(op) THEN {Reply(v, UnsupportedPDU)}
      ELSE IF w.tx.iid # expected /\ op # ServiceSignatureRead THEN {Reply(v, InvalidInstanceID)}
      ELSE CASE op = Read -> ReadRequest(v, c, TRUE)
             [] op = Write -> WriteRequest(v, c, Body(v, v.tx.total), FALSE)
             [] op = TimedWrite -> TimedWriteRequest(v)
             [] op = ExecuteWrite ->
                  IF ~v.multi THEN Refuse(v, "InvalidState")
                  ELSE WriteRequest([v EXCEPT !.multi = FALSE], c, Body(v, v.stored), TRUE)
             [] op = ServiceSignatureRead -> ServiceSignatureRequest(v, c)
             [] op = SignatureRead -> SignatureRequest(v, c)
             [] op = Configuration -> ConfigurationRequest(v, c)
             [] op = ProtocolConfiguration -> ProtocolConfigurationRequest(v, c)
             [] op = Token -> TokenRequest(v, c)
             [] op = TokenUpdate -> TokenUpdateRequest(v, c)
             [] op = Info -> InfoRequest(v, c)

-----------------------------------------------------------------------------
\* A packet is its bytes and whether they are sealed with the keys of the session.  Sealed
\* bytes that are taken for plain ones make no PDU.
Garbage == <<255>>
DecryptControlMessage(w, packet) ==
  IF packet.sealed /\ w.active THEN [err |-> "none", bytes |-> packet.bytes]
  ELSE [err |-> IF w.active THEN "InvalidData" ELSE "InvalidState"]
Plaintext(packet) == [err |-> "none", bytes |-> IF packet.sealed THEN Garbage ELSE packet.bytes]

\* Mutant: the procedure is started before the secure session is dropped.
StartProcedure_TooEarly(w) ==
  LET c == Db[w.attached]
      v == [w EXCEPT !.startedSecured = IsSecured(w), !.timer = TRUE]
  IN  DidStartBLEProcedure(IF IsSecured(w) /\ c.dropsSecurity THEN Reset(Invalidate(v, FALSE)) ELSE v)

\* HAPBLEProcedureHandleGATTWrite: the first write starts the procedure.
StartProcedure(w) ==
  LET c == Db[w.attached]
      v == IF IsSecured(w) /\ c.dropsSecurity THEN Reset(Invalidate(w, FALSE)) ELSE w
  IN  DidStartBLEProcedure([v EXCEPT !.startedSecured = IsSecured(v), !.timer = TRUE])

ProcedureWrite(w, packet) ==
  LET v == IF IsInProgress(w) THEN w ELSE StartProcedure(w)
      d == IF v.startedSecured THEN DecryptControlMessage(v, packet) ELSE Plaintext(packet)
      r == TransactionWrite(v.tx, v.scratch, d.bytes)
  IN  IF w.terminal \/ (~IsInProgress(w) /\ IsTerminalSoon(w)) THEN [err |-> "InvalidState", w |-> w]
      ELSE IF d.err # "none" THEN [err |-> d.err, w |-> v]
      ELSE IF r.err = "assertion" THEN [err |-> "none", w |-> Fault(v, "bodyOfExecuteWrite")]
      ELSE IF r.err # "none" THEN [err |-> r.err, w |-> v]
      ELSE [err |-> "none", w |-> DidSendGATTResponse([v EXCEPT !.tx = r.tx, !.scratch = r.buffer])]

\* Mutant: the buffer is given to the transaction that executes a timed write.
CompleteTransaction_Reuse(w) ==
  IF w.multi THEN [w EXCEPT !.tx = Create(ScratchBytes)]
  ELSE [w EXCEPT !.timer = FALSE, !.tx = Create(ScratchBytes)]

\* While a timed write is kept in the buffer the next transaction has no memory.
CompleteTransaction(w) ==
  IF w.multi THEN [w EXCEPT !.tx = Create(0)]
  ELSE [(IF w.timer THEN w ELSE Fault(w, "procedureTimer")) EXCEPT !.timer = FALSE, !.tx = Create(ScratchBytes)]

\* HAPBLEProcedureHandleGATTRead, of at most maxBytes before sealing.  What is sealed stays so
\* for the whole procedure: the last response of Pair Verify is plain.
AfterRead(w) ==
  IF ~IsInProgress(w) /\ w.startedSecured /\ ~IsSecured(w) THEN Invalidate(w, TRUE) ELSE w

\* Mutant: what is sealed depends on the session as it is now.
Respond_AsSecuredNow(v, maxBytes) ==
  LET r == TransactionRead(v.tx, v.scratch, maxBytes)
      u == [v EXCEPT !.tx = r.tx, !.sent = [bytes |-> r.bytes, sealed |-> IsSecured(v), final |-> r.final]]
  IN  IF r.err # "none" THEN [err |-> r.err, w |-> v]
      ELSE [err |-> "none", w |-> AfterRead(DidSendGATTResponse(IF r.final THEN CompleteTransaction(u) ELSE u))]

Respond(v, maxBytes) ==
  LET r == TransactionRead(v.tx, v.scratch, maxBytes)
      u == [v EXCEPT !.tx = r.tx, !.sent = [bytes |-> r.bytes, sealed |-> v.startedSecured, final |-> r.final]]
  IN  IF r.err # "none" THEN [err |-> r.err, w |-> v]
      ELSE IF v.startedSecured /\ ~v.active THEN [err |-> "InvalidState", w |-> [v EXCEPT !.tx = r.tx]]
      ELSE [err |-> "none", w |-> AfterRead(DidSendGATTResponse(IF r.final THEN CompleteTransaction(u) ELSE u))]

ProcedureRead(w, maxBytes) ==
  IF w.terminal THEN Refuse(w, "InvalidState")
  ELSE {IF p.err # "none" THEN p ELSE Respond(p.w, maxBytes) :
          p \in IF IsRequestAvailable(w.tx) THEN ProcessTransaction(w) ELSE {[err |-> "none", w |-> w]}}

=============================================================================
