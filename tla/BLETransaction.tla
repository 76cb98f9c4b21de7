----------------------------- MODULE BLETransaction -----------------------------
(* HAP-BLE PDUs (HAP/HAPBLEPDU.c) as sequences of bytes, and HAP-BLE transactions   *)
(* (HAP/HAPBLETransaction.c): a request is assembled from the fragments that are    *)
(* written, a response taken apart into the fragments that are read.  A transaction *)
(* t does not own the memory it works in: bodies are put into a buffer of its user, *)
(* of which it may use t.max bytes.                                                 *)
EXTENDS Integers, Sequences

-----------------------------------------------------------------------------
(* PDUs: a control field, the fixed parameters of a request, a response or a        *)
(* continuation, and a body that may continue in further PDUs.                      *)

\* HAPPDUOpcode
SignatureRead == 1
Write == 2
Read == 3
TimedWrite == 4
ExecuteWrite == 5
ServiceSignatureRead == 6
Configuration == 7
ProtocolConfiguration == 8
Token == 16
TokenUpdate == 17
Info == 18

IsValidOpcode(op) == op \in 1 .. 8 \cup 16 .. 18
IsServiceOperation(op) == op \in {ServiceSignatureRead, ProtocolConfiguration}

\* HAPBLEPDUStatus
Success == 0
UnsupportedPDU == 1
MaxProcedures == 2
InsufficientAuthorization == 3
InvalidInstanceID == 4
InsufficientAuthentication == 5
InvalidRequest == 6

\* The control field: bit 7 says continuation, bit 1 says response; all others are 0.
First == 0
Continuation == 128
Request == 0
Response == 2
ControlFields == {fragment + type : fragment \in {First, Continuation}, type \in {Request, Response}}
FragmentOf(field) == IF field >= Continuation THEN Continuation ELSE First
TypeOf(field) == field - FragmentOf(field)

LittleUInt16(b, at) == b[at] + 256 * b[at + 1]
AsLittleUInt16(n) == <<n % 256, n \div 256>>

InvalidData == [err |-> "InvalidData"]
OutOfResources == [err |-> "OutOfResources"]

\* The body of a first fragment: its length, and as much of it as the PDU has.
DeserializeBody(b) ==
  LET total == LittleUInt16(b, 1)
  IN  IF b = <<>> THEN [err |-> "none", total |-> 0, body |-> <<>>, hasBody |-> FALSE]
      ELSE IF Len(b) < 2 \/ Len(b) - 2 > total THEN InvalidData
      ELSE [err |-> "none", total |-> total, body |-> SubSeq(b, 3, Len(b)), hasBody |-> TRUE]

\* HAPBLEPDUDeserialize; of a response, only what kind of PDU it is.
Deserialize(b) ==
  LET isRequest == TypeOf(Head(b)) = Request
      fixed     == IF isRequest THEN 5 ELSE 3
      rest      == DeserializeBody(SubSeq(b, fixed + 1, Len(b)))
  IN  IF \/ b = <<>> \/ Head(b) \notin ControlFields \/ FragmentOf(Head(b)) # First
         \/ Len(b) < fixed \/ rest.err # "none"
      THEN InvalidData
      ELSE IF ~isRequest THEN [err |-> "none", type |-> Response]
      ELSE [err |-> "none", type |-> Request, opcode |-> b[2], tid |-> b[3], iid |-> LittleUInt16(b, 4),
            total |-> rest.total, body |-> rest.body, hasBody |-> rest.hasBody]

\* HAPBLEPDUDeserializeContinuation, with soFar bytes of total received before
DeserializeContinuation(b, type, total, soFar) ==
  IF \/ Len(b) < 2 \/ Head(b) \notin ControlFields
     \/ FragmentOf(Head(b)) # Continuation \/ TypeOf(Head(b)) # type
     \/ Len(b) - 2 > total - soFar
  THEN InvalidData
  ELSE [type |-> type, tid |-> b[2], body |-> SubSeq(b, 3, Len(b)), hasBody |-> Len(b) > 2, err |-> "none"]

\* HAPBLEPDUSerialize: a first fragment has the length of the whole body, if there is one.
Serialize(pdu, maxBytes) ==
  LET fixed  == IF pdu.fragment = Continuation THEN <<pdu.tid>>
                ELSE IF pdu.type = Request THEN <<pdu.opcode, pdu.tid>> \o AsLittleUInt16(pdu.iid)
                ELSE <<pdu.tid, pdu.status>>
      length == IF pdu.fragment = First /\ pdu.hasBody THEN AsLittleUInt16(pdu.total) ELSE <<>>
      b      == <<pdu.fragment + pdu.type>> \o fixed \o length \o pdu.body
  IN  IF Len(b) > maxBytes THEN OutOfResources ELSE [bytes |-> b, err |-> "none"]

-----------------------------------------------------------------------------
(* Transactions                                                                     *)

\* HAPBLETransactionCreate
Create(max) ==
  [state |-> "WaitingForInitialWrite", max |-> max, opcode |-> 0, tid |-> 0, iid |-> 0,
   status |-> 0, total |-> 0, offset |-> 0, hasBody |-> FALSE]

Fail(err) == [err |-> err]

\* Bytes from offset on are replaced.
Overwritten(buffer, offset, body) ==
  [k \in DOMAIN buffer |-> IF k - offset \in DOMAIN body THEN body[k - offset] ELSE buffer[k]]

\* TryAppendBodyFragment: the fragments of a body that is too long are only counted.  A body,
\* even an empty one, needs a buffer: without one (t.max is 0) an assertion fails.
Appended(t, buffer, pdu) ==
  IF t.total <= t.max /\ t.max = 0 /\ pdu.hasBody THEN Fail("assertion")
  ELSE [err |-> "none", tx |-> [t EXCEPT !.offset = @ + Len(pdu.body)],
        buffer |-> IF t.total > t.max THEN buffer ELSE Overwritten(buffer, t.offset, pdu.body)]

\* HAPBLETransactionHandleWrite
InitialWrite(t, buffer, b) ==
  LET pdu == Deserialize(b)
  IN  IF pdu.err # "none" THEN Fail(pdu.err)
      ELSE IF pdu.type # Request THEN Fail("InvalidData")
      ELSE Appended([t EXCEPT !.state = "ReadingRequest", !.opcode = pdu.opcode, !.tid = pdu.tid,
                              !.iid = pdu.iid, !.total = pdu.total, !.offset = 0],
                    buffer, pdu)

ContinuedWrite(t, buffer, b, total, soFar) ==
  LET pdu == DeserializeContinuation(b, Request, total, soFar)
  IN  IF pdu.err # "none" THEN Fail(pdu.err)
      ELSE IF pdu.tid # t.tid THEN Fail("InvalidData")
      ELSE Appended(t, buffer, pdu)

TransactionWrite(t, buffer, b) ==
  CASE t.state = "WaitingForInitialWrite" -> InitialWrite(t, buffer, b)
    [] t.state = "ReadingRequest" -> ContinuedWrite(t, buffer, b, t.total, t.offset)
       \* empty fragments may follow the request
    [] t.state \in {"HandlingRequest", "WaitingForInitialRead"} ->
         LET r == ContinuedWrite(t, buffer, b, 0, 0)
         IN  IF r.err # "none" THEN r ELSE [r EXCEPT !.tx = t, !.buffer = buffer]
    [] t.state = "WritingResponse" -> Fail("InvalidState")

\* HAPBLETransactionIsRequestAvailable and HAPBLETransactionGetRequest
IsRequestAvailable(t) == t.state = "ReadingRequest" /\ t.offset = t.total
RequestFits(t) == t.total <= t.max

\* HAPBLETransactionSetResponse; body is the number of bytes the user has put into the buffer.
SetResponse(t, status, hasBody, body) ==
  [t EXCEPT !.state = "WaitingForInitialRead", !.status = status, !.hasBody = hasBody,
            !.total = body, !.offset = 0]

\* HAPBLETransactionHandleRead
AnyOf(a, b) == IF a < b THEN a ELSE b

Fragment(t, buffer, n) == SubSeq(buffer, t.offset + 1, t.offset + n)

TransactionRead(t, buffer, maxBytes) ==
  LET first  == t.state = "WaitingForInitialRead"
      header == IF first THEN (IF t.total > 0 THEN 5 ELSE 3) ELSE 2
      n      == AnyOf(maxBytes - header, t.total - t.offset)
      pdu    == Serialize([fragment |-> IF first THEN First ELSE Continuation, type |-> Response,
                           tid |-> t.tid, status |-> t.status, total |-> t.total,
                           hasBody |-> t.hasBody, body |-> Fragment(t, buffer, n)], maxBytes)
  IN  IF t.state \notin {"WaitingForInitialRead", "WritingResponse"} THEN Fail("InvalidState")
      ELSE IF maxBytes < header THEN Fail("OutOfResources")
      ELSE IF pdu.err # "none" THEN Fail(pdu.err)
      ELSE [err |-> "none", bytes |-> pdu.bytes, final |-> t.offset + n = t.total,
            tx |-> [t EXCEPT !.state = "WritingResponse", !.offset = @ + n]]

=============================================================================
