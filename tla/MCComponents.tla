---------------------------- MODULE MCComponents ----------------------------
(* The run loop and the components that are small enough to share a run with it        *)
(* (Components, and those that are not proved about): TLC explores them one beside the *)
(* other, part says which.                                                             *)
EXTENDS Components, IPSessionInput, TLC

CONSTANTS
  Header, UINT8_MAX, CharMax, SizeModulus, PipeSize,
  Bad

VARIABLES
  t,
  stream, numSelfPipeBytes, handling, context,
  w, leWrite,
  docState, inProgress, document, done, data, position, limit, wire

\* The smallest context, the largest, and one in between
Pipe == INSTANCE SelfPipe WITH Sizes <- {0, 3, UINT8_MAX}

\* Two characteristics of pairing, and the first fragment of a request to each
PairingDb ==
  [c \in {"Setup", "Verify"} |->
     [iid |-> 4, serviceIID |-> 1, role |-> IF c = "Verify" THEN "PairVerify" ELSE "ordinary",
      dropsSecurity |-> TRUE, readable |-> FALSE, readableWithoutSecurity |-> TRUE,
      writable |-> FALSE, writableWithoutSecurity |-> TRUE, requiresTimedWrite |-> FALSE,
      readRequiresAdmin |-> FALSE, writeRequiresAdmin |-> FALSE,
      supportsWriteResponse |-> TRUE, supportsEventNotification |-> FALSE,
      serviceProcedures |-> FALSE, supportsConfiguration |-> FALSE, protocolInformation |-> FALSE]]

LE == INSTANCE BLEPeripheralManager
        WITH Db <- PairingDb, Packets <- [c \in {"Setup", "Verify"} |-> {<<0, 2, 1, 4, 0>>}],
             ScratchBytes <- 2, ReadLengths <- {2}, Lengths <- {9}

\* Structures with an optional string, with another structure, and with a sequence that is not
\* in a TLV of its own; a union; a sequence of values, and one of variants. Of the six types
\* three must be left over.
Coding == INSTANCE TLV WITH UINT8_MAX <- 5

TLVFormats ==
  LET Optional(type, format) == [Coding!Member(type, format) EXCEPT !.isOptional = TRUE]
      Flat(format) == [Coding!Member(0, format) EXCEPT !.isFlat = TRUE]
      Divider == Coding!Member(0, Coding!Separator)
      Variants == <<Coding!Member(1, Coding!UInt(1, 1, 3)), Coding!Member(2, Coding!String(0, 9))>>
  IN  <<Coding!Struct(<<Coding!Member(1, Coding!Data(0, 40)), Optional(2, Coding!String(1, 9)), Optional(3, Coding!UInt(2, 1, 30))>>),
        Coding!Struct(<<Coding!Member(1, Coding!Struct(<<Coding!Member(1, Coding!Data(0, 9)), Optional(2, Coding!Data(0, 9))>>)),
                   Optional(3, Coding!String(0, 9))>>),
        Coding!Struct(<<Coding!Member(1, Coding!UInt(2, 0, 30)), Flat(Coding!SequenceOf(Coding!Member(2, Coding!String(0, 40)), Divider))>>),
        Coding!Union(Variants),
        Coding!SequenceOf(Coding!Member(1, Coding!Data(0, 9)), Divider),
        Coding!SequenceOf(Flat(Coding!Union(Variants)), Divider)>>

Letters(n) == [k \in 1 .. n |-> 1 + (k % 5)]

TLVValues ==
  <<{<<<<Letters(n)>>, string, number>> : n \in {0, 5, 6, 12, 40}, string \in {<<>>, <<<<3>>>>, <<Letters(7)>>}, number \in {<<>>, <<13>>}},
    {<<<<<<<<Letters(n)>>, <<Letters(1)>>>>>>, string>> : n \in {0, 4, 7}, string \in {<<>>, <<Letters(7)>>}},
    {<<<<6>>, <<strings>>>> : strings \in {<<>>, <<<<>>>>, <<Letters(3), <<>>>>, <<Letters(40), Letters(5)>>}},
    {[type |-> 2, value |-> Letters(n)] : n \in {0, 5, 9}},
    {<<>>, <<<<0>>>>, <<Letters(8), <<>>, <<0, 0>>>>},
    {<<[type |-> 1, value |-> 2], [type |-> 2, value |-> Letters(6)], [type |-> 1, value |-> 3]>>}>>

\* Of every type, complete, empty and in fragments, and what is broken off
TLVPieces == <<<<1, 0>>, <<1, 1, 2>>, <<1, 5, 1, 1, 0, 2, 0>>, <<2, 1, 1>>, <<2, 2, 0, 1>>, <<3, 2, 2, 1>>,
               <<0, 0>>, <<4, 1, 1>>, <<5, 2, 1, 0>>, <<2>>, <<1, 3, 1>>>>

Messages == INSTANCE TLVReader
              WITH UINT8_MAX <- 5, Formats <- TLVFormats, ValuesOf <- TLVValues,
                   Pieces <- TLVPieces, MaxPieces <- 3, Wanted <- {1, 2}

\* A bridge with a service that is not served over IP, and characteristics of every kind the
\* document treats in its own way
Base == [format |-> "Bool", type |-> "other", uuid |-> "25", props |-> {"pr"}, units |-> "none",
         min |-> "0", max |-> "255", step |-> "0", maxLen |-> "64", description |-> <<>>,
         values |-> <<>>, ranges |-> <<>>, controlPoint |-> FALSE, apple |-> TRUE, admin |-> FALSE]
Chr(iid, format, changes) == changes @@ [iid |-> iid, format |-> format] @@ Base

Lamp == <<
  Chr("9", "UInt8", [values |-> <<<<"0", "2">>>>, ranges |-> <<<<<<"4", "6">>, <<"8", "9">>>>>>, max |-> "9"]),
  Chr("10", "String", [props |-> {"pr", "pw", "ev"}, description |-> <<<<"a", "\"", "b">>>>, maxLen |-> "8"]),
  Chr("11", "TLV8", [props |-> {"pr", "pw", "wr"}, controlPoint |-> TRUE]),
  Chr("12", "Bool", [type |-> "ServiceSignature"]),
  Chr("13", "Float", [units |-> "celsius", min |-> "-inf", max |-> "100", props |-> {"pr", "hd"}, admin |-> TRUE])>>
Button == <<
  Chr("3", "UInt8", [type |-> "ProgrammableSwitchEvent", props |-> {"pr", "ev"}]),
  Chr("4", "Data", [props |-> {"pw"}, maxLen |-> "9"]),
  Chr("5", "Int", [props |-> {}, units |-> "lux", min |-> "-2147483648", max |-> "2147483647", step |-> "2"])>>

Srv(iid, type, linked, characteristics) ==
  [iid |-> iid, type |-> type, uuid |-> "43", primary |-> TRUE, hidden |-> FALSE,
   linked |-> linked, characteristics |-> characteristics]

SampleMaxOf == [f \in {"UInt8", "UInt16", "UInt32", "UInt64", "Int"} |-> CASE f = "UInt8" -> 3 [] f = "Int" -> 7 [] OTHER -> 15]

SampleAccessories == <<
  [aid |-> "1", services |-> <<Srv("7", "Pairing", <<>>, Lamp), Srv("8", "other", <<"20", "21">>, Lamp)>>],
  [aid |-> "2", services |-> <<Srv("20", "other", <<>>, <<>>), Srv("21", "other", <<>>, Button)>>],
  [aid |-> "3", services |-> <<>>]>>

Number(n) == [err |-> "None", admin |-> TRUE, ev |-> FALSE, value |-> n]
Failure == [err |-> "Unknown", admin |-> TRUE, ev |-> TRUE]
Text(characters) == [err |-> "None", admin |-> TRUE, ev |-> TRUE, value |-> characters]

SampleAnswers ==
  {[iid \in {"9", "10", "11", "13", "3", "4", "5"} |->
      CASE iid = "9" -> n [] iid = "10" -> text [] iid = "13" -> f [] OTHER -> Failure] :
     n \in {Number("4"), Failure},
     text \in {Text(<<>>), Text(<<"a", "\"", "newline", "ctl">>), Text([k \in 1 .. 68 |-> "x"]), Failure},
     f \in {Number("21.5"), Number("inf"), [Number("7") EXCEPT !.admin = FALSE]}}

Document == INSTANCE AccessorySerialization
              WITH state <- docState, Database <- SampleAccessories, Answers <- SampleAnswers,
                   MaxFrameBytes <- 40, Capacity <- 111, MaxDepth <- 12, MaxOf <- SampleMaxOf, Grid <- 10

\* Requests in one buffer: pairing and what follows it encrypted, several at once; types and
\* lengths with spaces and unknown ones; a length that is no number, one that is too large, one
\* that is never reached, and a request that is larger than the buffer
RequestScripts ==
  LET Length(digits) == <<[k \in DOMAIN digits |-> Digit(digits[k])]>>
      Body(n) == [k \in 1 .. n |-> 60 + k]
      Verify == Request(PairVerify, <<>>, Length(<<2>>), Body(2))
      Get == Request(<<40>>, <<>>, <<>>, <<>>)
      Put(type, n) == Request(<<41>>, type, Length(<<n>>), Body(n))
  IN  {[plain |-> <<Verify>>, secure |-> <<Get, Put(<<>>, 3)>>],
       [plain |-> <<Put(<<JSON>>, 1), Request(<<41>>, <<<<70, 71>>>>, <<<<SP>> \o Length(<<2>>)[1] \o <<SP>>>>, Body(2)), Get>>,
        secure |-> <<>>],
       [plain |-> <<Get, Request(<<41>>, <<>>, <<<<Digit(1), 50>>>>, Body(1)), Get>>, secure |-> <<>>],
       [plain |-> <<Request(<<41>>, <<>>, Length(<<3, 0, 0>>), <<>>), Get>>, secure |-> <<>>],
       [plain |-> <<Request(<<41>>, <<>>, Length(<<2, 9>>), <<>>), Get, Get>>, secure |-> <<>>],
       [plain |-> <<Verify>>, secure |-> <<Request([k \in 1 .. 40 |-> 40], <<>>, <<>>, <<>>)>>]}

\* The session of the parts that are about something else: nothing is sent on it.
NoSession == [SessionOf([plain |-> <<>>, secure |-> <<>>]) EXCEPT !.data = <<>>]

\* Characteristics of every format; the orders in which TLVs may come, of unknown type too
\* (0); data in one fragment and in two; a buffer that is full, and one with room.
LEChars ==
  LET Wide == [props |-> {"pr", "pw", "tw", "aa"}, min |-> 0, max |-> 35, step |-> 0, maxLen |-> 9,
               values |-> {}, ranges |-> {}]
      Of(format, samples) == [format |-> format, samples |-> samples] @@ Wide
  IN  {Of("Bool", BOOLEAN), [Of("UInt8", {0, 4}) EXCEPT !.max = 5], Of("UInt16", {0, 35}),
       Of("UInt64", {30}), [Of("Int", {-3, 30}) EXCEPT !.min = -4, !.props = {"pr", "pw"}],
       [Of("Float", {-8}) EXCEPT !.min = -9], Of("String", {<<>>, <<1, 2, 3, 4, 1, 2>>}),
       Of("Data", {<<0, 5>>, <<3, 3, 0, 3, 3>>}), Of("TLV8", {<<2, 1, 3>>})}

LEOrders == {<<1>>, <<2, 3, 1>>, <<3, 2, 1>>, <<1, 2, 3>>, <<4, 1, 5, 3, 2>>, <<5, 0, 2, 1, 3, 4>>}

LEBad ==
  LET I(type, bytes) == [type |-> type, value |-> bytes]
  IN  {<<>>, <<I(2, <<1>>), I(3, <<0>>)>>, <<I(1, <<1>>), I(0, <<>>), I(1, <<1>>)>>,
       <<I(1, <<1>>), I(3, <<2>>)>>, <<I(1, <<1>>), I(3, <<0, 0>>)>>, <<I(1, <<0>>), I(2, <<4>>)>>,
       <<I(4, <<1, 1>>), I(1, <<1>>)>>, <<I(5, <<0>>), I(1, <<1>>)>>, <<I(1, <<3, 0, 0, 0>>)>>,
       <<I(1, <<5, 5, 5, 5, 5, 5, 5, 5, 5, 5, 5>>)>>}

CharValues == INSTANCE BLECharacteristicValue
                WITH v <- leWrite, UINT8_MAX <- 5, Chars <- LEChars, Arrangements <- LEOrders,
                     AuthData <- {<<>>, <<1, 2>>, <<4, 3, 2, 1, 0, 4>>}, BadBodies <- LEBad,
                     Spare <- {3, 17}, Delays <- {0, 2, 4}, TTLs <- {2, 3}, MaxValueBytes <- 8,
                     MaxOf <- [f \in {"UInt8", "UInt16", "UInt32", "UInt64", "Int"} |->
                                 CASE f = "UInt8" -> 5 [] f = "UInt16" -> 35 [] f = "UInt64" -> 6 ^ 8 - 1 [] f = "Int" -> 647 [] OTHER -> 1295],
                     Grid <- 10

ASSUME MCComponentsAssumption ==
  /\ Streams!TCPStreamManagerAssumption /\ Pipe!SelfPipeAssumption
  /\ Advertising!BLEAdvertisingAssumption /\ Store!KeyValueStoreAssumption
  /\ Messages!TLVReaderAssumption /\ CharValues!BLECharacteristicValueAssumption
  /\ Coprocessor!MFiHWAuthAssumption
  /\ Broadcasts!BLECharacteristicConfigurationAssumption

-----------------------------------------------------------------------------

loopPart == <<vars, listener, streams, numTCPStreams>>
pipePart == <<stream, numSelfPipeBytes, handling, context>>
docPart == <<docState, inProgress, document, done, data, position, limit, wire>>
all == <<part, loopPart, pipePart, a, w, storePart, t, docPart, sessionVars, leWrite, m, broadcasts>>

MCInit ==
  /\ \/ part = "streams" /\ Streams!ManagerInit /\ t = None
     \/ /\ part \in {"loop", "pipe", "advertising", "LE", "store", "messages", "document", "requests", "values", "mfi", "broadcasts"} /\ Init
        /\ listener = None /\ streams = <<>> /\ numTCPStreams = 0
        /\ IF part = "messages" THEN Messages!Init ELSE t = None
  /\ Pipe!Init /\ Advertising!Init /\ LE!Init /\ Store!Init /\ Document!Init
  /\ IF part = "requests" THEN SessionInit ELSE s = NoSession /\ lost = FALSE
  /\ IF part = "values" THEN CharValues!Init ELSE leWrite = None
  /\ IF part = "mfi" THEN Coprocessor!Init ELSE m = None
  /\ IF part = "broadcasts" THEN Broadcasts!Init ELSE broadcasts = None

MCNext ==
  \/ /\ part = "loop" /\ Next
     /\ UNCHANGED <<part, listener, streams, numTCPStreams, pipePart, a, w, storePart, t, docPart, sessionVars, leWrite, m, broadcasts>>
  \/ part = "streams" /\ Streams!ManagerNext /\ UNCHANGED <<part, pipePart, a, w, storePart, t, docPart, sessionVars, leWrite, m, broadcasts>>
  \/ part = "pipe" /\ Pipe!Next /\ UNCHANGED <<part, loopPart, a, w, storePart, t, docPart, sessionVars, leWrite, m, broadcasts>>
  \/ part = "advertising" /\ Advertising!Next /\ UNCHANGED <<part, loopPart, pipePart, w, storePart, t, docPart, sessionVars, leWrite, m, broadcasts>>
  \/ part = "LE" /\ LE!Next /\ UNCHANGED <<part, loopPart, pipePart, a, storePart, t, docPart, sessionVars, leWrite, m, broadcasts>>
  \/ part = "store" /\ Store!Next /\ UNCHANGED <<part, loopPart, pipePart, a, w, t, docPart, sessionVars, leWrite, m, broadcasts>>
  \/ part = "messages" /\ Messages!Next /\ UNCHANGED <<part, loopPart, pipePart, a, w, storePart, docPart, sessionVars, leWrite, m, broadcasts>>
  \/ part = "document" /\ Document!Next /\ UNCHANGED <<part, loopPart, pipePart, a, w, storePart, t, sessionVars, leWrite, m, broadcasts>>
  \/ part = "requests" /\ SessionNext /\ UNCHANGED <<part, loopPart, pipePart, a, w, storePart, t, docPart, leWrite, m, broadcasts>>
  \/ part = "values" /\ CharValues!Next /\ UNCHANGED <<part, loopPart, pipePart, a, w, storePart, t, docPart, sessionVars, m, broadcasts>>
  \/ part = "mfi" /\ Coprocessor!Next /\ UNCHANGED <<part, loopPart, pipePart, a, w, storePart, t, docPart, sessionVars, leWrite, broadcasts>>
  \/ part = "broadcasts" /\ Broadcasts!Next /\ UNCHANGED <<part, loopPart, pipePart, a, w, storePart, t, docPart, sessionVars, leWrite, m>>

MCSpec ==
  /\ MCInit /\ [][MCNext]_all
  /\ WF_vars(part = "loop" /\ Loop) /\ WF_vars(part = "loop" /\ Tick)
  /\ WF_pipePart(part = "pipe" /\ Pipe!Handler)
  /\ WF_w(part = "LE" /\ LE!ProcedureTimerServed) /\ WF_w(part = "LE" /\ LE!SafeTimerServed)
  /\ WF_w(part = "LE" /\ LE!CancelledDisconnect)

-----------------------------------------------------------------------------
(* The properties of the other components, each stated in its module.                  *)

\* Callbacks scheduled from other threads are called (SelfPipe).
ScheduledIsInvoked == Pipe!ScheduledIsInvoked

\* The stop of the Bluetooth LE transport (BLEPeripheralManager)
BLEStops == LE!BLEStops

\* What is read out of TLVs (TLVReader), and of the bodies of writes (BLECharacteristicValue),
\* and what arrives of the response to GET /accessories (AccessorySerialization)
ReadAsWritten ==
  /\ part = "messages" => Messages!ReadAsWritten
  /\ part = "values" => CharValues!ValuesIntact
  /\ part = "document" => Document!DatabaseServed

\* The room of a value that is written (BLECharacteristicValue)
ValueHasRoom == part = "values" => CharValues!ValueHasRoom

=============================================================================
