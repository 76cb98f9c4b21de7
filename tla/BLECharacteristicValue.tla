------------------------ MODULE BLECharacteristicValue ------------------------
(* Values of characteristics in HAP-BLE procedures                                        *)
(* (HAP/HAPBLECharacteristicParseAndWriteValue.c, ...ReadAndSerializeValue.c): the body   *)
(* of a write is taken apart in the buffer it was received in, and the value and the      *)
(* authorization data are moved within that buffer before the application is called.      *)
EXTENDS Characteristic, TLC

CONSTANTS
  UINT8_MAX,
  Chars,          \* characteristics, each with some values it may have in `samples`
  Arrangements,   \* sequences of the types of the TLVs of a write request
  AuthData,       \* authorization data
  BadBodies,      \* sequences of TLVs no controller should send
  Spare,          \* how many bytes of the buffer the body may leave free
  Delays,         \* between a timed write and its execution
  TTLs,           \* times to live
  MaxValueBytes   \* the largest value: 64000

VARIABLE v

Reader == INSTANCE TLVReader
            WITH Formats <- <<>>, ValuesOf <- <<>>, Pieces <- <<>>, MaxPieces <- 0, Wanted <- {}, t <- v

BLECharacteristicValueAssumption ==
  /\ \A c \in Chars : CharacteristicIsValid(c)
  /\ Spare \subseteq Nat /\ Delays \subseteq Nat /\ TTLs \subseteq 1 .. UINT8_MAX /\ MaxValueBytes \in Nat

\* Types of TLVs (HAP/HAPBLEPDU+TLV.h)
ValueTLV == 1
AuthDataTLV == 2
OriginTLV == 3
TTLTLV == 4
ReturnResponseTLV == 5
RequestTLVs == {ValueTLV, AuthDataTLV, OriginTLV, TTLTLV, ReturnResponseTLV}

-----------------------------------------------------------------------------
(* What a value looks like in a TLV                                                       *)

SizeOf == [f \in {"UInt8", "UInt16", "UInt32", "UInt64", "Int", "Float"} |->
             CASE f = "UInt8" -> 1 [] f = "UInt16" -> 2 [] f = "UInt64" -> 8 [] OTHER -> 4]
Power(n) == (UINT8_MAX + 1) ^ n

\* Numbers are little-endian, two's complement; a Float is taken to be the number of its units.
Number(bytes) == Reader!Number(bytes, 1, Len(bytes))
Signed(bytes) == IF 2 * Number(bytes) < Power(4) THEN Number(bytes) ELSE Number(bytes) - Power(4)
LittleEndian(n, size) == Reader!Bytes(IF n < 0 THEN n + Power(size) ELSE n, size)

\* HAPUTF8IsValidData: 255 is in no text.
IsUTF8(bytes) == \A k \in DOMAIN bytes : bytes[k] # UINT8_MAX

\* The value for the handler, <<>> around it; none for an unexpected length or content.  A
\* text ends at the first zero.
DataOf(bytes) == <<bytes>>
BoolOf(bytes) == IF bytes \in {<<0>>, <<1>>} THEN <<bytes = <<1>>>> ELSE <<>>
UIntOf(format, bytes) == IF Len(bytes) = SizeOf[format] THEN <<Number(bytes)>> ELSE <<>>
IntOf(bytes) == IF Len(bytes) = SizeOf["Int"] THEN <<Signed(bytes)>> ELSE <<>>
FloatOf(bytes) == IF Len(bytes) = SizeOf["Float"] THEN <<Signed(bytes)>> ELSE <<>>
StringOf(b, at, n) ==
  LET bytes == SubSeq(b, at, at + n - 1)
  IN  IF Reader!StringEnd(b, at) - at = n /\ IsUTF8(bytes) THEN <<bytes>> ELSE <<>>
TLV8Of(bytes) == <<bytes>>

ValueOf(format, b, at, n) ==
  LET bytes == SubSeq(b, at, at + n - 1)
  IN  CASE format = "Data" -> DataOf(bytes)
        [] format = "Bool" -> BoolOf(bytes)
        [] format \in {"UInt8", "UInt16", "UInt32", "UInt64"} -> UIntOf(format, bytes)
        [] format = "Int" -> IntOf(bytes)
        [] format = "Float" -> FloatOf(bytes)
        [] format = "String" -> StringOf(b, at, n)
        [] format = "TLV8" -> TLV8Of(bytes)

\* The bytes of a value that is read
BytesOf(format, value) ==
  CASE format \in Texts -> value
    [] format = "Bool" -> IF value THEN <<1>> ELSE <<0>>
    [] OTHER -> LittleEndian(value, SizeOf[format])

-----------------------------------------------------------------------------
(* ParseRequest                                                                           *)

\* A value is moved with the zero behind it.
Moved(b, to, from, n) == Reader!CopyBytes(b, to, from, n + 1)

\* Mutant: the memory of the authorization data is not taken off.
ValueCapacity_Whole(b, free, authRoom) == Len(b) + 1 - free

\* What the value may take up
ValueCapacity(b, free, authRoom) == Len(b) + 1 - free - authRoom

\* The reader has passed over the whole body: `free`, the first byte behind it, is where the
\* bytes it has begin now.  There authorization data that came before the value is put first,
\* other data last, and the value in what they leave.  If that is too little, the value is
\* written over the data or behind the buffer.
Placed(b, free, value, authData) ==
  LET authRoom == IF authData = <<>> THEN 0 ELSE authData[1].n + 1
      authFirst == authData # <<>> /\ authData[1].at < value.at
      authAt == IF authFirst THEN free ELSE Len(b) + 1 - authRoom
      valueAt == IF authFirst THEN free + authRoom ELSE free
      withAuth == IF authData = <<>> THEN b ELSE Moved(b, authAt, authData[1].at, authData[1].n)
  IN  [overrun |-> value.n >= Len(b) + 1 - free - authRoom,
       b |-> Moved(withAuth, valueAt, value.at, value.n),
       value |-> [at |-> valueAt, n |-> value.n, max |-> ValueCapacity(b, free, authRoom)],
       authData |-> IF authData = <<>> THEN <<>> ELSE <<[at |-> authAt, n |-> authData[1].n]>>]

\* The TLVs of the first n bytes of the buffer have been found: all.v, all.b as they are now.
Parsed(c, b, n, all) ==
  LET tlv == all.v
      byte(type) == all.b[tlv[type][1].at]
      isFlag(type, allowed) == tlv[type] # <<>> => tlv[type][1].n = 1 /\ byte(type) \in allowed
      isValid == /\ all.ok /\ tlv[ValueTLV] # <<>>
                 /\ isFlag(OriginTLV, {0, 1}) /\ isFlag(TTLTLV, 0 .. UINT8_MAX) /\ isFlag(ReturnResponseTLV, {1})
                 /\ ("aa" \in c.props /\ tlv[AuthDataTLV] # <<>>) => tlv[OriginTLV] # <<>>
  IN  IF ~isValid THEN [ok |-> FALSE]
      ELSE [ok |-> TRUE,
            remote |-> tlv[OriginTLV] # <<>> /\ byte(OriginTLV) = 1,
            ttl |-> IF tlv[TTLTLV] = <<>> THEN 0 ELSE byte(TTLTLV),
            returns |-> tlv[ReturnResponseTLV] # <<>>,
            to |-> Placed(all.b \o SubSeq(b, n + 1, Len(b)), n + 1, tlv[ValueTLV][1],
                          IF "aa" \in c.props THEN tlv[AuthDataTLV] ELSE <<>>)]

\* The first n bytes of the buffer are the body.
ParseRequest(c, b, n) ==
  Parsed(c, b, n, Reader!GetAll(SubSeq(b, 1, n), 1, [type \in RequestTLVs |-> <<>>]))

\* Whether a timed write is executed too late; start and now in tenths of a second
HasExpired(ttl, start, now) == now >= ttl /\ now - ttl > start

-----------------------------------------------------------------------------
\* What becomes of a request r; answer is what the application says if it is called.  `start`
\* is empty unless it is the execution of a timed write.
Written(c, r, start, now, answer) ==
  LET value == ValueOf(c.format, r.to.b, r.to.value.at, r.to.value.n)
      isTimed == start # <<>>
  IN  IF ~r.ok THEN [at |-> "refused"]
      ELSE IF r.to.overrun THEN [at |-> "overrun"]
      ELSE IF isTimed /\ r.ttl = 0 THEN [at |-> "refused"]
      ELSE IF isTimed /\ HasExpired(r.ttl, start[1], now) THEN [at |-> "expired"]
      ELSE IF r.to.value.n > MaxValueBytes \/ value = <<>> THEN [at |-> "refused"]
      ELSE LET write == HandleWrite(c, value[1], answer)
           IN  IF ~write.called THEN [at |-> "refused"]
               ELSE [at |-> "called", value |-> write.value, err |-> write.err,
                     remote |-> r.remote, returns |-> r.returns, b |-> r.to.b,
                     place |-> r.to.value, authData |-> r.to.authData]

\* HAPBLECharacteristicParseAndWriteValue
ParseAndWriteValue(c, b, n, start, now, answer) ==
  Written(c, ParseRequest(c, b, n), start, now, answer)

\* HAPBLECharacteristicReadAndSerializeValue: the value is read into the bytes of the writer,
\* which is empty, and made a TLV there.
ReadAndSerializeValue(c, value, maxBytes, answer) ==
  LET room == IF c.format \in Texts /\ maxBytes > MaxValueBytes THEN MaxValueBytes ELSE maxBytes
      read == HandleRead(c, value, room, answer)
      bytes == Reader!Append_(ValueTLV, BytesOf(c.format, read.value))
      fits == \/ c.format \in Texts
              \/ IF c.format = "Bool" THEN room >= 1 ELSE room >= SizeOf[c.format]
  IN  IF ~fits
      THEN [at |-> "notRead", err |-> "OutOfResources"]
      ELSE IF read.err # "None" THEN [at |-> "notRead", err |-> read.err]
      ELSE IF Len(bytes) > maxBytes THEN [at |-> "notRead", err |-> "OutOfResources"]
      ELSE [at |-> "read", bytes |-> bytes]

-----------------------------------------------------------------------------
(* One write, or a value that is read and written back                                    *)

\* items are what the controller means; the bytes behind the body are what was there before.
Request(c, items, spare, start, now, proper) ==
  [at |-> "request", c |-> c, items |-> items, start |-> start, now |-> now, proper |-> proper,
   body |-> Reader!FlattenSeq([k \in DOMAIN items |-> Reader!Append_(items[k].type, items[k].value)]),
   spare |-> spare]
Item(type, value) == [type |-> type, value |-> value]

Init ==
  \/ \E c \in Chars, order \in Arrangements, auth \in AuthData, origin \in {0, 1}, ttl \in TTLs, spare \in Spare :
     \E value \in c.samples, delay \in Delays, isTimed \in BOOLEAN :
       /\ isTimed => \E k \in DOMAIN order : order[k] = TTLTLV
       /\ v = Request(c,
             [k \in DOMAIN order |-> Item(order[k],
                CASE order[k] = ValueTLV -> BytesOf(c.format, value) [] order[k] = AuthDataTLV -> auth
                  [] order[k] = OriginTLV -> <<origin>> [] order[k] = TTLTLV -> <<ttl>> [] OTHER -> <<1>>)],
             spare, IF isTimed THEN <<2>> ELSE <<>>, 2 + delay, TRUE)
  \/ \E c \in Chars, items \in BadBodies, spare \in Spare : v = Request(c, items, spare, <<>>, 0, FALSE)
  \/ \E c \in Chars, spare \in Spare : \E value \in c.samples :
       v = [at |-> "value", c |-> c, value |-> value, maxBytes |-> 2 + spare]

\* A write, or the execution of a timed one (HAPBLEProcedure)
WriteRequest ==
  /\ v.at = "request"
  /\ \E answer \in {"None", "Busy"} :
       v' = ParseAndWriteValue(v.c, v.body \o [k \in 1 .. v.spare |-> UINT8_MAX], Len(v.body), v.start, v.now, answer)
              @@ v

\* A read. What is answered is the body of a write as well.
ReadRequest ==
  /\ v.at = "value"
  /\ \E answer \in {"None", "Busy"} :
       v' = ReadAndSerializeValue(v.c, v.value, v.maxBytes, answer) @@ v

WriteBack ==
  /\ v.at = "read"
  /\ \E spare \in Spare :
       v' = [Request(v.c, <<Item(ValueTLV, BytesOf(v.c.format, v.value))>>, spare, <<>>, 0, TRUE) EXCEPT !.body = v.bytes]

Next == WriteRequest \/ ReadRequest \/ WriteBack

-----------------------------------------------------------------------------
\* What a handler is given is what the controller sent, whatever the order of the TLVs, how
\* they were fragmented and moved: the value, terminated, where the memory the application may
\* use behind it does not reach the authorization data; those data, unless the characteristic
\* does not support them; and where the controller is.  Only a timed write that is in time gets
\* there.  What a controller should send is not refused, a value that was read among it.
ValuesIntact ==
  LET of(type) == SelectSeq(v.items, LAMBDA item : item.type = type)
      bytes(x) == SubSeq(v.b, x.at, x.at + x.n - 1)
      isTerminated(x) == v.b[x.at + x.n] = 0
  IN  /\ v.at = "called" =>
           /\ Len(of(ValueTLV)) = 1 /\ BytesOf(v.c.format, v.value) = of(ValueTLV)[1].value
           /\ bytes(v.place) = of(ValueTLV)[1].value /\ isTerminated(v.place)
           /\ v.remote = (\E k \in DOMAIN v.items : v.items[k] = Item(OriginTLV, <<1>>))
           /\ v.returns = (of(ReturnResponseTLV) # <<>>)
           /\ (v.authData # <<>>) = ("aa" \in v.c.props /\ of(AuthDataTLV) # <<>>)
           /\ \A k \in DOMAIN v.authData : LET x == v.authData[k] IN
                /\ bytes(x) = of(AuthDataTLV)[1].value /\ isTerminated(x)
                /\ x.at + x.n < v.place.at \/ v.place.at + v.place.max <= x.at
           /\ v.place.n < v.place.max /\ v.place.at + v.place.max <= Len(v.b) + 1
           /\ v.start # <<>> => (of(TTLTLV) # <<>> /\ v.now - v.start[1] <= of(TTLTLV)[1].value[1])
      /\ v.at = "refused" => ~v.proper
      /\ v.at = "expired" => v.now - v.start[1] > of(TTLTLV)[1].value[1]

\* A value is moved to where there is room for it: maxBytes is the "Capacity of value, including
\* free memory after the value" (HAP/HAPBLECharacteristicParseAndWriteValue.c:17).
ValueHasRoom == v.at # "overrun"

=============================================================================
