----------------------- MODULE AccessorySerialization -----------------------
(* GET /accessories: the session sends the database as an HTTP response of     *)
(* chunks, composed in its outbound buffer as space becomes free, and           *)
(* encrypted frame by frame (HAP/HAPIPAccessoryServer.c, get_accessories,       *)
(* handle_accessory_serialization, WriteOutboundData, and                       *)
(* HAP/HAPIPSecurityProtocol.c).  An encrypted frame is its text between "<"    *)
(* and ">", which stand for its length and its tag.                            *)
EXTENDS IPAccessory

CONSTANTS
  Database,       \* the accessories
  Answers,        \* what the read handlers may do: functions from IDs
  MaxFrameBytes,  \* kHAPIPSecurityProtocol_MaxFrameBytes
  Capacity        \* size of the outbound buffer

VARIABLES
  state,       \* of the session: "Reading", "Writing", "Fatal"
  inProgress,  \* accessorySerializationIsInProgress
  document,    \* the pieces the serialization will write
  done,        \* accessorySerializationContext: pieces written
  data,        \* of the outbound buffer up to the mark
  position, limit,
  wire         \* what the client has received

vars == <<state, inProgress, document, done, data, position, limit, wire>>

CRLF == "\r\n"
ResponseHeader == "HTTP/1.1 200 OK" \o CRLF \o CRLF
Overhead == 2

Digit == <<"0", "1", "2", "3", "4", "5", "6", "7", "8", "9", "A", "B", "C", "D", "E", "F">>
Hex[n \in Nat] == (IF n < 16 THEN "" ELSE Hex[n \div 16]) \o Digit[(n % 16) + 1]

\* HAPIPSecurityProtocolEncryptData for a single frame.
Encrypted(text) == "<" \o text \o ">"

Least(m, n) == IF m < n THEN m ELSE n

\* What follows the frame that was sent moves to the front of the buffer.
Remainder == IF inProgress THEN SubSeq(data, limit + 1, Len(data)) ELSE data

\* Mutant: serializes whenever there is room.
Serializes_Always(rest, doc, k) == Len(rest) < Capacity /\ k < Len(doc)

\* The next chunk is composed once less than a frame is left to send.
Serializes(rest, doc, k) ==
  Len(rest) < Capacity /\ Len(rest) < MaxFrameBytes /\ k < Len(doc)

\* Mutant: the chunk is announced with the bytes that were asked for.
Chunk_Announced(text, last) ==
  Hex[Least(Len(text), MaxFrameBytes)] \o CRLF \o text \o CRLF \o (IF last THEN "0" \o CRLF \o CRLF ELSE "")

Chunk(text, last) == Hex[Len(text)] \o CRLF \o text \o CRLF \o (IF last THEN "0" \o CRLF \o CRLF ELSE "")

\* HAPFatalError: the program ends.
Dies(doc, k) ==
  /\ state' = "Fatal" /\ document' = doc /\ done' = k
  /\ UNCHANGED <<inProgress, data, position, limit>>

\* The buffer is sent as far as one frame goes.
Sends(text, doc, k) ==
  LET frame == SubSeq(text, 1, Least(MaxFrameBytes, Len(text)))
      rest == SubSeq(text, Len(frame) + 1, Len(text))
  IN  IF Len(text) + Overhead > Capacity THEN Dies(doc, k)
      ELSE /\ data' = Encrypted(frame) \o rest
           /\ position' = 0 /\ limit' = Len(frame) + Overhead
           /\ state' = "Writing" /\ inProgress' = TRUE
           /\ document' = doc /\ done' = k

\* There is nothing left: the session reads the next request.
Ends(doc, k) ==
  /\ state' = "Reading" /\ inProgress' = FALSE
  /\ data' = "" /\ position' = 0 /\ limit' = Capacity
  /\ document' = doc /\ done' = k

\* handle_accessory_serialization, with `rest` in the buffer.
Serialization(rest, doc, k) ==
  LET room == Capacity - Len(rest)
      call == Serialized(doc, k, Least(MaxFrameBytes, room), room)
      text == rest \o Chunk(call.text, call.done = Len(doc))
  IN  IF Serializes(rest, doc, k)
      THEN IF call.err # "None" \/ Len(text) > Capacity THEN Dies(doc, k)
           ELSE Sends(text, doc, call.done)
      ELSE IF rest # "" THEN Sends(rest, doc, k) ELSE Ends(doc, k)

Init ==
  /\ state = "Reading" /\ inProgress = FALSE
  /\ document = <<>> /\ done = 0
  /\ data = "" /\ position = 0 /\ limit = Capacity /\ wire = ""

\* get_accessories
GetAccessories(answers) ==
  /\ state = "Reading"
  /\ wire' = ""
  /\ Serialization(ResponseHeader, Accessories(Database, answers), 0)

\* WriteOutboundData: the stream takes some of the bytes.
SpaceAvailable(n) ==
  /\ state = "Writing"
  /\ n \in 1 .. limit - position
  /\ wire' = wire \o SubSeq(data, position + 1, position + n)
  /\ IF position + n = limit THEN Serialization(Remainder, document, done)
     ELSE /\ position' = position + n
          /\ UNCHANGED <<state, inProgress, document, done, data, limit>>

Next ==
  \/ \E answers \in Answers : GetAccessories(answers)
  \/ \E n \in {1, limit - position} : SpaceAvailable(n)

Spec == Init /\ [][Next]_vars

------------------------------------------------------------------------------
\* What a client makes of it.

\* The frames of the wire, decrypted; "?" if a frame is not one.
Decrypted ==
  LET End(j) == LET e == {k \in j .. Len(wire) : SubSeq(wire, k, k) = ">"}
                IN  IF e = {} THEN 0 ELSE CHOOSE k \in e : \A l \in e : k <= l
      read[j \in Nat] ==
        IF j > Len(wire) THEN ""
        ELSE IF SubSeq(wire, j, j) # "<" \/ End(j) = 0 \/ End(j) - j - 1 \notin 1 .. MaxFrameBytes THEN "?"
        ELSE SubSeq(wire, j + 1, End(j) - 1) \o read[End(j) + 1]
  IN  read[1]

\* The text of the chunks of a body up to the empty one, which ends it.
Dechunked(body) ==
  LET LineEnd(j) == CHOOSE k \in j .. Len(body) - 1 :
                      SubSeq(body, k, k + 1) = CRLF /\ \A l \in j .. k - 1 : SubSeq(body, l, l + 1) # CRLF
      Value(j, k) == CHOOSE n \in 0 .. Len(body) : Hex[n] = SubSeq(body, j, k)
      read[j \in Nat] ==
        LET e == LineEnd(j)
            n == Value(j, e - 1)
        IN  IF n = 0 THEN IF SubSeq(body, e + 2, Len(body)) = CRLF THEN "" ELSE "?"
            ELSE IF SubSeq(body, e + 2 + n, e + 3 + n) # CRLF THEN "?"
            ELSE SubSeq(body, e + 2, e + 1 + n) \o read[e + 4 + n]
  IN  read[1]

\* The text is that of the document, in which a value may have been left out for want
\* of room: after[lo, hi, j] is where the pieces lo .. hi may end that begin at j.
IsDocument(text) ==
  LET Variants(p) == {p.text} \cup (IF p.data > 0 THEN {p.failed} ELSE {})
      after[lo \in Nat, hi \in Nat, j \in Nat] ==
        IF lo = hi
        THEN {j + Len(t) : t \in {u \in Variants(document[lo]) : SubSeq(text, j, j + Len(u) - 1) = u}}
        ELSE LET mid == (lo + hi) \div 2
             IN  UNION {after[mid + 1, hi, k] : k \in after[lo, mid, j]}
  IN  Len(text) + 1 \in after[1, Len(document), 1]

\* When the response is complete the client has the header and, frame by frame and
\* chunk by chunk, the whole document once, whatever the sizes of frames, chunks and
\* writes: nothing of what waits in the buffer behind the encrypted frame is lost,
\* sent twice or overwritten, no chunk is empty before the last, and the document is
\* a JSON value.
ResponseIntact ==
  state = "Reading" /\ wire # "" =>
    /\ SubSeq(Decrypted, 1, Len(ResponseHeader)) = ResponseHeader
    /\ IsDocument(Dechunked(SubSeq(Decrypted, Len(ResponseHeader) + 1, Len(Decrypted))))
    /\ IsValue(Tokens(document))

\* A buffer of two frames, the longest piece, the digits and line ends of a chunk and
\* the overhead of a frame suffices: HAPFatalError "Invalid configuration" is out of reach.
BufferSuffices ==
  state = "Fatal" =>
    \E k \in DOMAIN document :
      2 * (MaxFrameBytes - 1) + Len(document[k].text) + 11 + Overhead > Capacity

\* GET /accessories ends with the whole database at the client unless a single value does not
\* fit: it neither damages what it sends nor gives up.
DatabaseServed == ResponseIntact /\ BufferSuffices

==============================================================================
