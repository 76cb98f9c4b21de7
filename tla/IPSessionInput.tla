---------------------------- MODULE IPSessionInput ----------------------------
(* The bytes of one session of the IP server, from the TCP stream to the handlers of its  *)
(* requests (HAP/HAPIPAccessoryServer.c, handle_input, read_http and handle_http, with    *)
(* HAPIPSecurityProtocol.c and HAPIP+ByteBuffer.c).  They arrive in pieces of any size    *)
(* and are decrypted, read and discarded in one buffer, into which the tokens of the      *)
(* request point.  With the answer to Pair Verify the encrypted part of the stream begins.*)
EXTENDS HTTPReader

CONSTANTS
  Scripts,        \* what controllers send: requests in plaintext, then encrypted ones
  Capacity,       \* of the inbound buffer
  MaxFrameBytes,  \* kHAPIPSecurityProtocol_MaxFrameBytes
  FrameSizes,     \* how much controllers put into a frame
  SizeMax         \* SIZE_MAX

VARIABLES
  s,     \* the session, with what its controller has sent and what is on the way to it
  lost   \* whether a request was discarded while part of a frame was behind it in the buffer

sessionVars == <<s, lost>>

-----------------------------------------------------------------------------
(* Encryption                                                                             *)

NumAADBytes == 2
TagBytes == 1

\* A byte and a tag of the message with this nonce
Cipher(nonce, c) == 1000 + 100 * nonce + c
Tag(nonce) == 1000 + 100 * nonce + 99

\* A frame: its length in two bytes, which are authenticated, the ciphertext and the tag
Frame(bytes, nonce) ==
  <<Len(bytes) % 256, Len(bytes) \div 256>>
    \o [k \in 1 .. Len(bytes) |-> Cipher(nonce, bytes[k])] \o <<Tag(nonce)>>

NumFrames(n, size) == (n + size - 1) \div size

\* The frames of a message, from this nonce on; the last one holds what is left.
Frames(bytes, size, nonce) ==
  LET piece(k) == SubSeq(bytes, (k - 1) * size + 1, IF k * size < Len(bytes) THEN k * size ELSE Len(bytes))
      num == NumFrames(Len(bytes), size)
      frames[k \in 0 .. num] == IF k = 0 THEN <<>> ELSE frames[k - 1] \o Frame(piece(k), nonce + k - 1)
  IN  frames[num]

CopyBytes(b, to, from, n) ==
  [k \in DOMAIN b |-> IF k \in to + 1 .. to + n THEN b[from + k - to] ELSE b[k]]

\* What follows a frame that had n bytes is moved to them.
ClosedUp(b, at, n, limit) ==
  LET end == at + n + NumAADBytes + TagBytes IN CopyBytes(b, at + n, end, limit - end)

\* HAPIPSecurityProtocolDecryptData, with HAPSessionDecryptControlMessageWithAAD: one frame. One
\* that is too large or not authentic ends it with kHAPError_InvalidData, and the program with it:
\* handle_input asserts that the result is -1, and then closes the session.
DecryptFrame(x) ==
  LET at == x.position
      n == x.data[at + 1] + 256 * x.data[at + 2]
      end == at + NumAADBytes + n + TagBytes
      isAuthentic == /\ x.data[end] = Tag(x.nonce)
                     /\ \A k \in at + NumAADBytes + 1 .. end - TagBytes : x.data[k] - Cipher(x.nonce, 0) \in 0 .. 98
      plain == [k \in DOMAIN x.data |->
                  IF k \in at + 1 .. at + n THEN x.data[k + NumAADBytes] - Cipher(x.nonce, 0) ELSE x.data[k]]
  IN  IF x.state = "Failed" \/ x.limit - at < NumAADBytes THEN x
      ELSE IF n > MaxFrameBytes THEN [x EXCEPT !.state = "Failed"]
      ELSE IF x.limit < end THEN x
      ELSE IF ~isAuthentic THEN [x EXCEPT !.state = "Failed"]
      ELSE [x EXCEPT !.data = ClosedUp(plain, at, n, x.limit), !.position = at + n,
                     !.limit = x.limit - NumAADBytes - TagBytes, !.nonce = @ + 1]

\* All the frames that are complete. Each makes the limit smaller.
DecryptData(x) ==
  LET decrypted[k \in 0 .. x.limit + 1] == IF k = 0 THEN x ELSE DecryptFrame(decrypted[k - 1])
      last == CHOOSE k \in 0 .. x.limit : decrypted[k + 1] = decrypted[k]
  IN  decrypted[last]

-----------------------------------------------------------------------------
(* Reading a request                                                                      *)

TokenNames == {"METHOD", "URI", "HEADER_NAME", "HEADER_VALUE"}
NoTokens == [name \in TokenNames |-> NoToken]

\* prepare_reading_request
Prepared(x) ==
  [x EXCEPT !.reader = InitialReader, !.readerPosition = 0, !.parserError = FALSE,
            !.tokens = NoTokens, !.contentLength = <<>>, !.contentType = <<>>]

\* update_token. A part that does not continue the token fails an assertion.
Updated(x, name, part) ==
  LET token == x.tokens[name]
      longer == IF token = NoToken THEN part ELSE [at |-> token.at, n |-> token.n + part.n]
  IN  IF part = NoToken THEN x
      ELSE IF token # NoToken /\ token.at + token.n # part.at THEN [x EXCEPT !.state = "Failed"]
      ELSE [x EXCEPT !.tokens = [@ EXCEPT ![name] = longer]]

Bytes(x, name) == SubSeq(x.data, x.tokens[name].at + 1, x.tokens[name].at + x.tokens[name].n)

IsBlank(c) == c = SP
Trimmed(value) ==
  LET kept == {k \in DOMAIN value : ~IsBlank(value[k])}
  IN  IF kept = {} THEN <<>>
      ELSE SubSeq(value, CHOOSE k \in kept : \A j \in kept : k <= j, CHOOSE k \in kept : \A j \in kept : k >= j)

\* The number in decimal digits
Decimal(digits) ==
  LET number[k \in 0 .. Len(digits)] == IF k = 0 THEN 0 ELSE 10 * number[k - 1] + digits[k] - Digit(0)
  IN  number[Len(digits)]

IsNumber(value) == value # <<>> /\ \A k \in DOMAIN value : value[k] \in Digit(0) .. Digit(9)

\* read_http_content_length
ReadContentLength(x) ==
  LET value == Trimmed(Bytes(x, "HEADER_VALUE"))
  IN  IF IsNumber(value) /\ x.contentLength = <<>> /\ Decimal(value) <= SizeMax
      THEN [x EXCEPT !.contentLength = <<Decimal(value)>>]
      ELSE [x EXCEPT !.parserError = TRUE]

\* read_http_content_type: what is not known is not refused.
ReadContentType(x) ==
  LET value == Trimmed(Bytes(x, "HEADER_VALUE"))
  IN  IF value = <<>> THEN [x EXCEPT !.parserError = TRUE]
      ELSE [x EXCEPT !.contentType = IF value = JSON THEN <<value>> ELSE <<>>]

\* A header is complete. seen are those that were completed in this pass over the buffer.
ReadHeader(x, seen) ==
  LET name == Bytes(x, "HEADER_NAME")
      read == IF name \notin {ContentLength, ContentType} THEN x
              ELSE IF name \in seen THEN [x EXCEPT !.parserError = TRUE]
              ELSE IF name = ContentLength THEN ReadContentLength(x) ELSE ReadContentType(x)
  IN  IF x.tokens["HEADER_NAME"] = NoToken THEN [x EXCEPT !.state = "Failed"]
      ELSE [read EXCEPT !.tokens = [@ EXCEPT !["HEADER_NAME"] = NoToken, !["HEADER_VALUE"] = NoToken]]

\* The token a state of the reader is about
TokenOf(state) ==
  CASE state \in {"READING_METHOD", "COMPLETED_METHOD"} -> "METHOD"
    [] state \in {"READING_URI", "COMPLETED_URI"} -> "URI"
    [] state \in {"READING_HEADER_NAME", "COMPLETED_HEADER_NAME"} -> "HEADER_NAME"
    [] state \in {"READING_HEADER_VALUE", "COMPLETED_HEADER_VALUE"} -> "HEADER_VALUE"
    [] OTHER -> "none"

\* What util_http_reader_read has returned
Moved(x, read) ==
  LET moved == [x EXCEPT !.reader = read.reader, !.readerPosition = read.o]
  IN  IF TokenOf(read.reader.state) = "none" THEN moved
      ELSE Updated(moved, TokenOf(read.reader.state), read.token)

HasMore(x) ==
  /\ x.state # "Failed" /\ ~x.parserError
  /\ x.readerPosition < x.position /\ x.reader.state \notin {"DONE", "ERROR"}

\* A header that util_http_reader_read has completed is read. y is the session, and the names
\* of the headers completed so far in this pass over the buffer.
Completed(y) ==
  IF y.x.reader.state = "COMPLETED_HEADER_VALUE"
  THEN [x |-> ReadHeader(y.x, y.seen), seen |-> y.seen \cup {Bytes(y.x, "HEADER_NAME")}]
  ELSE y

\* A turn of the loop of read_http
ReadToken(y) ==
  Completed([y EXCEPT !.x = Moved(@, Read(@.data, @.position, @.reader, @.readerPosition))])

Turned(y) == IF HasMore(y.x) THEN ReadToken(y) ELSE y

\* read_http, until there is no more to read. No byte takes the reader more than five steps.
ReadHTTP(x) ==
  LET most == 5 * (x.position - x.readerPosition) + 5
      read[k \in 0 .. most] == IF k = 0 THEN ReadToken([x |-> x, seen |-> {}]) ELSE Turned(read[k - 1])
      last == CHOOSE k \in 0 .. most : ~HasMore(read[k].x)
  IN  read[last].x

-----------------------------------------------------------------------------
(* Handling it                                                                            *)

\* HAPIPByteBufferShiftLeft. The bytes from position to limit are not moved.
ShiftLeft(x, n) ==
  [x EXCEPT !.data = CopyBytes(x.data, 0, n, x.position - n),
            !.position = @ - n, !.limit = @ - n]

\* What handle_http_request is given
Handled(x, n) ==
  [uri |-> Bytes(x, "URI"), type |-> x.contentType,
   body |-> SubSeq(x.data, x.readerPosition + 1, x.readerPosition + n)]

\* Mutant: a request is handled when there is more than it in the buffer.
IsComplete_Less(x, n) == n <= x.position /\ x.readerPosition < x.position - n

IsComplete(x, n) == n <= x.position /\ x.readerPosition <= x.position - n

\* handle_http. The answer is encrypted if the request was; the one to Pair Verify makes
\* HAPSessionIsSecured true.
HandleHTTP(x) ==
  LET n == IF x.contentLength = <<>> THEN 0 ELSE x.contentLength[1]
      request == Handled(x, n)
      shifted == ShiftLeft(x, x.readerPosition + n)
  IN  IF ~IsComplete(x, n) THEN x
      ELSE [shifted EXCEPT !.handled = Append(@, request),
                           !.sealed = Append(@, x.isSecured),
                           !.hasKeys = @ \/ request.uri = PairVerify,
                           !.state = "Writing"]

\* What is left in the buffer, if anything, is the beginning of the next request.
Kept(x) ==
  [x EXCEPT !.mark = x.position, !.position = x.limit, !.limit = Capacity,
            !.state = IF @ = "Reading" /\ x.limit = Capacity THEN "Closed" ELSE @]

Interpreted(x) ==
  CASE x.state = "Failed" -> x
    [] x.state # "Failed" /\ (x.reader.state = "ERROR" \/ x.parserError) -> [x EXCEPT !.state = "Closed"]
    [] OTHER -> Kept(IF x.reader.state = "DONE" THEN HandleHTTP(x) ELSE x)

Decrypted(x) == IF x.state = "Failed" THEN x ELSE Interpreted(ReadHTTP(x))

\* handle_input
HandleInput(x) ==
  LET limited == [x EXCEPT !.limit = x.position]
  IN  Decrypted(IF ~x.hasKeys THEN limited
                ELSE DecryptData([limited EXCEPT !.isSecured = TRUE, !.position = x.mark]))

-----------------------------------------------------------------------------
(* What controllers send                                                                  *)

\* A length that no server takes for the one of the body: none, or larger than any
IsRefused(request) ==
  \/ request.type # <<>> /\ Trimmed(request.type[1]) = <<>>
  \/ request.length # <<>> /\ LET value == Trimmed(request.length[1]) IN ~IsNumber(value) \/ Decimal(value) > SizeMax

IsOversized(request) ==
  /\ request.length # <<>>
  /\ LET value == Trimmed(request.length[1])
     IN  IsNumber(value) /\ Len(Heading(request)) + Decimal(value) > Capacity

HasItsLength(request) ==
  IF request.length = <<>> THEN request.body = <<>>
  ELSE LET value == Trimmed(request.length[1]) IN IsNumber(value) /\ Decimal(value) = Len(request.body)

\* A request is written as RFC 2616 has it. It has the length it says, unless it is not taken.
Octets == 0 .. 98
Requests == [uri : Seq(Octets), type : Seq(Seq(Octets)), length : Seq(Seq(Octets)), body : Seq(Octets)]
IsRequest(request) ==
  /\ request \in Requests
  /\ request.uri # <<>> /\ \A k \in DOMAIN request.uri : IsWord(request.uri[k])
  /\ \A header \in {request.type, request.length} :
       Len(header) <= 1 /\ \A j \in DOMAIN header : \A k \in DOMAIN header[j] : IsText(header[j][k])
  /\ HasItsLength(request) \/ IsRefused(request) \/ IsOversized(request)

\* Nothing is encrypted before Pair Verify, and nothing is in plaintext after it.
IsScript(script) ==
  /\ script \in [plain : Seq(Requests), secure : Seq(Requests)]
  /\ \A k \in DOMAIN script.plain : IsRequest(script.plain[k])
  /\ \A k \in DOMAIN script.secure : IsRequest(script.secure[k])
  /\ \A k \in DOMAIN script.plain : script.plain[k].uri = PairVerify => k = Len(script.plain)
  /\ script.secure # <<>> => script.plain # <<>> /\ script.plain[Len(script.plain)].uri = PairVerify

ASSUME IPSessionInputAssumption ==
  /\ \A script \in Scripts : IsScript(script)
  /\ Capacity \in Nat /\ SizeMax \in Nat /\ Capacity <= SizeMax
  /\ MaxFrameBytes \in Nat /\ FrameSizes \subseteq 1 .. MaxFrameBytes

-----------------------------------------------------------------------------
(* The session and its controller                                                         *)

\* A session that has been accepted, from a controller with this script
SessionOf(script) ==
  Prepared([script |-> script, numSent |-> 0, wire |-> <<>>, sentNonce |-> 0, numAnswered |-> 0,
            state |-> "Reading", hasKeys |-> FALSE, isSecured |-> FALSE, nonce |-> 0,
            data |-> [k \in 1 .. Capacity |-> 0], position |-> 0, limit |-> Capacity, mark |-> 0,
            reader |-> InitialReader, readerPosition |-> 0, parserError |-> FALSE,
            tokens |-> NoTokens, contentLength |-> <<>>, contentType |-> <<>>,
            handled |-> <<>>, sealed |-> <<>>])

SessionInit == lost = FALSE /\ \E script \in Scripts : s = SessionOf(script)

SentOf(script) == script.plain \o script.secure
Sent == SentOf(s.script)

\* The controller sends its next request, before it has the answer to the last if it likes,
\* but waits for the answer to Pair Verify before it encrypts.
Send ==
  /\ s.numSent < Len(Sent)
  /\ s.numSent = Len(s.script.plain) => s.numAnswered = s.numSent
  /\ LET bytes == Written(Sent[s.numSent + 1])
     IN  IF s.numSent < Len(s.script.plain)
         THEN s' = [s EXCEPT !.numSent = @ + 1, !.wire = @ \o bytes]
         ELSE \E size \in FrameSizes :
                s' = [s EXCEPT !.numSent = @ + 1, !.wire = @ \o Frames(bytes, size, s.sentNonce),
                               !.sentNonce = @ + NumFrames(Len(bytes), size)]
  /\ UNCHANGED lost

\* A request has been handled and the bytes behind it that are not decrypted were not moved with
\* the others.
IsCutOff(x) == x.state = "Writing" /\ x.mark < x.position

\* ReadInboundData
ReadInboundData ==
  /\ s.state = "Reading"
  /\ \E n \in 1 .. Len(s.wire) :
       /\ n <= s.limit - s.position
       /\ LET data == [k \in DOMAIN s.data |->
                         IF k \in s.position + 1 .. s.position + n THEN s.wire[k - s.position] ELSE s.data[k]]
          IN  s' = HandleInput([s EXCEPT !.data = data, !.position = @ + n,
                                         !.wire = SubSeq(@, n + 1, Len(@))])
  /\ lost' = (lost \/ IsCutOff(s'))

\* handle_output_completion: the answer has been sent. What has arrived already is read now.
OutputCompletion ==
  /\ s.state = "Writing"
  /\ LET x == Prepared([s EXCEPT !.state = "Reading", !.numAnswered = @ + 1])
     IN  s' = IF x.position # 0 THEN HandleInput(x) ELSE x
  /\ lost' = (lost \/ IsCutOff(s'))

SessionNext == Send \/ ReadInboundData \/ OutputCompletion

SessionSpec == SessionInit /\ [][SessionNext]_sessionVars

-----------------------------------------------------------------------------

\* What a request is to be handled as
Meant(request) ==
  [uri |-> request.uri, body |-> request.body,
   type |-> IF request.type # <<>> /\ Trimmed(request.type[1]) = JSON THEN <<JSON>> ELSE <<>>]

\* What no server takes: a length that is none, or that no buffer holds, and an empty type
IsBad(request) ==
  \/ request.length = <<>> /\ request.body # <<>>
  \/ request.length # <<>> /\ LET value == Trimmed(request.length[1])
                              IN  \/ value = <<>> \/ \E k \in DOMAIN value : value[k] \notin Digit(0) .. Digit(9)
                                  \/ Decimal(value) # Len(request.body)
  \/ request.type # <<>> /\ Trimmed(request.type[1]) = <<>>
  \/ Len(Written(request)) > Capacity - NumAADBytes - TagBytes

\* A session ends because of a request that could not be taken, and not because of where the
\* pieces it arrived in begin and end: HAPIPByteBufferShiftLeft discards the bytes of the request
\* that was handled, as many as it is told to, and no others.
OnlyBadRefused ==
  s.state \in {"Closed", "Failed"} => \E k \in 1 .. s.numSent : k > Len(s.handled) /\ IsBad(Sent[k])

\* Requests are handled as they were sent, in their order, every one once and as soon as it is
\* complete, whatever pieces it arrived in, how it was put into frames and whether the requests
\* before had been answered; answers are encrypted from the first encrypted request on. All
\* this unless a request is discarded while part of a frame is behind it in the buffer.
RequestsIntact ==
  ~lost =>
    /\ OnlyBadRefused
    /\ Len(s.handled) <= s.numSent
    /\ \A k \in DOMAIN s.handled : s.handled[k] = Meant(Sent[k])
    /\ \A k \in DOMAIN s.sealed : s.sealed[k] <=> k > Len(s.script.plain)
    /\ s.state = "Reading" /\ s.wire = <<>> /\ s.numSent > Len(s.handled) => IsBad(Sent[Len(s.handled) + 1])

=============================================================================
