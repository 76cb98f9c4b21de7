----------------------------- MODULE HTTPReader -----------------------------
(* The incremental reader of HTTP requests (External/HTTP/util_http_reader.c): it takes   *)
(* what there is of a request, returns whenever a token is complete, and goes on from     *)
(* there when more has arrived. Quoted strings are left out.                              *)
EXTENDS Integers, Sequences

\* The characters of a request. Of the others, letters and digits for all, a token consists.
CR == 1
LF == 2
SP == 3
Colon == 4
IsWord(c) == c > Colon
IsText(c) == c \notin {CR, LF}

\* The digits, the names of the headers and one of the values that matter; what is asked for
Digit(d) == 10 + d
ContentLength == <<31, 32>>
ContentType == <<31, 33>>
JSON == <<34, 35>>
PairVerify == <<36, 37>>

\* A request, with the values of the headers that matter, which may be missing
Request(uri, type, length, body) == [uri |-> uri, type |-> type, length |-> length, body |-> body]

Line(name, value) == name \o <<Colon, SP>> \o value \o <<CR, LF>>

Heading(request) ==
  <<5, 6, SP>> \o request.uri \o <<SP, 7, CR, LF>>
    \o (IF request.type = <<>> THEN <<>> ELSE Line(ContentType, request.type[1]))
    \o (IF request.length = <<>> THEN <<>> ELSE Line(ContentLength, request.length[1]))
    \o <<CR, LF>>

Written(request) == Heading(request) \o request.body

\* A reader: its state and its substate
Reader(state, substate) == [state |-> state, substate |-> substate]

\* util_http_reader_init
InitialReader == Reader("EXPECTING_METHOD", "NONE")

\* The states in which util_http_reader_read returns although there is more
Stops == {"COMPLETED_METHOD", "COMPLETED_URI", "COMPLETED_VERSION", "COMPLETED_HEADER_NAME",
          "COMPLETED_HEADER_VALUE", "DONE", "ERROR"}

\* What becomes of the reader, and whether the character has been taken
To(state, substate, n) == [reader |-> Reader(state, substate), n |-> n]
Error == To("ERROR", "NONE", 0)

\* A token of words
AdvanceToken(r, c, completed) ==
  IF r.substate = "NONE" THEN IF IsWord(c) THEN To(r.state, "READING", 0) ELSE Error
  ELSE IF IsWord(c) THEN To(r.state, "READING", 1) ELSE To(completed, "NONE", 0)

\* Spaces, at least one
AdvanceSpaces(r, c, next) ==
  IF r.substate = "NONE" THEN IF c = SP THEN To(r.state, "AFTER_SP", 1) ELSE Error
  ELSE IF c = SP THEN To(r.state, "AFTER_SP", 1) ELSE To(next, "NONE", 0)

\* The end of a line, in two characters or in one
AdvanceLineEnd(r, c, next, substate) ==
  IF c = LF THEN To(next, substate, 1)
  ELSE IF c = CR /\ r.substate = "NONE" THEN To(r.state, "AFTER_CR", 1) ELSE Error

\* util_http_reader_read, one character, up to the version. Empty lines may come first.
AdvanceRequestLine(r, c) ==
  CASE r.state = "EXPECTING_METHOD" ->
         IF r.substate = "NONE" /\ c = SP THEN To(r.state, "NONE", 1)
         ELSE IF r.substate = "NONE" /\ c \notin {CR, LF} THEN To("READING_METHOD", "NONE", 0)
         ELSE AdvanceLineEnd(r, c, r.state, "NONE")
    [] r.state = "READING_METHOD" -> AdvanceToken(r, c, "COMPLETED_METHOD")
    [] r.state = "COMPLETED_METHOD" -> To("EXPECTING_URI", "NONE", 0)
    [] r.state = "EXPECTING_URI" -> AdvanceSpaces(r, c, "READING_URI")
    [] r.state = "READING_URI" -> AdvanceToken(r, c, "COMPLETED_URI")
    [] r.state = "COMPLETED_URI" -> To("EXPECTING_VERSION", "NONE", 0)
    [] r.state = "EXPECTING_VERSION" -> AdvanceSpaces(r, c, "READING_VERSION")
    [] r.state = "READING_VERSION" -> AdvanceToken(r, c, "COMPLETED_VERSION")
    [] r.state = "COMPLETED_VERSION" -> To("EXPECTING_HEADER_NAME", "NONE", 0)

\* The same for the headers. A line that begins with a space continues the value before.
AdvanceHeaders(r, c) ==
  CASE r.state = "EXPECTING_HEADER_NAME" -> AdvanceLineEnd(r, c, "READING_HEADER_NAME", "NONE")
    [] r.state = "READING_HEADER_NAME" ->
         IF r.substate = "NONE" /\ ~IsWord(c) THEN To("ENDING_HEADER_LINES", "NONE", 0)
         ELSE AdvanceToken(r, c, "COMPLETED_HEADER_NAME")
    [] r.state = "COMPLETED_HEADER_NAME" -> To("EXPECTING_HEADER_VALUE", "NONE", 0)
    [] r.state = "EXPECTING_HEADER_VALUE" ->
         IF c = Colon THEN To("READING_HEADER_VALUE", "NONE", 1) ELSE Error
    [] r.state = "READING_HEADER_VALUE" ->
         IF IsText(c) THEN To(r.state, "NONE", 1) ELSE To("COMPLETED_HEADER_VALUE", "NONE", 0)
    [] r.state = "COMPLETED_HEADER_VALUE" -> To("ENDING_HEADER_LINE", "NONE", 0)
    [] r.state = "ENDING_HEADER_LINE" ->
         IF r.substate = "AFTER_LF"
         THEN To(IF c = SP THEN "READING_HEADER_VALUE" ELSE "READING_HEADER_NAME", "NONE", 0)
         ELSE AdvanceLineEnd(r, c, r.state, "AFTER_LF")
    [] r.state = "ENDING_HEADER_LINES" -> AdvanceLineEnd(r, c, "DONE", "NONE")

Advance(r, c) ==
  CASE r.state \in {"DONE", "ERROR"} -> [reader |-> r, n |-> 0]
    [] r.state \in {"EXPECTING_METHOD", "READING_METHOD", "COMPLETED_METHOD", "EXPECTING_URI", "READING_URI",
                    "COMPLETED_URI", "EXPECTING_VERSION", "READING_VERSION", "COMPLETED_VERSION"} ->
         AdvanceRequestLine(r, c)
    [] OTHER -> AdvanceHeaders(r, c)

\* The way of util_http_reader_read: the reader, the bytes taken, and the token or the part of
\* one that is among them
NoToken == [at |-> -1, n |-> 0]

\* The next character, of the bytes of b
Taken(b, z) ==
  LET step == Advance(z.reader, b[z.o + 1])
      isInToken == z.reader.substate = "READING" \/ z.reader.state = "READING_HEADER_VALUE"
  IN  [reader |-> step.reader, o |-> z.o + step.n,
       token |-> IF ~isInToken THEN z.token
                 ELSE IF z.token = NoToken THEN [at |-> z.o, n |-> step.n]
                 ELSE [at |-> z.token.at, n |-> z.token.n + step.n]]

\* util_http_reader_read of the bytes of b after the first o and up to hi: it returns when there
\* are no more and when a token is complete. No byte takes it more than five steps.
IsThrough(z, hi) == z.o >= hi \/ z.reader.state \in Stops
Further(b, hi, z) == IF IsThrough(z, hi) THEN z ELSE Taken(b, z)

Read(b, hi, r, o) ==
  LET way == [reader |-> r, o |-> o, token |-> NoToken]
      most == 5 * (hi - o) + 5
      read[k \in 0 .. most] ==
        IF k = 0 THEN IF o < hi THEN Taken(b, way) ELSE way ELSE Further(b, hi, read[k - 1])
      last == CHOOSE k \in 0 .. most : IsThrough(read[k], hi)
  IN  read[last]

=============================================================================
