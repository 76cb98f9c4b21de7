------------------------ MODULE IPAccessoryProtocol ------------------------
(* The bodies of requests and responses of the IP accessory protocol:          *)
(* HAP/HAPIPAccessoryProtocol.c.  The length of a response is computed first,   *)
(* by one function, and announced in the header; a second function writes the  *)
(* text.  In responses numbers appear as their decimal text.                   *)
EXTENDS JSONUtils, Characteristic

CONSTANT Bad  \* a member value that is not what its name calls for

\* A characteristic: what the protocol and the server look at.
Numbers == Formats \ (Texts \cup {"Bool"})
Units == {"none", "celsius", "arcdegrees", "percentage", "lux", "seconds"}

FormatText == [f \in Formats |->
  CASE f = "Bool" -> "bool" [] f = "UInt8" -> "uint8" [] f = "UInt16" -> "uint16"
    [] f = "UInt32" -> "uint32" [] f = "UInt64" -> "uint64" [] f = "Int" -> "int"
    [] f = "Float" -> "float" [] f = "String" -> "string" [] f = "TLV8" -> "tlv8" [] f = "Data" -> "data"]

\* The range a number has if nothing restricts it, and the length a text has.
WholeRange == [f \in Numbers |->
  CASE f = "UInt8" -> <<"0", "255">> [] f = "UInt16" -> <<"0", "65535">>
    [] f = "UInt32" -> <<"0", "4294967295">> [] f = "UInt64" -> <<"0", "18446744073709551615">>
    [] f = "Int" -> <<"-2147483648", "2147483647">> [] f = "Float" -> <<"-inf", "inf">>]
WholeLength == [f \in {"String", "Data"} |-> IF f = "String" THEN "64" ELSE "2097152"]

Constrained(c) == \/ c.format \in Numbers /\ <<c.min, c.max>> # WholeRange[c.format]
                  \/ c.format \in DOMAIN WholeLength /\ c.maxLen # WholeLength[c.format]

\* Infinite values are written as null (HAPJSONUtilsGetFloatDescription).
NumberText(v) == IF v \in {"inf", "-inf", "nan"} THEN "null" ELSE v
HasUnit(c) == c.format \in Numbers /\ c.units # "none"
IsSwitchEvent(c) == c.type = "ProgrammableSwitchEvent"

------------------------------------------------------------------------------
\* Reading: a context is what was asked for and, once handled, status, value and ev.
\* `chr` is the characteristic with these IDs, or NoChr.
NoChr == [format |-> "none"]
AllSucceed(xs) == \A i \in DOMAIN xs : xs[i].status = "0"

NumFormatBytes == [f \in Formats |->
  CASE f = "Bool" -> 16 [] f = "UInt8" -> 17 [] f \in {"UInt16", "UInt32", "UInt64"} -> 18
    [] f = "Int" -> 15 [] f = "Float" -> 17 [] f = "String" -> 18 [] f \in {"TLV8", "Data"} -> 16]
NumUnitBytes == [u \in Units |->
  CASE u = "none" -> 0 [] u = "celsius" -> 17 [] u = "arcdegrees" -> 20
    [] u = "percentage" -> 20 [] u = "lux" -> 13 [] u = "seconds" -> 17]

NumValueBytes(c, v) == CASE c.format = "Bool" -> 1
                         [] c.format \in Numbers -> Len(NumberText(v))
                         [] OTHER -> 2 + NumEscaped(v)

NumConstraintBytes(c) ==
  CASE ~Constrained(c) -> 0
    [] c.format \in Numbers -> 35 + Len(NumberText(c.min)) + Len(NumberText(c.max)) + Len(NumberText(c.step))
    [] c.format = "String" -> 10 + Len(c.maxLen)
    [] OTHER -> 14 + Len(c.maxLen)

NumMetaBytes(c) == (IF HasUnit(c) THEN NumUnitBytes[c.units] ELSE 0) + NumConstraintBytes(c)

NumPermsBytes(c) == LET n == Cardinality(c.props) IN 11 + (IF n = 0 THEN 0 ELSE n * 4 + n - 1)

NumReadContextBytes(x, i, p, success) ==
  LET c == x.chr
      Asked(flag) == flag \in p /\ c # NoChr
  IN  (IF i = 1 THEN 15 ELSE 16) + Len(x.aid) + Len(x.iid)
      + (IF Asked("type") THEN 10 + Len(c.uuid) ELSE 0)
      + (IF Asked("meta") THEN NumFormatBytes[c.format] + NumMetaBytes(c) ELSE 0)
      + (IF x.status = "0"
         THEN (IF success THEN 9 ELSE 20) + (IF IsSwitchEvent(c) THEN 4 ELSE NumValueBytes(c, x.value))
         ELSE 10 + Len(x.status))
      + (IF Asked("perms") THEN NumPermsBytes(c) ELSE 0)
      + (IF Asked("ev") THEN 6 + (IF x.ev THEN 4 ELSE 5) ELSE 0)

\* HAPIPAccessoryProtocolGetNumCharacteristicReadResponseBytes
NumReadResponseBytes(xs, p) ==
  FoldLeftDomain(LAMBDA n, i : n + NumReadContextBytes(xs[i], i, p, AllSucceed(xs)), 22, xs)

\* The text of a value.  The data of a string is copied first and escaped in place.
Joined(s) == Halves(s, LAMBDA c : c, "")
ValueText(c, v) == CASE c.format = "Bool" -> (IF v = "0" THEN "0" ELSE "1")
                     [] c.format \in Numbers -> NumberText(v)
                     [] OTHER -> "\"" \o Joined(Escaped(v)) \o "\""

Begun == <<Piece("{\"characteristics\":[", <<"{", "s", ":", "[">>)>>
Ended == <<Piece("]}", <<"]", "}">>)>>

Identified(x, i) ==
  <<Piece((IF i = 1 THEN "" ELSE ",") \o "{\"aid\":" \o x.aid,
          (IF i = 1 THEN <<>> ELSE <<",">>) \o <<"{", "s", ":", "v">>),
    Member("iid", x.iid)>>

\* The piece that ends an object.
Closed(piece) == [text |-> piece.text \o "}", tokens |-> Append(piece.tokens, "}")]

Optional(cond, piece) == IF cond THEN <<piece>> ELSE <<>>

ConstraintPieces(c) ==
  IF c.format \in Numbers
  THEN <<Member("minValue", NumberText(c.min)), Member("maxValue", NumberText(c.max)),
         Member("minStep", NumberText(c.step))>>
  ELSE <<Member(IF c.format = "String" THEN "maxLen" ELSE "maxDataLen", c.maxLen)>>

PermsPiece(c) ==
  LET order == SelectSeq(<<"pr", "pw", "ev", "aa", "tw", "wr", "hd">>, LAMBDA q : q \in c.props)
      quoted(i) == (IF i = 1 THEN "" ELSE ",") \o "\"" \o order[i] \o "\""
  IN  Piece(",\"perms\":[" \o FoldLeftDomain(LAMBDA t, i : t \o quoted(i), "", order) \o "]",
            <<",", "s", ":", "[">>
              \o FlattenSeq([i \in DOMAIN order |-> IF i = 1 THEN <<"v">> ELSE <<",", "v">>]) \o <<"]">>)

ReadContextPieces(x, i, p, success) ==
  LET c == x.chr
      Asked(flag) == flag \in p /\ c # NoChr
  IN  Identified(x, i)
      \o Optional(Asked("type"), Member("type", "\"" \o c.uuid \o "\""))
      \o Optional(Asked("meta"), Member("format", "\"" \o FormatText[c.format] \o "\""))
      \o Optional(x.status = "0" /\ ~success, Member("status", "0"))
      \o (IF x.status = "0"
          THEN <<Closed(Member("value", IF IsSwitchEvent(c) THEN "null" ELSE ValueText(c, x.value)))>>
          ELSE <<Closed(Member("status", x.status))>>)
      \o Optional(Asked("perms"), PermsPiece(c))
      \o Optional(Asked("ev"), Member("ev", IF x.ev THEN "true" ELSE "false"))
      \o Optional(Asked("meta") /\ HasUnit(c), Member("unit", "\"" \o c.units \o "\""))
      \o (IF Asked("meta") /\ Constrained(c) THEN ConstraintPieces(c) ELSE <<>>)

\* HAPIPAccessoryProtocolGetCharacteristicReadResponseBytes
ReadResponse(xs, p) ==
  Begun \o FlattenSeq([i \in DOMAIN xs |-> ReadContextPieces(xs[i], i, p, AllSucceed(xs))]) \o Ended

------------------------------------------------------------------------------
\* HAPIPAccessoryProtocolGetNumCharacteristicWriteResponseBytes
NumWriteContextBytes(x, i) ==
  (IF i = 1 THEN 25 ELSE 26) + Len(x.aid) + Len(x.iid) + Len(x.status)
  + (IF x.status = "0" /\ x.response THEN 9 + NumValueBytes(x.chr, x.value) ELSE 0)
NumWriteResponseBytes(xs) == FoldLeftDomain(LAMBDA n, i : n + NumWriteContextBytes(xs[i], i), 22, xs)

\* HAPIPAccessoryProtocolGetCharacteristicWriteResponseBytes
WriteContextPieces(x, i) ==
  Identified(x, i) \o <<Member("status", x.status)>>
  \o Optional(x.status = "0" /\ x.response, Member("value", ValueText(x.chr, x.value)))
  \o <<Piece("}", <<"}">>)>>
WriteResponse(xs) == Begun \o FlattenSeq([i \in DOMAIN xs |-> WriteContextPieces(xs[i], i)]) \o Ended

\* HAPIPAccessoryProtocolGetNumEventNotificationBytes
NumEventContextBytes(x, i) ==
  (IF i = 1 THEN 24 ELSE 25) + Len(x.aid) + Len(x.iid)
  + (IF x.status = "0" THEN NumValueBytes(x.chr, x.value) ELSE 4)
NumEventBytes(xs) == FoldLeftDomain(LAMBDA n, i : n + NumEventContextBytes(xs[i], i), 22, xs)

\* HAPIPAccessoryProtocolGetEventNotificationBytes
EventContextPieces(x, i) ==
  Identified(x, i)
  \o <<Closed(Member("value", IF x.status = "0" THEN ValueText(x.chr, x.value) ELSE "null"))>>
EventNotification(xs) == Begun \o FlattenSeq([i \in DOMAIN xs |-> EventContextPieces(xs[i], i)]) \o Ended

------------------------------------------------------------------------------
\* How the server puts a body of the announced length into a buffer with `room` bytes
\* left after the header: it is sent, answered by "out of resources", or an assertion fails.
Composed(room, length, pieces) ==
  IF length > room THEN "out of resources"
  ELSE IF Appends(room, pieces) /\ TextLength(pieces) = length THEN "sent" ELSE "assertion fails"

------------------------------------------------------------------------------
\* Parsing.  A document is the sequence of its members, in order, each with a name and a
\* value; a value that is not what the name calls for is Bad.  Names the protocol does
\* not know are skipped.  A result carries the first error met.
Parsed(result, Step(_, _), members) ==
  FoldLeft(LAMBDA r, q : IF r.err # "none" THEN r ELSE Step(r, q), result, members)
Failed(r, err) == [r EXCEPT !.err = err]

\* HAPIPAccessoryProtocolGetCharacteristicReadRequests: "id" lists the IDs of
\* characteristics, the other parameters are flags; a fragment ends the query.
ReadRequests(query, maxContexts) ==
  LET AddID(r, id) == IF id = Bad THEN Failed(r, "InvalidData")
                      ELSE IF Len(r.ids) = maxContexts THEN Failed(r, "OutOfResources")
                      ELSE [r EXCEPT !.ids = Append(@, id)]
      Step(r, q) == CASE q.name = "#" -> [r EXCEPT !.err = "fragment"]
                      [] q.name = "id" -> Parsed(r, AddID, q.value)
                      [] q.name \in {"meta", "perms", "type", "ev"} /\ q.value = "1"
                           -> [r EXCEPT !.flags = @ \cup {q.name}]
                      [] q.name \in {"meta", "perms", "type", "ev"} /\ q.value = "0"
                           -> [r EXCEPT !.flags = @ \ {q.name}]
                      [] OTHER -> Failed(r, "InvalidData")
      r == Parsed([err |-> "none", ids |-> <<>>, flags |-> {}], Step, query)
  IN  IF r.err = "fragment" THEN Failed(r, "none") ELSE r

\* HAPIPAccessoryProtocolGetCharacteristicWriteRequests.  One object asks to write one
\* characteristic; a member given twice counts as given last.  A value is a record of its
\* JSON type and content; true and false are the numbers 1 and 0.
NoValue == [type |-> "None"]
EmptyWrite == [err |-> "none", aid |-> "none", iid |-> "none", value |-> NoValue,
               ev |-> "undefined", auth |-> "none", remote |-> FALSE, response |-> FALSE]

WriteMember(r, q) ==
  LET known == {"aid", "iid", "value", "ev", "authData", "remote", "r"}
  IN  CASE q.name \notin known -> r
        [] q.name \in known /\ q.value = Bad -> Failed(r, "InvalidData")
        [] q.name = "aid" -> [r EXCEPT !.aid = q.value]
        [] q.name = "iid" -> [r EXCEPT !.iid = q.value]
        [] q.name = "value" -> [r EXCEPT !.value = q.value]
        [] q.name = "ev" -> [r EXCEPT !.ev = IF q.value = "1" THEN "enabled" ELSE "disabled"]
        [] q.name = "authData" -> [r EXCEPT !.auth = q.value]
        [] q.name = "remote" -> [r EXCEPT !.remote = (q.value = "1")]
        [] q.name = "r" -> [r EXCEPT !.response = (q.value = "1")]

WriteObject(object) == Parsed(EmptyWrite, WriteMember, object)

WriteRequests(body, maxContexts) ==
  LET AddWrite(r, object) ==
        LET w == WriteObject(object)
        IN  IF w.err # "none" \/ "none" \in {w.aid, w.iid} THEN Failed(r, "InvalidData")
            ELSE IF Len(r.writes) = maxContexts THEN Failed(r, "OutOfResources")
            ELSE [r EXCEPT !.writes = Append(@, w)]
      Step(r, q) ==
        CASE q.name = "characteristics" -> IF q.value = <<>> THEN Failed(r, "InvalidData")
                                           ELSE Parsed(r, AddWrite, q.value)
          [] q.name = "pid" -> IF r.pid # "none" \/ q.value = Bad THEN Failed(r, "InvalidData")
                               ELSE [r EXCEPT !.pid = q.value]
          [] OTHER -> r
  IN  Parsed([err |-> "none", writes |-> <<>>, pid |-> "none"], Step, body)

\* HAPIPAccessoryProtocolGetCharacteristicWritePreparation: both members, once each.
WritePreparation(body) ==
  LET Step(r, q) ==
        IF q.name \notin {"ttl", "pid"} THEN r
        ELSE IF r[q.name] # "none" \/ q.value = Bad THEN Failed(r, "InvalidData")
        ELSE [r EXCEPT ![q.name] = q.value]
      r == Parsed([err |-> "none", ttl |-> "none", pid |-> "none"], Step, body)
  IN  IF "none" \in {r.ttl, r.pid} THEN Failed(r, "InvalidData") ELSE r
============================================================================
