---------------------------- MODULE IPAccessory ----------------------------
(* The accessory database as JSON, for GET /accessories: HAP/HAPIPAccessory.c. *)
(* HAPIPAccessorySerializeReadResponse is a state machine that writes one      *)
(* token in each state and can be left and resumed after any of them.  Its     *)
(* states in their order are the pieces of the document, and its context is    *)
(* the number of pieces written.                                               *)
(*                                                                             *)
(* An accessory is a record of aid and services; a service of iid, type,       *)
(* primary, hidden, linked and characteristics; a characteristic is one of     *)
(* IPAccessoryProtocol with iid, description, values and ranges, which are      *)
(* <<>> or hold one item, and controlPoint and apple.  `answers` holds for      *)
(* each characteristic what its read handler will do: an error, or a value.    *)
EXTENDS IPAccessoryProtocol

\* HAPAccessoryServerSupportsService, HAPIPCharacteristicIsSupported.
Supported(x) == x.type \notin {"Pairing", "ServiceSignature"}

\* A piece is written if there is room for it, and for `least` bytes.  The handler of a
\* text value writes `data` bytes between quotation marks, and fails if there are fewer.
Token(text, tokens) == Piece(text, tokens) @@ [least |-> 0, data |-> 0, failed |-> ""]
Comma == Token(",", <<",">>)
Plain(text) == Token(text, <<"v">>)
Quoted(text) == Plain("\"" \o text \o "\"")
Field(name, value) == <<Token("\"" \o name \o "\"", <<"s">>), Token(":", <<":">>)>> \o value

\* Separators are states of their own, entered where another item is known to follow.
Joining(items) ==
  Halves([k \in DOMAIN items |-> (IF k = 1 THEN <<>> ELSE <<Comma>>) \o items[k]], LAMBDA s : s, <<>>)
Array(items) == <<Token("[", <<"[">>)>> \o Joining(items) \o <<Token("]", <<"]">>)>>
Object(fields) == <<Token("{", <<"{">>)>> \o Joining(fields) \o <<Token("}", <<"}">>)>>
Mapped(Op(_), s) == [k \in DOMAIN s |-> Op(s[k])]

\* HAPIPSessionHandleReadRequest for GET /accessories: whether the handler answers.
IsRead(c, answer) ==
  IsSwitchEvent(c) \/ (~c.controlPoint /\ (c.admin => answer.admin) /\ answer.err = "None")

ValuePiece(c, answer) ==
  LET empty == IF c.format = "TLV8" THEN "\"\"" ELSE "null"
      read == [Plain(ValueText(c, answer.value)) EXCEPT
                 !.data = IF c.format \in Texts THEN Len(answer.value) ELSE 0, !.failed = empty]
      piece == CASE IsSwitchEvent(c) -> Plain("null")
                 [] ~IsSwitchEvent(c) /\ ~IsRead(c, answer) -> Plain(empty)
                 [] OTHER -> read
  IN  [piece EXCEPT !.least = 2]

Permissions(c) ==
  LET order == SelectSeq(<<"pr", "pw", "ev", "aa", "tw", "wr", "hd">>, LAMBDA q : q \in c.props)
  IN  Field("perms", Array([k \in DOMAIN order |-> <<Quoted(order[k])>>]))

EventNotifications(c, answer) == Field("ev", <<Plain(IF answer.ev THEN "true" ELSE "false")>>)

Description(c) ==
  Field("description", <<Plain("\"" \o Joined(Escaped(c.description[1])) \o "\"")>>)

Unit(c) == Field("unit", <<Quoted(c.units)>>)

\* Whether the limits of a number are written: a step of 0 or 1 is none.
Limited(c) ==
  \/ c.format \in Numbers /\ (<<c.min, c.max>> # WholeRange[c.format]
                              \/ c.step \notin (IF c.format = "Float" THEN {"0"} ELSE {"0", "1"}))
  \/ c.format \in DOMAIN WholeLength /\ c.maxLen # WholeLength[c.format]

Limits(c) ==
  IF c.format \in Numbers
  THEN <<Field("minValue", <<Plain(NumberText(c.min))>>),
         Field("maxValue", <<Plain(NumberText(c.max))>>),
         Field("minStep", <<Plain(NumberText(c.step))>>)>>
  ELSE <<Field(IF c.format = "String" THEN "maxLen" ELSE "maxDataLen", <<Plain(c.maxLen)>>)>>

ValidValues(c) == Field("valid-values", Array(Mapped(LAMBDA v : <<Plain(v)>>, c.values[1])))

ValidValuesRanges(c) ==
  Field("valid-values-range",
        Array(Mapped(LAMBDA r : Array(<<<<Plain(r[1])>>, <<Plain(r[2])>>>>), c.ranges[1])))

If(cond, fields) == IF cond THEN fields ELSE <<>>

Characteristic(c, answer) ==
  Object(<<Field("iid", <<Plain(c.iid)>>), Field("type", <<Quoted(c.uuid)>>),
           Field("format", <<Quoted(FormatText[c.format])>>)>>
         \o If("pr" \in c.props, <<Field("value", <<ValuePiece(c, answer)>>)>>)
         \o <<Permissions(c)>>
         \o If("pr" \in c.props, <<EventNotifications(c, answer)>>)
         \o If(c.description # <<>>, <<Description(c)>>)
         \o If(HasUnit(c), <<Unit(c)>>)
         \o If(Limited(c), Limits(c))
         \o If(c.format = "UInt8" /\ c.apple /\ c.values # <<>>, <<ValidValues(c)>>)
         \o If(c.format = "UInt8" /\ c.apple /\ c.ranges # <<>>, <<ValidValuesRanges(c)>>))

Characteristics(s, answers) ==
  Field("characteristics",
        Array(Mapped(LAMBDA c : Characteristic(c, answers[c.iid]), SelectSeq(s.characteristics, Supported))))

LinkedServices(s) == Field("linked", Array(Mapped(LAMBDA iid : <<Plain(iid)>>, s.linked)))

Service(s, answers) ==
  Object(<<Field("iid", <<Plain(s.iid)>>), Field("type", <<Quoted(s.uuid)>>),
           Field("primary", <<Plain(IF s.primary THEN "true" ELSE "false")>>),
           Field("hidden", <<Plain(IF s.hidden THEN "true" ELSE "false")>>),
           LinkedServices(s), Characteristics(s, answers)>>)

Accessory(a, answers) ==
  Object(<<Field("aid", <<Plain(a.aid)>>),
           Field("services", Array(Mapped(LAMBDA s : Service(s, answers), SelectSeq(a.services, Supported))))>>)

\* The whole document: the primary accessory comes first.
Accessories(db, answers) ==
  Object(<<Field("accessories", Array(Mapped(LAMBDA a : Accessory(a, answers), db)))>>)

------------------------------------------------------------------------------
\* One call: from the piece after the first `done` on, until at least minBytes are written.
Written(piece, room) ==
  IF piece.data > 0 /\ piece.data > room - 2 THEN piece.failed ELSE piece.text

Serialized(document, done, minBytes, maxBytes) ==
  LET call[k \in Nat, text \in STRING] ==
        LET room == maxBytes - Len(text)
            next == Written(document[k + 1], room)
        IN  IF k > done /\ (Len(text) >= minBytes \/ k = Len(document))
              THEN [err |-> "None", done |-> k, text |-> text]
            ELSE IF room < Len(next) \/ room < document[k + 1].least THEN [err |-> "OutOfResources", done |-> k, text |-> text]
            ELSE call[k + 1, text \o next]
  IN  call[done, ""]
==============================================================================
