--------------------------------- MODULE TLV ---------------------------------
(* Values of a described format as TLVs (HAP/HAPTLV.c, HAPTLVWriter.c): a type, a length  *)
(* and that many bytes; a value that is longer than a length can say is continued in      *)
(* fragments of the same type.  A value is a sequence of bytes, a number, the sequence of *)
(* the values of the members of a structure (a sequence of none or one for each), the     *)
(* variant and the value of a union, or the sequence of the items of a sequence.          *)
EXTENDS Integers, Sequences, SequencesExt

CONSTANT UINT8_MAX

Types == 0 .. UINT8_MAX

\* A format is a record with a kind and what that kind needs.
Data(min, max) == [kind |-> "Data", min |-> min, max |-> max]
String(min, max) == [kind |-> "String", min |-> min, max |-> max]
UInt(size, min, max) == [kind |-> "UInt", size |-> size, min |-> min, max |-> max]
Separator == [kind |-> "None"]
Struct(members) == [kind |-> "Struct", members |-> members]
Union(variants) == [kind |-> "Union", variants |-> variants]
SequenceOf(item, separator) == [kind |-> "Sequence", item |-> item, separator |-> separator]
Member(type, format) == [type |-> type, format |-> format, isOptional |-> FALSE, isFlat |-> FALSE]

\* HAPTLVFormatIsAggregate
IsAggregate(format) == format.kind \in {"Sequence", "Struct", "Union"}

\* HAPTLVFormatUsesType
RECURSIVE UsesType(_, _)
UsesType(format, type) ==
  \/ /\ format.kind = "Sequence"
     /\ \/ IF format.item.isFlat THEN UsesType(format.item.format, type) ELSE type = format.item.type
        \/ type = format.separator.type
  \/ /\ format.kind = "Struct"
     /\ \E k \in DOMAIN format.members : LET member == format.members[k] IN
          IF member.isFlat THEN UsesType(member.format, type) ELSE type = member.type
  \/ format.kind = "Union" /\ \E k \in DOMAIN format.variants : type = format.variants[k].type

\* HAPTLVFormatIsValid, for a flat member the last one in addition: the reader takes what it
\* does not know for unexpected, the members that follow included.
RECURSIVE IsValidFormat(_)
IsValidFormat(format) ==
  CASE format.kind = "UInt" -> format.min <= format.max
    [] format.kind \in {"Data", "String"} -> format.min <= format.max
    [] format.kind = "None" -> TRUE
    [] format.kind = "Sequence" ->
         /\ IsValidFormat(format.item.format)
         /\ IF format.item.isFlat
            THEN format.item.format.kind = "Union" /\ ~UsesType(format.item.format, format.separator.type)
            ELSE format.item.type # format.separator.type
    [] format.kind = "Struct" ->
         \A k \in DOMAIN format.members : LET member == format.members[k] IN
           /\ IsValidFormat(member.format)
           /\ member.isFlat => /\ IsAggregate(member.format) /\ ~member.isOptional
                               /\ k = Len(format.members)
           /\ \A j \in 1 .. k - 1 :
                IF member.isFlat THEN ~UsesType(member.format, format.members[j].type)
                ELSE member.type # format.members[j].type
    [] format.kind = "Union" ->
         \A k \in DOMAIN format.variants :
           /\ IsValidFormat(format.variants[k].format)
           /\ \A j \in 1 .. k - 1 : format.variants[k].type # format.variants[j].type

-----------------------------------------------------------------------------
(* The writer                                                                             *)

\* Little-endian, with all the bytes of the type
RECURSIVE Bytes(_, _)
Bytes(number, size) ==
  IF size = 0 THEN <<>>
  ELSE <<number % (UINT8_MAX + 1)>> \o Bytes(number \div (UINT8_MAX + 1), size - 1)

\* HAPTLVWriterAppend: full fragments and a rest, which is left out only after another one.
Append_(type, value) ==
  LET full == IF Len(value) = 0 THEN 0 ELSE (Len(value) - 1) \div UINT8_MAX
      fragment(k) == SubSeq(value, k * UINT8_MAX + 1, IF k < full THEN (k + 1) * UINT8_MAX ELSE Len(value))
  IN  FlattenSeq([k \in 1 .. full |-> <<type, UINT8_MAX>> \o fragment(k - 1)])
        \o <<type, Len(fragment(full))>> \o fragment(full)

\* HAPTLVWriterEncodeScalar
EncodeScalar(format, value) ==
  IF format.kind = "UInt" THEN Bytes(value, format.size) ELSE value

\* HAPTLVWriterEncodeAggregate and HAPTLVWriterEncodeTLV
RECURSIVE EncodeAggregate(_, _)
EncodeTLV(type, format, value) ==
  Append_(type, IF IsAggregate(format) THEN EncodeAggregate(format, value) ELSE EncodeScalar(format, value))

\* EnumerateSequenceTLVCallback: a separator precedes every item but the first.
EncodeItem(format, item, isFirst) ==
  (IF isFirst THEN <<>> ELSE Append_(format.separator.type, <<>>))
    \o (IF format.item.isFlat THEN EncodeAggregate(format.item.format, item)
        ELSE EncodeTLV(format.item.type, format.item.format, item))

EncodeAggregate(format, value) ==
  CASE format.kind = "Sequence" ->
         FlattenSeq([k \in DOMAIN value |-> EncodeItem(format, value[k], k = 1)])
    [] format.kind = "Struct" ->
         FlattenSeq([k \in DOMAIN format.members |-> LET member == format.members[k] IN
           IF value[k] = <<>> THEN <<>>
           ELSE IF member.isFlat THEN EncodeAggregate(member.format, value[k][1])
           ELSE EncodeTLV(member.type, member.format, value[k][1])])
    [] format.kind = "Union" ->
         LET k == CHOOSE k \in DOMAIN format.variants : format.variants[k].type = value.type
         IN  EncodeTLV(value.type, format.variants[k].format, value.value)

=============================================================================
