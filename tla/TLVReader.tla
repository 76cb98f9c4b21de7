------------------------------ MODULE TLVReader ------------------------------
(* The reader of TLVs (HAP/HAPTLVReader.c).  It works in place: a value that has been     *)
(* read is made one piece, and terminated if it is a string, in the very bytes it was     *)
(* received in, and its type is overwritten by one of three types the format does not     *)
(* use, from which later passes over the buffer tell its length.  Members are looked up   *)
(* in the order of the format, whatever order they came in, and the items of a sequence   *)
(* when the application enumerates them, after everything else.                           *)
EXTENDS TLV

CONSTANTS
  Formats,    \* a sequence of what is read
  ValuesOf,   \* for each format, values to be written
  Pieces,     \* a sequence of what anyone may send, complete TLVs and others
  MaxPieces,
  Wanted      \* types, for the reading without a format

VARIABLE t

\* Formats the program could be compiled with, values of them
TLVReaderAssumption ==
  /\ \A k \in DOMAIN Formats : IsValidFormat(Formats[k])
  /\ DOMAIN ValuesOf = DOMAIN Formats /\ MaxPieces \in Nat /\ Wanted \subseteq Types

\* How it goes on
Given(bytes, written) == [at |-> "given", format |-> t.format, bytes |-> bytes, written |-> written]

-----------------------------------------------------------------------------
(* Where the TLVs are.  A reader r has the bytes from lo to hi of the buffer b, and, once *)
(* non-sequential access has been enabled, the types that mark what has been read.        *)

\* The reader of the bytes of a value
ReaderOf(at, n) == [lo |-> at, hi |-> at + n - 1, types |-> <<>>]

\* HAPStringGetNumBytes: where the string that begins at p ends
StringEnd(b, p) == CHOOSE q \in p .. Len(b) : b[q] = 0 /\ \A k \in p .. q - 1 : b[k] # 0

\* The byte after the TLV of this type whose next fragment begins at o; 0 if there is none
RECURSIVE FragmentsEnd(_, _, _, _)
FragmentsEnd(b, hi, type, o) ==
  IF o + 1 > hi \/ o + 1 + b[o + 1] > hi THEN 0
  ELSE LET next == o + 2 + b[o + 1]
       IN  IF ~(next <= hi /\ b[next] = type) THEN next
           ELSE IF b[o + 1] = UINT8_MAX THEN FragmentsEnd(b, hi, type, next)
           ELSE 0

\* The same for a value that consisted of several fragments and has been read: their number
\* less two, in as many bytes as it takes, and the length of the last precede it.
MultiFragmentEnd(b, o) ==
  LET x == CHOOSE x \in 1 .. Len(b) - o : b[o + x] # UINT8_MAX /\ \A k \in 1 .. x - 1 : b[o + k] = UINT8_MAX
      numFragments == 2 + (x - 1) * UINT8_MAX + b[o + x]
      numZeros == 2 * (numFragments - 2) - (x - 1)
  IN  o + 1 + x + 1 + numZeros + (numFragments - 1) * UINT8_MAX + b[o + x + 1] + 1

IsRead(b, r, o) == r.types # <<>> /\ \E k \in 1 .. 3 : b[o] = r.types[k]

\* GetNextTLVInfo: the byte after the TLV at o, 0 if it is malformed
TLVEnd(b, r, o) ==
  IF ~IsRead(b, r, o) THEN FragmentsEnd(b, r.hi, b[o], o)
  ELSE IF b[o] = r.types[1] THEN o + 2 + b[o + 1]
  ELSE IF b[o] = r.types[2] THEN StringEnd(b, o + 1) + 1
  ELSE MultiFragmentEnd(b, o)

\* FindTLVInfo, from o on: where the TLV begins, 0 if there is none, -1 if another is malformed
RECURSIVE FindTLV(_, _, _, _)
FindTLV(b, r, type, o) ==
  IF o > r.hi THEN 0
  ELSE LET next == TLVEnd(b, r, o)
       IN  IF next = 0 THEN -1 ELSE IF b[o] = type THEN o ELSE FindTLV(b, r, type, next)

-----------------------------------------------------------------------------
(* Reading one                                                                            *)

\* HAPRawBufferCopyBytes
CopyBytes(b, to, from, n) ==
  [k \in DOMAIN b |-> IF k \in to .. to + n - 1 THEN b[from + k - to] ELSE b[k]]

Overwritten(b, at, bytes) ==
  [k \in DOMAIN b |-> IF k \in at .. at + Len(bytes) - 1 THEN bytes[k - at + 1] ELSE b[k]]

\* A number as the sum of bytes up to the first that is not the largest
SumOfBytes(n) == [k \in 1 .. n \div UINT8_MAX |-> UINT8_MAX] \o <<n % UINT8_MAX>>

\* ReadTLV for a value in one fragment, with its length or with a terminator
ReadFragment(b, r, o, mayContainNull) ==
  LET n == b[o + 1]
  IN  IF mayContainNull
      THEN [ok |-> TRUE, b |-> [b EXCEPT ![o] = r.types[1]], at |-> o + 2, n |-> n]
      ELSE [ok |-> \A k \in o + 2 .. o + 1 + n : b[k] # 0,
            b |-> [CopyBytes(b, o + 1, o + 2, n) EXCEPT ![o] = r.types[2], ![o + 1 + n] = 0],
            at |-> o + 1, n |-> n]

\* Mutant: the fragments are moved in the order they came in.
MoveOrder_Forward(numFragments) == [k \in 1 .. numFragments |-> numFragments - k]

\* The last fragment, of number 0, is moved first.
MoveOrder(numFragments) == [k \in 1 .. numFragments |-> k - 1]

\* ReadTLV for a value in several
ReadFragments(b, r, o, end) ==
  LET numFragments == (end - o - 1) \div (UINT8_MAX + 2) + 1
      last == b[o + (numFragments - 1) * (UINT8_MAX + 2) + 1]
      n == (numFragments - 1) * UINT8_MAX + last
      move(c, i) == CopyBytes(c, end - 1 - last - i * UINT8_MAX,
                                 end - last - i * (UINT8_MAX + 2),
                                 IF i = 0 THEN last ELSE UINT8_MAX)
      sum == SumOfBytes(numFragments - 2)
      numZeros == 2 * (numFragments - 2) - (Len(sum) - 1)
      header == <<r.types[3]>> \o sum \o <<last>> \o [k \in 1 .. numZeros |-> 0]
  IN  [ok |-> TRUE,
       b |-> [Overwritten(FoldLeft(move, b, MoveOrder(numFragments)), o, header) EXCEPT ![end - 1] = 0],
       at |-> end - 1 - n, n |-> n]

\* ReadTLV, with HAPGetFormatProperties for mayContainNull
ReadTLV(b, r, o, mayContainNull) ==
  LET end == TLVEnd(b, [r EXCEPT !.types = <<>>], o)
  IN  IF end - o <= UINT8_MAX + 2 THEN ReadFragment(b, r, o, mayContainNull)
      ELSE ReadFragments(b, r, o, end)

-----------------------------------------------------------------------------
(* Decoding.  A value is where its bytes are, for data and strings, and a reader, for a   *)
(* sequence.  A result that is not ok is kHAPError_InvalidData.                           *)

Invalid(b) == [ok |-> FALSE, b |-> b]
Valid(b, v) == [ok |-> TRUE, b |-> b, v |-> v]

\* All TLVs from o on for which condition holds are read and discarded.
RECURSIVE Discard(_, _, _, _)
Discard(b, r, isDiscarded, o) ==
  IF o > r.hi THEN Valid(b, <<>>)
  ELSE LET next == TLVEnd(b, r, o)
       IN  IF next = 0 THEN Invalid(b)
           ELSE Discard(IF isDiscarded[b[o]] THEN ReadTLV(b, r, o, TRUE).b ELSE b, r, isDiscarded, next)

\* The smallest types the format does not use
UnusedTypes(format) ==
  SubSeq(SetToSortSeq({type \in Types : ~UsesType(format, type)}, <), 1, 3)

\* EnableNonSequentialAccessWithFormat: what has one of these types is not expected, and read
\* before it could be taken for something that has been. Until then no type marks anything.
RECURSIVE Mark(_, _, _, _)
Mark(b, r, types, o) ==
  IF o > r.hi THEN Valid(b, [r EXCEPT !.types = types])
  ELSE LET next == TLVEnd(b, r, o)
           marked == ReadTLV(b, [r EXCEPT !.types = types], o, TRUE).b
       IN  IF next = 0 THEN Invalid(b)
           ELSE Mark(IF \E k \in 1 .. 3 : b[o] = types[k] THEN marked ELSE b, r, types, next)

EnableNonSequentialAccess(b, r, format) ==
  IF Len(UnusedTypes(format)) < 3 THEN Invalid(b) ELSE Mark(b, r, UnusedTypes(format), r.lo)

\* SkipUnexpectedValues
SkipUnexpectedValues(b, r, format) ==
  Discard(b, r, [type \in Types |-> ~UsesType(format, type) /\ \A k \in 1 .. 3 : type # r.types[k]], r.lo)

\* The number in little-endian bytes
RECURSIVE Number(_, _, _)
Number(b, at, n) == IF n = 0 THEN 0 ELSE b[at] + (UINT8_MAX + 1) * Number(b, at + 1, n - 1)

\* HAPTLVReaderDecodeScalar
DecodeScalar(b, at, n, format) ==
  CASE format.kind = "None" -> Valid(b, <<>>)
    [] format.kind = "UInt" ->
         IF n <= format.size /\ Number(b, at, n) \in format.min .. format.max
         THEN Valid(b, Number(b, at, n)) ELSE Invalid(b)
    [] format.kind = "Data" ->
         IF n \in format.min .. format.max THEN Valid(b, [at |-> at, n |-> n]) ELSE Invalid(b)
    [] format.kind = "String" ->
         IF n \in format.min .. format.max /\ StringEnd(b, at) - at = n
         THEN Valid(b, [at |-> at, n |-> n]) ELSE Invalid(b)

RECURSIVE DecodeAggregate(_, _, _)

\* sub is the reader of the value, for which non-sequential access has been enabled.
DecodeSub(sub, format) == IF sub.ok THEN DecodeAggregate(sub.b, sub.v, format) ELSE Invalid(sub.b)

DecodeRead(tlv, format) ==
  IF ~tlv.ok THEN Invalid(tlv.b)
  ELSE IF ~IsAggregate(format) THEN DecodeScalar(tlv.b, tlv.at, tlv.n, format)
  ELSE DecodeSub(EnableNonSequentialAccess(tlv.b, ReaderOf(tlv.at, tlv.n), format), format)

\* The value of the TLV at o: HAPTLVReaderFindAndDecodeTLV, EnumerateSequenceTLV
DecodeTLV(b, r, o, format) == DecodeRead(ReadTLV(b, r, o, format.kind # "String"), format)

NoOther(decoded, r, type) ==
  IF ~decoded.ok \/ FindTLV(decoded.b, r, type, r.lo) # 0 THEN Invalid(decoded.b)
  ELSE Valid(decoded.b, <<decoded.v>>)

\* HAPTLVReaderFindAndDecodeTLV: there must be one TLV of this type, or none.
FindAndDecodeTLV(b, r, type, format) ==
  LET o == FindTLV(b, r, type, r.lo)
  IN  IF o = 0 THEN Valid(b, <<>>)
      ELSE IF o = -1 THEN Invalid(b)
      ELSE NoOther(DecodeTLV(b, r, o, format), r, type)

InMember(flat) == IF flat.ok THEN Valid(flat.b, <<flat.v>>) ELSE flat

FoundOrOptional(found, member) ==
  IF found.ok /\ (found.v # <<>> \/ member.isOptional) THEN found ELSE Invalid(found.b)

DecodeMember(b, r, member) ==
  IF member.isFlat THEN InMember(DecodeAggregate(b, r, member.format))
  ELSE FoundOrOptional(FindAndDecodeTLV(b, r, member.type, member.format), member)

\* The members from number k on, with the values of those before
RECURSIVE DecodeMembers(_, _, _, _, _)
MemberDecoded(decoded, r, members, k, values) ==
  IF decoded.ok THEN DecodeMembers(decoded.b, r, members, k + 1, Append(values, decoded.v)) ELSE decoded

DecodeMembers(b, r, members, k, values) ==
  IF k > Len(members) THEN Valid(b, values)
  ELSE MemberDecoded(DecodeMember(b, r, members[k]), r, members, k, values)

\* The variants from number k on, with what those before have been found to be
RECURSIVE DecodeVariants(_, _, _, _, _)
VariantDecoded(found, r, variants, k, value) ==
  IF ~found.ok \/ (found.v # <<>> /\ value # <<>>) THEN Invalid(found.b)
  ELSE DecodeVariants(found.b, r, variants, k + 1,
         IF found.v = <<>> THEN value ELSE <<[type |-> variants[k].type, value |-> found.v[1]]>>)

DecodeVariants(b, r, variants, k, value) ==
  IF k > Len(variants) THEN IF value = <<>> THEN Invalid(b) ELSE Valid(b, value[1])
  ELSE VariantDecoded(FindAndDecodeTLV(b, r, variants[k].type, variants[k].format), r, variants, k, value)

\* What is left of the value when unexpected ones have been skipped
DecodeExpected(skipped, r, format) ==
  IF ~skipped.ok THEN skipped
  ELSE CASE format.kind = "Sequence" -> Valid(skipped.b, r)
         [] format.kind = "Struct" -> DecodeMembers(skipped.b, r, format.members, 1, <<>>)
         [] format.kind = "Union" -> DecodeVariants(skipped.b, r, format.variants, 1, <<>>)

\* HAPTLVReaderDecodeAggregate
DecodeAggregate(b, r, format) == DecodeExpected(SkipUnexpectedValues(b, r, format), r, format)

\* EnumerateSequenceTLV, from o on, with the items before
RECURSIVE EnumerateSequence(_, _, _, _, _)
ItemDecoded(item, r, format, next, items) ==
  IF item.ok THEN EnumerateSequence(item.b, r, format, next, Append(items, item.v)) ELSE Invalid(item.b)

SeparatorDecoded(separator, r, format, next, items) ==
  IF separator.ok THEN EnumerateSequence(separator.b, r, format, next, items) ELSE Invalid(separator.b)

EnumerateSequence(b, r, format, o, items) ==
  LET next == TLVEnd(b, r, o)
      isFlatItem == format.item.isFlat /\ UsesType(format.item.format, b[o])
      isItem == ~format.item.isFlat /\ b[o] = format.item.type
  IN  IF o > r.hi THEN Valid(b, items)
      ELSE IF next = 0 THEN Invalid(b)
      ELSE IF isFlatItem
      THEN ItemDecoded(DecodeAggregate(b, [r EXCEPT !.lo = o, !.hi = next - 1], format.item.format), r, format, next, items)
      ELSE IF isItem
      THEN ItemDecoded(DecodeTLV(b, r, o, format.item.format), r, format, next, items)
      ELSE IF b[o] = format.separator.type
      THEN SeparatorDecoded(DecodeTLV(b, r, o, format.separator.format), r, format, next, items)
      ELSE EnumerateSequence(b, r, format, next, items)

-----------------------------------------------------------------------------
(* Without a format: one after the other, each made one piece as it is passed             *)

\* HAPTLVReaderGetNext: every fragment is moved to the end of those before, of which there are
\* n bytes from start on, and zeros fill the room of their headers. Unlike above, a further
\* fragment may not be empty.
RECURSIVE GetNext(_, _, _, _, _)
GetNext(b, type, start, n, o) ==
  LET numFragments == (o - start - n) \div 2
      next == o + 2 + b[o + 1]
      room == 2 * (numFragments + 1)
      merged == Overwritten(CopyBytes(b, o - 2 * numFragments, o + 2, b[o + 1]), next - room, [k \in 1 .. room |-> 0])
  IN  IF o > Len(b) \/ (numFragments > 0 /\ b[o] # type)
      THEN Valid(b, [type |-> type, at |-> start, n |-> n, next |-> o])
      ELSE IF \/ o + 1 > Len(b) \/ next - 1 > Len(b)
              \/ numFragments > 0 /\ (n # numFragments * UINT8_MAX \/ b[o + 1] = 0)
      THEN Invalid(b)
      ELSE GetNext(merged, type, start, n + b[o + 1], next)

\* HAPTLVReaderGetAll: of each type that is wanted one TLV at most; the others are ignored.
RECURSIVE GetAll(_, _, _)
GetAll(b, o, values) ==
  LET tlv == GetNext(b, b[o], o, 0, o)
      isWanted == tlv.v.type \in DOMAIN values
  IN  IF o > Len(b) THEN Valid(b, values)
      ELSE IF ~tlv.ok \/ (isWanted /\ values[tlv.v.type] # <<>>) THEN Invalid(tlv.b)
      ELSE GetAll(tlv.b, tlv.v.next,
             IF isWanted THEN [values EXCEPT ![tlv.v.type] = <<[at |-> tlv.v.at, n |-> tlv.v.n]>>] ELSE values)

-----------------------------------------------------------------------------
(* One message, from the value that is written, or from any bytes, to what is read        *)

Init ==
  \E k \in DOMAIN Formats :
    \/ \E value \in ValuesOf[k] : t = [at |-> "value", format |-> Formats[k], value |-> value]
    \/ \E n \in 0 .. MaxPieces : \E pieces \in [1 .. n -> DOMAIN Pieces] :
         t = [at |-> "given", format |-> Formats[k], written |-> <<>>,
              bytes |-> FlattenSeq([i \in 1 .. n |-> Pieces[pieces[i]]])]

\* HAPTLVWriterEncodeVoid, for a buffer that is large enough
Write ==
  /\ t.at = "value"
  /\ t' = Given(EncodeAggregate(t.format, t.value), <<t.value>>)

\* What an application is told: what was read, or an error
Error(at, b) == [at |-> at, format |-> t.format, bytes |-> t.bytes, written |-> t.written, b |-> b]
Outcome(at, result) == IF result.ok THEN [v |-> result.v] @@ Error(at, result.b) ELSE Error("invalid", result.b)

\* HAPTLVReaderDecodeVoid. Without a terminator after the last byte no string may be looked for.
Read ==
  /\ t.at = "given"
  /\ t' = Outcome("decoded", DecodeSub(EnableNonSequentialAccess(t.bytes, ReaderOf(1, Len(t.bytes)), t.format), t.format))

\* The handlers of pairings, which know no formats
ReadAll ==
  /\ t.at = "given" /\ t.written = <<>>
  /\ LET r == GetAll(t.bytes, 1, [type \in Wanted |-> <<>>])
     IN  t' = IF r.ok THEN [all |-> r.v] @@ Error("all", r.b) ELSE Error("refused", r.b)

\* Where the value of a format has its sequence: the format itself, or its last member
SequenceFormat(format) ==
  IF format.kind = "Sequence" THEN format ELSE format.members[Len(format.members)].format
HasSequence(format) ==
  \/ format.kind = "Sequence"
  \/ format.kind = "Struct" /\ format.members[Len(format.members)].format.kind = "Sequence"

\* The application enumerates a sequence once it has everything else.
Enumerate ==
  /\ t.at = "decoded" /\ HasSequence(t.format)
  /\ LET r == IF t.format.kind = "Sequence" THEN t.v ELSE t.v[Len(t.v)][1]
         items == EnumerateSequence(t.b, r, SequenceFormat(t.format), r.lo, <<>>)
     IN  t' = IF items.ok THEN [items |-> items.v] @@ [t EXCEPT !.at = "enumerated", !.b = items.b]
              ELSE Error("invalid", items.b)

Next == Write \/ Read \/ ReadAll \/ Enumerate

-----------------------------------------------------------------------------
(* What the bytes mean, without a buffer that changes                                     *)

\* The TLVs of a message, <<>> around them; none if it is malformed
RECURSIVE Items(_)
Items(bytes) ==
  IF bytes = <<>> THEN <<<<>>>>
  ELSE LET end == FragmentsEnd(bytes, Len(bytes), bytes[1], 1)
           numFragments == (end - 2) \div (UINT8_MAX + 2) + 1
           piece(k) == LET first == (k - 1) * (UINT8_MAX + 2) + 3
                       IN  SubSeq(bytes, first, IF k = numFragments THEN end - 1 ELSE first + UINT8_MAX - 1)
           item == [type |-> bytes[1], value |-> FlattenSeq([k \in 1 .. numFragments |-> piece(k)]),
                    hasEmptyEnd |-> numFragments > 1 /\ piece(numFragments) = <<>>]
           rest == Items(SubSeq(bytes, end, Len(bytes)))
       IN  IF end = 0 \/ rest = <<>> THEN <<>>
           ELSE <<<<item>> \o rest[1]>>

WithType(items, type) == SelectSeq(items, LAMBDA item : item.type = type)

\* The value of bytes, <<>> around it; none if they have none
RECURSIVE Meaning(_, _)

MeaningOfScalar(bytes, format) ==
  CASE format.kind = "None" -> <<<<>>>>
    [] format.kind = "UInt" ->
         IF Len(bytes) <= format.size /\ Number(bytes, 1, Len(bytes)) \in format.min .. format.max
         THEN <<Number(bytes, 1, Len(bytes))>> ELSE <<>>
    [] format.kind = "Data" -> IF Len(bytes) \in format.min .. format.max THEN <<bytes>> ELSE <<>>
    [] format.kind = "String" ->
         IF Len(bytes) \in format.min .. format.max /\ \A k \in DOMAIN bytes : bytes[k] # 0 THEN <<bytes>> ELSE <<>>

\* The value of each member: one TLV of its type, none if it is optional
MeaningOfMember(items, bytes, member) ==
  LET mine == WithType(items, member.type)
  IN  IF member.isFlat THEN Meaning(bytes, member.format)
      ELSE IF Len(mine) = 1 THEN Meaning(mine[1].value, member.format) ELSE <<>>

Meaning(bytes, format) ==
  IF ~IsAggregate(format) THEN MeaningOfScalar(bytes, format)
  ELSE IF Items(bytes) = <<>> THEN <<>>
  ELSE LET items == Items(bytes)[1]
       IN  CASE format.kind = "Struct" ->
                  LET value == [k \in DOMAIN format.members |-> MeaningOfMember(items, bytes, format.members[k])]
                  IN  IF \A k \in DOMAIN value :
                           \/ value[k] # <<>>
                           \/ format.members[k].isOptional /\ WithType(items, format.members[k].type) = <<>>
                      THEN <<value>> ELSE <<>>
             [] format.kind = "Union" ->
                  LET used == SelectSeq(items, LAMBDA item : UsesType(format, item.type))
                      variant == CHOOSE k \in DOMAIN format.variants : format.variants[k].type = used[1].type
                      value == Meaning(used[1].value, format.variants[variant].format)
                  IN  IF Len(used) = 1 /\ value # <<>>
                      THEN <<[type |-> used[1].type, value |-> value[1]]>> ELSE <<>>
             [] format.kind = "Sequence" ->
                  LET mine(item) == IF format.item.isFlat THEN UsesType(format.item.format, item.type)
                                    ELSE item.type = format.item.type
                      used == SelectSeq(items, mine)
                      value == [k \in DOMAIN used |->
                                  IF format.item.isFlat
                                  THEN Meaning(Append_(used[k].type, used[k].value), format.item.format)
                                  ELSE Meaning(used[k].value, format.item.format)]
                  IN  IF \A k \in DOMAIN value : value[k] # <<>>
                      THEN <<[k \in DOMAIN value |-> value[k][1]]>> ELSE <<>>

\* What the application sees of v, in the end
RECURSIVE Seen(_, _, _)
Seen(b, v, format) ==
  CASE format.kind \in {"Data", "String"} -> SubSeq(b, v.at, v.at + v.n - 1)
    [] format.kind \in {"UInt", "None"} -> v
    [] format.kind = "Struct" ->
         [k \in DOMAIN v |-> IF v[k] = <<>> THEN <<>> ELSE <<Seen(b, v[k][1], format.members[k].format)>>]
    [] format.kind = "Union" ->
         LET k == CHOOSE k \in DOMAIN format.variants : format.variants[k].type = v.type
         IN  [v EXCEPT !.value = Seen(b, @, format.variants[k].format)]
    [] format.kind = "Sequence" -> [k \in DOMAIN v |-> Seen(b, v[k], format.item.format)]

\* What has been read is what was written, and in general what the bytes say, although every
\* value was moved, terminated and marked in the buffer the others were still to be found in:
\* "once a TLV has been read the client can assume that its value is stable and won't be moved
\* to other memory locations even as other TLVs are accessed" (HAPTLV+Internal.h). Strings are
\* terminated.
ReadAsWritten ==
  LET isRead == t.at = "enumerated" \/ (t.at = "decoded" /\ ~HasSequence(t.format))
      v == IF t.at = "decoded" THEN t.v
           ELSE IF t.format.kind = "Sequence" THEN t.items
           ELSE [t.v EXCEPT ![Len(t.v)] = <<t.items>>]
      items == Items(t.bytes)
      values == [type \in Wanted |-> LET mine == WithType(items[1], type)
                                     IN  [k \in DOMAIN mine |-> mine[k].value]]
      isRefused == \/ items = <<>> \/ \E k \in DOMAIN items[1] : items[1][k].hasEmptyEnd
                   \/ \E type \in Wanted : Len(values[type]) > 1
  IN  /\ isRead => <<Seen(t.b, v, t.format)>> = Meaning(t.bytes, t.format)
      /\ t.at = "invalid" => Meaning(t.bytes, t.format) = <<>>
      /\ isRead /\ t.written # <<>> => <<Seen(t.b, v, t.format)>> = t.written
      /\ t.at = "invalid" => t.written = <<>>
      /\ t.at = "all" => /\ ~isRefused
                         /\ \A type \in Wanted : values[type] =
                              [k \in DOMAIN t.all[type] |-> Seen(t.b, t.all[type][k], [kind |-> "Data"])]
      /\ t.at = "refused" => isRefused

=============================================================================
