------------------------------ MODULE JSONUtils ------------------------------
(* Strings and values of JSON: HAP/HAPJSONUtils.c, and the byte buffer of      *)
(* HAP/HAPIP+ByteBuffer.c with the formatted output of PAL/HAPBase+String.c.   *)
(* Data of a string is a sequence of one-byte characters; "ctl" stands for a    *)
(* control character without an escape letter of its own.                      *)
EXTENDS Integers, SequencesExt

\* The concatenation of the sequences, or of the strings, of a sequence: by halves, since
\* some are hundreds of items long.
Halves(s, Item(_), none) ==
  LET part[lo \in Nat, hi \in Nat] ==
        IF lo > hi THEN none
        ELSE IF lo = hi THEN Item(s[lo])
        ELSE LET mid == (lo + hi) \div 2 IN part[lo, mid] \o part[mid + 1, hi]
  IN  part[1, Len(s)]

\* Characters written as a backslash and a letter, and the letter.
Letter == ("\"" :> "\"") @@ ("\\" :> "\\") @@ ("newline" :> "n")

EscapedChar(c) == IF c \in DOMAIN Letter THEN <<"\\", Letter[c]>>
                  ELSE IF c = "ctl" THEN <<"\\", "u", "0", "0", "1", "f">>
                  ELSE <<c>>

\* HAPJSONUtilsGetNumEscapedStringDataBytes
NumEscaped(s) == FoldSeq(LAMBDA c, n : n + (IF c \in DOMAIN Letter THEN 2
                                            ELSE IF c = "ctl" THEN 6 ELSE 1), 0, s)

Escaped(s) == Halves(s, EscapedChar, <<>>)

\* HAPJSONUtilsEscapeStringData moves the data to the end of the buffer and escapes
\* them towards the front: the text written must never overtake what is left to read.
EscapeFits(s, maxBytes) ==
  \A k \in DOMAIN s : NumEscaped(SubSeq(s, 1, k)) <= maxBytes - (Len(s) - k)

\* What an escape sequence at position j of s stands for, and the position after it;
\* <<>> if there is none.  Surrogate pairs take two sequences.
IsHex(s, j) == j + 3 <= Len(s) /\ \A k \in j .. j + 3 : s[k] \in {"0", "1", "f", "d", "8", "c"}
CodeUnit(s, j) == IF ~IsHex(s, j) THEN "none"
                  ELSE IF s[j] = "d" THEN IF s[j + 1] = "8" THEN "high"
                                          ELSE IF s[j + 1] = "c" THEN "low" ELSE "scalar"
                  ELSE IF SubSeq(s, j, j + 3) = <<"0", "0", "1", "f">> THEN "ctl" ELSE "scalar"

Sequence(s, j) ==
  LET unit == CodeUnit(s, j + 1)
      pair == j + 6 <= Len(s) /\ s[j + 5] = "\\" /\ s[j + 6] = "u" /\ CodeUnit(s, j + 7) = "low"
  IN  IF j > Len(s) THEN <<>>
      ELSE IF \E c \in DOMAIN Letter : Letter[c] = s[j]
           THEN <<CHOOSE c \in DOMAIN Letter : Letter[c] = s[j], j + 1>>
      ELSE IF s[j] # "u" \/ unit \in {"none", "low"} THEN <<>>
      ELSE IF unit = "high" THEN IF pair THEN <<"scalar", j + 11>> ELSE <<>>
      ELSE <<unit, j + 5>>

\* HAPJSONUtilsUnescapeStringData; "invalid" for a string it refuses.
Unescaped(s) ==
  LET read[j \in Nat] ==
        IF j > Len(s) THEN <<>>
        ELSE IF s[j] # "\\"
             THEN LET rest == read[j + 1]
                  IN  IF rest = <<"invalid">> THEN rest ELSE <<s[j]>> \o rest
        ELSE LET q == Sequence(s, j + 1)
                 rest == IF q = <<>> THEN <<"invalid">> ELSE read[q[2]]
             IN  IF rest = <<"invalid">> THEN rest ELSE <<q[1]>> \o rest
  IN  read[1]

------------------------------------------------------------------------------
\* Output is a sequence of pieces: the text and the JSON tokens it consists of.
Piece(text, tokens) == [text |-> text, tokens |-> tokens]
Member(name, value) == Piece(",\"" \o name \o "\":" \o value, <<",", "s", ":", "v">>)
Tokens(pieces) == Halves(pieces, LAMBDA p : p.tokens, <<>>)
TextOf(pieces) == Halves(pieces, LAMBDA p : p.text, "")
TextLength(pieces) == Len(TextOf(pieces))

\* HAPIPByteBufferAppendStringWithFormat ends what it writes with a zero byte, for which
\* there must be room although it is not counted.
Appends(room, pieces) == \A k \in DOMAIN pieces : TextLength(SubSeq(pieces, 1, k)) < room

------------------------------------------------------------------------------
\* HAPJSONUtilsSkipValue over the tokens of a document.  The reader yields the tokens
\* "{", "}", "[", "]", "," , "s" (a string), ":" and "v" (a number, true, false, null).
\* The stack remembers for every open object or array whether it is an array.
CONSTANT MaxDepth  \* size of the stack

\* It is pushed only when the object or array turns out not to be empty.
Open(stack, bracket, want) ==
  [stack |-> Append(stack, bracket), want |-> IF Len(stack) < MaxDepth THEN want ELSE "invalid"]

Popped(stack) == [stack |-> Front(stack), want |-> "after"]

SkipToken(r, t) ==
  LET to(want) == [r EXCEPT !.want = want]
      Value(q) == CASE t \in {"s", "v"} -> [q EXCEPT !.want = "after"]
                    [] t = "{" -> [q EXCEPT !.want = "first member"]
                    [] t = "[" -> [q EXCEPT !.want = "first element"]
                    [] OTHER -> [q EXCEPT !.want = "invalid"]
      top == IF r.stack = <<>> THEN "none" ELSE Last(r.stack)
  IN  CASE r.want = "value" -> Value(r)
        [] r.want = "first member" /\ t = "}" -> to("after")
        [] r.want = "first member" /\ t = "s" -> Open(r.stack, "{", "colon")
        [] r.want = "first element" /\ t = "]" -> to("after")
        [] r.want = "first element" /\ t # "]" ->
             LET q == Open(r.stack, "[", "value") IN IF q.want = "invalid" THEN q ELSE Value(q)
        [] r.want = "name" /\ t = "s" -> to("colon")
        [] r.want = "colon" /\ t = ":" -> to("value")
        [] r.want = "after" /\ <<top, t>> \in {<<"{", "}">>, <<"[", "]">>} -> Popped(r.stack)
        [] r.want = "after" /\ t = "," /\ top = "{" -> to("name")
        [] r.want = "after" /\ t = "," /\ top = "[" -> to("value")
        [] OTHER -> to("invalid")

\* The state after all tokens of t: it is "after" a value on an empty stack if they are
\* one value followed by nothing.
Skipped(t) ==
  LET read[lo \in Nat, hi \in Nat, r \in [stack : Seq({"{", "["}), want : STRING]] ==
        IF lo = hi THEN SkipToken(r, t[lo])
        ELSE LET mid == (lo + hi) \div 2 IN read[mid + 1, hi, read[lo, mid, r]]
  IN  read[1, Len(t), [stack |-> <<>>, want |-> "value"]]

IsValue(t) == t # <<>> /\ Skipped(t) = [stack |-> <<>>, want |-> "after"]
==============================================================================
