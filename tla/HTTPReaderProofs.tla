--------------------------- MODULE HTTPReaderProofs ---------------------------
(***************************************************************************)
(* What the reader of requests (HTTPReader) and read_http (IPSessionInput) *)
(* make of a request, for any request and any pieces it arrives in. A      *)
(* reader that has read a part of a request is in a place of it (Place),   *)
(* which determines what tokens it has found (Found). Every character      *)
(* brings it from a place to a place, so that it does not matter where it  *)
(* stops and goes on.                                                      *)
(***************************************************************************)
EXTENDS IPSessionInput, WellFoundedInduction, SequenceTheorems, TLAPS

\* The states and substates of a reader
ReaderStates ==
  {"EXPECTING_METHOD", "READING_METHOD", "COMPLETED_METHOD", "EXPECTING_URI", "READING_URI", "COMPLETED_URI",
   "EXPECTING_VERSION", "READING_VERSION", "COMPLETED_VERSION", "EXPECTING_HEADER_NAME", "READING_HEADER_NAME",
   "COMPLETED_HEADER_NAME", "EXPECTING_HEADER_VALUE", "READING_HEADER_VALUE", "COMPLETED_HEADER_VALUE",
   "ENDING_HEADER_LINE", "ENDING_HEADER_LINES", "DONE", "ERROR"}
Substates == {"NONE", "READING", "AFTER_SP", "AFTER_CR", "AFTER_LF"}

-----------------------------------------------------------------------------
(* Recursion                                                               *)

\* Induction. The goal is a set, so that it is cited with the set of the numbers that have a property.
LEMMA NatInduct ==
  ASSUME NEW S, 0 \in S, \A n \in Nat : n \in S => n + 1 \in S
  PROVE  \A n \in Nat : n \in S
<1> DEFINE Missing == {n \in Nat : n \notin S}
<1> SUFFICES ASSUME Missing # {} PROVE FALSE
  OBVIOUS
<1>1. PICK x \in Missing : \A y \in Missing : ~(<<y, x>> \in OpToRel(<, Nat))
  BY WFMin, NatLessThanWellFounded, ZenonT(40)
<1>2. \A y \in Missing : ~(y < x)
  BY <1>1, Zenon DEF OpToRel
<1>3. x \in Nat /\ x # 0 /\ x \notin S
  OBVIOUS
<1>4. x - 1 \in Nat /\ x - 1 < x /\ (x - 1) + 1 = x
  BY <1>3
<1>5. x - 1 \in S
  BY <1>2, <1>4
<1> QED
  BY <1>3, <1>4, <1>5

\* The states of a loop: the first of them, and each by a step from the one before
HasStates(S, first, step, n) ==
  \E g \in [0 .. n -> S] : g[0] = first /\ \A k \in 0 .. n - 1 : g[k + 1] = step[<<k, g[k]>>]

\* The states of a loop that is given by its step exist.
LEMMA FirstStates ==
  ASSUME NEW S, NEW first \in S, NEW step \in [Nat \X S -> S], NEW n \in Nat
  PROVE  HasStates(S, first, step, n)
<1> SUFFICES \A m \in Nat : HasStates(S, first, step, m)
  OBVIOUS
<1> SUFFICES \A m \in Nat : \E g \in [0 .. m -> S] : g[0] = first /\ \A k \in 0 .. m - 1 : g[k + 1] = step[<<k, g[k]>>]
  BY Zenon DEF HasStates
<1> DEFINE Built(m, g) == g[0] = first /\ \A k \in 0 .. m - 1 : g[k + 1] = step[<<k, g[k]>>]
           T == {m \in Nat : \E g \in [0 .. m -> S] : Built(m, g)}
<1>1. 0 \in T
  <2>1. [k \in 0 .. 0 |-> first] \in [0 .. 0 -> S] /\ Built(0, [k \in 0 .. 0 |-> first])
    OBVIOUS
  <2> QED
    BY <2>1
<1>2. ASSUME NEW m \in Nat, m \in T PROVE m + 1 \in T
  <2>1. PICK g \in [0 .. m -> S] : Built(m, g)
    BY <1>2
  <2> DEFINE h == [k \in 0 .. m + 1 |-> IF k <= m THEN g[k] ELSE step[<<m, g[m]>>]]
  <2>2. g[m] \in S /\ <<m, g[m]>> \in Nat \X S
    OBVIOUS
  <2>3. step[<<m, g[m]>>] \in S
    BY <2>2
  <2>4. h \in [0 .. m + 1 -> S]
    BY <2>3
  <2>5. Built(m + 1, h)
    <3>1. h[0] = first
      BY <2>1
    <3>2. ASSUME NEW k \in 0 .. (m + 1) - 1 PROVE h[k + 1] = step[<<k, h[k]>>]
      <4>1. CASE k = m
        BY <4>1, SMTT(40)
      <4>2. CASE k # m
        <5>1. k \in 0 .. m - 1 /\ k + 1 <= m /\ k + 1 \in 0 .. m + 1 /\ k \in 0 .. m + 1
          BY <4>2
        <5>2. h[k + 1] = g[k + 1] /\ h[k] = g[k]
          BY <5>1
        <5> QED
          BY <2>1, <5>1, <5>2
      <4> QED
        BY <4>1, <4>2
    <3> QED
      BY <3>1, <3>2
  <2> HIDE DEF Built, h
  <2>6. \E f \in [0 .. m + 1 -> S] : Built(m + 1, f)
    BY <2>4, <2>5
  <2> QED
    BY <2>6 DEF T
<1> HIDE DEF T, Built
<1>3. \A m \in Nat : m \in T
  BY <1>1, <1>2, NatInduct
<1> QED
  BY <1>3 DEF T, Built

-----------------------------------------------------------------------------
(* Sequences                                                               *)

\* What two sequences one after the other consist of
LEMMA Concat ==
  ASSUME NEW S, NEW a, NEW b, a \in Seq(S), b \in Seq(S)
  PROVE  /\ a \o b \in Seq(S) /\ Len(a \o b) = Len(a) + Len(b)
         /\ Len(a) \in Nat /\ Len(b) \in Nat
         /\ \A k \in 1 .. Len(a) : (a \o b)[k] = a[k]
         /\ \A k \in Len(a) + 1 .. Len(a) + Len(b) : (a \o b)[k] = b[k - Len(a)]
OBVIOUS

\* A sequence of two
LEMMA Pair ==
  ASSUME NEW S, NEW a \in S, NEW b \in S
  PROVE  /\ <<a, b>> \in Seq(S) /\ Len(<<a, b>>) = 2
         /\ <<a, b>>[1] = a /\ <<a, b>>[2] = b
OBVIOUS

-----------------------------------------------------------------------------
(* Requests: where the lines of a heading are, and their characters        *)

\* Header i of a request: the first is its type, the second its length, and the third stands for
\* the empty line at the end
HasLine(q, i) == CASE i = 1 -> q.type # <<>> [] i = 2 -> q.length # <<>> [] OTHER -> i = 3

\* Its value, its name, and the lines of the two
ValueOf(q, i) == IF i = 1 THEN q.type[1] ELSE q.length[1]
NameOf(i) == IF i = 1 THEN ContentType ELSE ContentLength
TypeLine(q) == IF q.type = <<>> THEN <<>> ELSE Line(ContentType, q.type[1])
LengthLine(q) == IF q.length = <<>> THEN <<>> ELSE Line(ContentLength, q.length[1])

\* How many characters are before line i
LineAt(q, i) == Len(q.uri) + 7 + (IF i > 1 THEN Len(TypeLine(q)) ELSE 0) + (IF i > 2 THEN Len(LengthLine(q)) ELSE 0)

\* The characters that separate, and the names of the headers
LEMMA CharTypes ==
  /\ CR = 1 /\ LF = 2 /\ SP = 3 /\ Colon = 4
  /\ ContentType \in Seq(Octets) /\ Len(ContentType) = 2 /\ ContentType[1] = 31 /\ ContentType[2] = 33
  /\ ContentLength \in Seq(Octets) /\ Len(ContentLength) = 2 /\ ContentLength[1] = 31 /\ ContentLength[2] = 32
BY DEF CR, LF, SP, Colon, ContentType, ContentLength, Octets

\* What a request is made of: its URI consists of words, the values of its headers are text.
LEMMA RequestTypes ==
  ASSUME NEW q, IsRequest(q)
  PROVE  /\ q.uri \in Seq(Octets) /\ q.body \in Seq(Octets) /\ Len(q.uri) \in Nat \ {0}
         /\ \A k \in 1 .. Len(q.uri) : q.uri[k] \in Octets /\ q.uri[k] > 4
         /\ \A i \in 1 .. 2 : HasLine(q, i) =>
              /\ ValueOf(q, i) \in Seq(Octets)
              /\ \A k \in 1 .. Len(ValueOf(q, i)) : ValueOf(q, i)[k] \in Octets /\ ValueOf(q, i)[k] # 1 /\ ValueOf(q, i)[k] # 2
<1>1. q.uri \in Seq(Octets) /\ q.body \in Seq(Octets) /\ q.type \in Seq(Seq(Octets)) /\ q.length \in Seq(Seq(Octets))
  BY DEF IsRequest, Requests
<1>2. Len(q.uri) \in Nat \ {0}
  BY <1>1, EmptySeq DEF IsRequest
<1>3. \A k \in 1 .. Len(q.uri) : q.uri[k] \in Octets /\ q.uri[k] > 4
  BY <1>1 DEF IsRequest, IsWord, Colon, Octets
<1>4. ASSUME NEW h, h \in Seq(Seq(Octets)), h # <<>>, \A j \in DOMAIN h : \A k \in DOMAIN h[j] : IsText(h[j][k])
      PROVE  h[1] \in Seq(Octets) /\ \A k \in 1 .. Len(h[1]) : h[1][k] \in Octets /\ h[1][k] # 1 /\ h[1][k] # 2
  <2>1. 1 \in DOMAIN h /\ h[1] \in Seq(Octets)
    BY <1>4
  <2>2. \A k \in 1 .. Len(h[1]) : h[1][k] \in Octets /\ IsText(h[1][k])
    BY <1>4, <2>1
  <2> QED
    BY <2>1, <2>2 DEF IsText, CR, LF
<1>5. \A h \in {q.type, q.length} : \A j \in DOMAIN h : \A k \in DOMAIN h[j] : IsText(h[j][k])
  BY Zenon DEF IsRequest
<1>6. q.type # <<>> => q.type[1] \in Seq(Octets) /\ \A k \in 1 .. Len(q.type[1]) : q.type[1][k] \in Octets /\ q.type[1][k] # 1 /\ q.type[1][k] # 2
  BY <1>1, <1>4, <1>5, Zenon
<1>7. q.length # <<>> => q.length[1] \in Seq(Octets) /\ \A k \in 1 .. Len(q.length[1]) : q.length[1][k] \in Octets /\ q.length[1][k] # 1 /\ q.length[1][k] # 2
  BY <1>1, <1>4, <1>5, Zenon
<1> QED
  BY <1>1, <1>2, <1>3, <1>6, <1>7 DEF HasLine, ValueOf

\* A header line is its name, a colon and a space, its value and the end of the line.
LEMMA LineConcat ==
  ASSUME NEW name, NEW value, name \in Seq(Octets), value \in Seq(Octets)
  PROVE  /\ Line(name, value) \in Seq(Octets) /\ Len(Line(name, value)) = Len(name) + Len(value) + 4
         /\ \A k \in 1 .. Len(name) : Line(name, value)[k] = name[k]
         /\ Line(name, value)[Len(name) + 1] = 4 /\ Line(name, value)[Len(name) + 2] = 3
         /\ \A k \in Len(name) + 3 .. Len(name) + Len(value) + 2 : Line(name, value)[k] = value[k - Len(name) - 2]
         /\ Line(name, value)[Len(name) + Len(value) + 3] = 1 /\ Line(name, value)[Len(name) + Len(value) + 4] = 2
<1> DEFINE a == name \o <<Colon, SP>>
           b == a \o value
           c == b \o <<CR, LF>>
<1>1. 1 \in Octets /\ 2 \in Octets /\ 3 \in Octets /\ 4 \in Octets
  BY DEF Octets
<1>2. <<Colon, SP>> = <<4, 3>> /\ <<CR, LF>> = <<1, 2>>
  BY DEF Colon, SP, CR, LF
<1>3. /\ a \in Seq(Octets) /\ Len(a) = Len(name) + 2 /\ Len(name) \in Nat
      /\ \A k \in 1 .. Len(name) : a[k] = name[k]
      /\ a[Len(name) + 1] = 4 /\ a[Len(name) + 2] = 3
  BY <1>1, <1>2
<1>4. a \in Seq(Octets)
  BY <1>3
<1> HIDE DEF a
<1>5. /\ b \in Seq(Octets) /\ Len(b) = Len(a) + Len(value) /\ Len(value) \in Nat
      /\ \A k \in 1 .. Len(a) : b[k] = a[k]
      /\ \A k \in Len(a) + 1 .. Len(a) + Len(value) : b[k] = value[k - Len(a)]
  BY <1>4, Concat
<1>6. b \in Seq(Octets)
  BY <1>5
<1> HIDE DEF b
<1>7. /\ c \in Seq(Octets) /\ Len(c) = Len(b) + 2
      /\ \A k \in 1 .. Len(b) : c[k] = b[k]
      /\ c[Len(b) + 1] = 1 /\ c[Len(b) + 2] = 2
  BY <1>1, <1>2, <1>6
<1>8. c = Line(name, value)
  BY DEF a, b, c, Line
<1> HIDE DEF c
<1>9. Len(c) = Len(name) + Len(value) + 4 /\ \A k \in 1 .. Len(name) : c[k] = name[k]
  BY <1>3, <1>5, <1>7
<1>12. c[Len(name) + 1] = 4 /\ c[Len(name) + 2] = 3
  <2>1. \A k \in {Len(name) + 1, Len(name) + 2} : c[k] = b[k] /\ b[k] = a[k]
    BY <1>3, <1>5, <1>7
  <2> QED
    BY <1>3, <2>1
<1>10. \A k \in Len(name) + 3 .. Len(name) + Len(value) + 2 : c[k] = value[k - Len(name) - 2]
  BY <1>3, <1>5, <1>7
<1>11. c[Len(name) + Len(value) + 3] = 1 /\ c[Len(name) + Len(value) + 4] = 2
  BY <1>3, <1>5, <1>7
<1> QED
  BY <1>7, <1>8, <1>9, <1>10, <1>11, <1>12

\* Both names have two letters.
IsName(name) == name \in Seq(Octets) /\ Len(name) = 2

\* The characters of a line with such a name
LEMMA LineChars ==
  ASSUME NEW name, NEW value, IsName(name), value \in Seq(Octets)
  PROVE  /\ Line(name, value) \in Seq(Octets) /\ Len(Line(name, value)) = Len(value) + 6
         /\ Line(name, value)[1] = name[1] /\ Line(name, value)[2] = name[2]
         /\ Line(name, value)[3] = 4 /\ Line(name, value)[4] = 3
         /\ \A k \in 5 .. Len(value) + 4 : Line(name, value)[k] = value[k - 4]
         /\ Line(name, value)[Len(value) + 5] = 1 /\ Line(name, value)[Len(value) + 6] = 2
<1>1. name \in Seq(Octets)
  BY DEF IsName
<1>2. /\ Line(name, value) \in Seq(Octets) /\ Len(Line(name, value)) = Len(name) + Len(value) + 4
      /\ \A k \in 1 .. Len(name) : Line(name, value)[k] = name[k]
      /\ Line(name, value)[Len(name) + 1] = 4 /\ Line(name, value)[Len(name) + 2] = 3
      /\ \A k \in Len(name) + 3 .. Len(name) + Len(value) + 2 : Line(name, value)[k] = value[k - Len(name) - 2]
      /\ Line(name, value)[Len(name) + Len(value) + 3] = 1 /\ Line(name, value)[Len(name) + Len(value) + 4] = 2
  BY <1>1, LineConcat
<1>3. Len(name) = 2 /\ Len(value) \in Nat
  BY DEF IsName
<1> QED
  BY <1>2, <1>3

\* The lines of a request: a header that is missing has none.
LEMMA LinesChars ==
  ASSUME NEW q, IsRequest(q)
  PROVE  /\ TypeLine(q) \in Seq(Octets) /\ LengthLine(q) \in Seq(Octets)
         /\ HasLine(q, 1) => TypeLine(q) = Line(NameOf(1), ValueOf(q, 1))
         /\ HasLine(q, 2) => LengthLine(q) = Line(NameOf(2), ValueOf(q, 2))
         /\ ~HasLine(q, 1) => Len(TypeLine(q)) = 0
         /\ ~HasLine(q, 2) => Len(LengthLine(q)) = 0
<1>1. HasLine(q, 1) => TypeLine(q) = Line(NameOf(1), ValueOf(q, 1))
  BY DEF HasLine, TypeLine, NameOf, ValueOf
<1>2. HasLine(q, 2) => LengthLine(q) = Line(NameOf(2), ValueOf(q, 2))
  BY DEF HasLine, LengthLine, NameOf, ValueOf
<1>3. ~HasLine(q, 1) => TypeLine(q) = <<>>
  BY DEF HasLine, TypeLine
<1>4. ~HasLine(q, 2) => LengthLine(q) = <<>>
  BY DEF HasLine, LengthLine
<1>5. \A i \in 1 .. 2 : HasLine(q, i) => Line(NameOf(i), ValueOf(q, i)) \in Seq(Octets)
  BY RequestTypes, CharTypes, LineChars DEF NameOf, IsName
<1>6. Len(<<>>) = 0 /\ <<>> \in Seq(Octets)
  OBVIOUS
<1>7. TypeLine(q) \in Seq(Octets) /\ LengthLine(q) \in Seq(Octets)
  <2>1. HasLine(q, 1) => TypeLine(q) \in Seq(Octets)
    BY <1>1, <1>5
  <2>2. HasLine(q, 2) => LengthLine(q) \in Seq(Octets)
    BY <1>2, <1>5
  <2> QED
    BY <1>3, <1>4, <1>6, <2>1, <2>2, Zenon
<1>8. (~HasLine(q, 1) => Len(TypeLine(q)) = 0) /\ (~HasLine(q, 2) => Len(LengthLine(q)) = 0)
  BY <1>3, <1>4, <1>6
<1> QED
  BY <1>1, <1>2, <1>7, <1>8, Zenon

\* The lines follow each other, and one that is missing takes no room.
LEMMA LineAts ==
  ASSUME NEW q, IsRequest(q)
  PROVE  /\ LineAt(q, 1) = Len(q.uri) + 7
         /\ LineAt(q, 2) = LineAt(q, 1) + Len(TypeLine(q))
         /\ LineAt(q, 3) = LineAt(q, 2) + Len(LengthLine(q))
         /\ Len(TypeLine(q)) \in Nat /\ Len(LengthLine(q)) \in Nat /\ Len(q.uri) \in Nat
         /\ \A i \in 1 .. 3 : LineAt(q, i) \in Nat
         /\ \A i \in 1 .. 2 : HasLine(q, i) => LineAt(q, i + 1) = LineAt(q, i) + Len(ValueOf(q, i)) + 6
         /\ \A i \in 1 .. 2 : ~HasLine(q, i) => LineAt(q, i + 1) = LineAt(q, i)
<1>1. Len(TypeLine(q)) \in Nat /\ Len(LengthLine(q)) \in Nat /\ Len(q.uri) \in Nat
  BY LinesChars, RequestTypes
<1>2. /\ LineAt(q, 1) = Len(q.uri) + 7
      /\ LineAt(q, 2) = LineAt(q, 1) + Len(TypeLine(q))
      /\ LineAt(q, 3) = LineAt(q, 2) + Len(LengthLine(q))
  BY <1>1 DEF LineAt
<1>3. HasLine(q, 1) => Len(TypeLine(q)) = Len(ValueOf(q, 1)) + 6
  BY LinesChars, LineChars, RequestTypes, CharTypes DEF NameOf, IsName
<1>4. HasLine(q, 2) => Len(LengthLine(q)) = Len(ValueOf(q, 2)) + 6
  BY LinesChars, LineChars, RequestTypes, CharTypes DEF NameOf, IsName
<1>5. HasLine(q, 1) => Len(ValueOf(q, 1)) \in Nat
  BY RequestTypes
<1>6. HasLine(q, 2) => Len(ValueOf(q, 2)) \in Nat
  BY RequestTypes
<1>7. \A i \in 1 .. 2 : HasLine(q, i) => LineAt(q, i + 1) = LineAt(q, i) + Len(ValueOf(q, i)) + 6
  BY <1>1, <1>2, <1>3, <1>4, <1>5, <1>6, SMTT(40)
<1>8. \A i \in 1 .. 2 : ~HasLine(q, i) => LineAt(q, i + 1) = LineAt(q, i)
  BY <1>1, <1>2, LinesChars
<1>9. \A i \in 1 .. 3 : LineAt(q, i) \in Nat
  BY <1>1, <1>2
<1> QED
  BY <1>1, <1>2, <1>7, <1>8, <1>9

\* g is what f has after the first at
Has(f, at, g) == \A k \in at + 1 .. at + Len(g) : f[k] = g[k - at]

\* What f has there, character by character
LEMMA HasAt ==
  ASSUME NEW f, NEW g, NEW at \in Nat, Len(g) \in Nat, Has(f, at, g)
  PROVE  \A k \in 1 .. Len(g) : f[at + k] = g[k]
<1> SUFFICES ASSUME NEW k \in 1 .. Len(g) PROVE f[at + k] = g[k]
  OBVIOUS
<1>1. at + k \in at + 1 .. at + Len(g) /\ (at + k) - at = k
  OBVIOUS
<1> QED
  BY <1>1 DEF Has

\* What has a part has the parts of the part.
LEMMA HasIn ==
  ASSUME NEW f, NEW g, NEW h, NEW at \in Nat, NEW in \in Nat, Len(g) \in Nat, Len(h) \in Nat,
         in + Len(h) <= Len(g), Has(f, at, g), Has(g, in, h)
  PROVE  Has(f, at + in, h)
<1> DEFINE m == Len(g)
           n == Len(h)
<1> SUFFICES ASSUME NEW k \in at + in + 1 .. at + in + n PROVE f[k] = h[k - (at + in)]
  BY DEF Has
<1>1. k \in at + 1 .. at + m /\ k - at \in in + 1 .. in + n /\ (k - at) - in = k - (at + in)
  OBVIOUS
<1>2. f[k] = g[k - at]
  BY <1>1 DEF Has
<1>3. g[k - at] = h[(k - at) - in]
  BY <1>1 DEF Has
<1> QED
  BY <1>1, <1>2, <1>3

\* Two sequences one after the other: both are in it.
LEMMA HasConcat ==
  ASSUME NEW S, NEW a, NEW b, a \in Seq(S), b \in Seq(S)
  PROVE  /\ a \o b \in Seq(S) /\ Len(a \o b) = Len(a) + Len(b)
         /\ Len(a) \in Nat /\ Len(b) \in Nat
         /\ Has(a \o b, 0, a) /\ Has(a \o b, Len(a), b)
<1>1. /\ a \o b \in Seq(S) /\ Len(a \o b) = Len(a) + Len(b)
      /\ Len(a) \in Nat /\ Len(b) \in Nat
      /\ \A k \in 1 .. Len(a) : (a \o b)[k] = a[k]
      /\ \A k \in Len(a) + 1 .. Len(a) + Len(b) : (a \o b)[k] = b[k - Len(a)]
  BY Concat
<1>2. Has(a \o b, Len(a), b)
  BY <1>1, Zenon DEF Has
<1>3. Has(a \o b, 0, a)
  <2>1. \A k \in 0 + 1 .. 0 + Len(a) : k \in 1 .. Len(a) /\ k - 0 = k
    BY <1>1
  <2> QED
    BY <1>1, <2>1, Zenon DEF Has
<1> QED
  BY <1>1, <1>2, <1>3, Zenon

\* What the first of two sequences has, both one after the other have.
LEMMA HasFirst ==
  ASSUME NEW S, NEW a, NEW b, a \in Seq(S), b \in Seq(S), NEW g, NEW at \in Nat, Len(g) \in Nat,
         at + Len(g) <= Len(a), Has(a, at, g)
  PROVE  Has(a \o b, at, g)
<1>1. Len(a) \in Nat /\ Has(a \o b, 0, a)
  BY HasConcat, Zenon
<1>2. Has(a \o b, 0 + at, g)
  BY <1>1, HasIn
<1>3. 0 + at = at
  OBVIOUS
<1> QED
  BY <1>2, <1>3

\* The parts of a heading that all requests have in common
Ends == <<CR, LF>>
Start == <<5, 6, SP>>
Version == <<SP, 7, CR, LF>>

\* Their characters
LEMMA EndsChars ==
  /\ Ends \in Seq(Octets) /\ Len(Ends) = 2 /\ Ends[1] = 1 /\ Ends[2] = 2
  /\ Start \in Seq(Octets) /\ Len(Start) = 3 /\ Start[1] = 5 /\ Start[2] = 6 /\ Start[3] = 3
  /\ Version \in Seq(Octets) /\ Len(Version) = 4
  /\ Version[1] = 3 /\ Version[2] = 7 /\ Version[3] = 1 /\ Version[4] = 2
<1>1. Ends \in Seq(Octets) /\ Len(Ends) = 2 /\ Ends[1] = 1 /\ Ends[2] = 2
  BY DEF Ends, Octets, CR, LF
<1>2. Start \in Seq(Octets) /\ Len(Start) = 3 /\ Start[1] = 5 /\ Start[2] = 6 /\ Start[3] = 3
  BY DEF Start, Octets, SP
<1>3. /\ Version \in Seq(Octets) /\ Len(Version) = 4
      /\ Version[1] = 3 /\ Version[2] = 7 /\ Version[3] = 1 /\ Version[4] = 2
  BY DEF Version, Octets, SP, CR, LF
<1> QED
  BY <1>1, <1>2, <1>3

\* Where the parts of a heading are
LEMMA HeadingPieces ==
  ASSUME NEW q, IsRequest(q)
  PROVE  /\ Heading(q) \in Seq(Octets)
         /\ Len(Heading(q)) = LineAt(q, 3) + 2
         /\ Has(Heading(q), 0, Start) /\ Has(Heading(q), 3, q.uri)
         /\ Has(Heading(q), Len(q.uri) + 3, Version)
         /\ Has(Heading(q), LineAt(q, 1), TypeLine(q))
         /\ Has(Heading(q), LineAt(q, 2), LengthLine(q))
         /\ Has(Heading(q), LineAt(q, 3), Ends)
<1> DEFINE a == Start \o q.uri
           b == a \o Version
           c == b \o TypeLine(q)
           d == c \o LengthLine(q)
           f == d \o Ends
<1>1. q.uri \in Seq(Octets) /\ TypeLine(q) \in Seq(Octets) /\ LengthLine(q) \in Seq(Octets)
  BY RequestTypes, LinesChars
<1>2. Start \in Seq(Octets) /\ Version \in Seq(Octets) /\ Ends \in Seq(Octets)
  BY EndsChars, Zenon
<1>20. Len(Start) = 3 /\ Len(Version) = 4 /\ Len(Ends) = 2
  BY EndsChars, Zenon
<1>3. /\ a \in Seq(Octets) /\ Len(a) = Len(Start) + Len(q.uri) /\ Len(q.uri) \in Nat /\ Len(Start) \in Nat
      /\ Has(a, 0, Start) /\ Has(a, Len(Start), q.uri)
  BY <1>1, <1>2, HasConcat
<1> HIDE DEF a
<1>4. /\ b \in Seq(Octets) /\ Len(b) = Len(a) + Len(Version) /\ Len(a) \in Nat /\ Len(Version) \in Nat
      /\ Has(b, Len(a), Version)
  BY <1>2, <1>3, HasConcat, ZenonT(40)
<1>5. Has(b, 0, Start) /\ Has(b, Len(Start), q.uri)
  BY <1>2, <1>3, HasFirst
<1> HIDE DEF b
<1>60. b \in Seq(Octets) /\ TypeLine(q) \in Seq(Octets)
  BY <1>1, <1>4
<1>6. c \in Seq(Octets) /\ Len(c) = Len(b) + Len(TypeLine(q)) /\ Len(TypeLine(q)) \in Nat /\ Has(c, Len(b), TypeLine(q))
  BY <1>60, HasConcat
<1>7. Has(c, 0, Start) /\ Has(c, Len(Start), q.uri) /\ Has(c, Len(a), Version)
  BY <1>1, <1>3, <1>4, <1>5, HasFirst
<1> HIDE DEF c
<1>8. d \in Seq(Octets) /\ Len(d) = Len(c) + Len(LengthLine(q)) /\ Len(LengthLine(q)) \in Nat /\ Has(d, Len(c), LengthLine(q))
  BY <1>1, <1>6, HasConcat, ZenonT(40)
<1>9. Has(d, 0, Start) /\ Has(d, Len(Start), q.uri) /\ Has(d, Len(a), Version)
  BY <1>1, <1>3, <1>4, <1>6, <1>7, HasFirst, SMTT(40)
<1>90. Has(d, Len(b), TypeLine(q)) /\ Len(b) \in Nat
  BY <1>1, <1>4, <1>6, HasFirst
<1> HIDE DEF d
<1>10. f \in Seq(Octets) /\ Len(f) = Len(d) + Len(Ends) /\ Has(f, Len(d), Ends)
  BY <1>2, <1>8, HasConcat, ZenonT(40)
<1>110. Len(c) \in Nat /\ Len(b) <= Len(c) /\ Len(a) + Len(Version) <= Len(c) /\ Len(c) <= Len(d)
  BY <1>4, <1>6, <1>8, <1>90
<1>111. Has(f, 0, Start) /\ Has(f, Len(Start), q.uri)
  BY <1>2, <1>3, <1>4, <1>110, <1>8, <1>9, HasFirst
<1>112. Has(f, Len(a), Version)
  BY <1>2, <1>4, <1>110, <1>8, <1>9, HasFirst
<1>113. Has(f, Len(b), TypeLine(q))
  BY <1>2, <1>6, <1>90, <1>8, HasFirst
<1>114. Has(f, Len(c), LengthLine(q))
  BY <1>2, <1>110, <1>8, HasFirst
<1>12. f = Heading(q)
  BY DEF a, b, c, d, f, Start, Version, Ends, Heading, TypeLine, LengthLine
<1> HIDE DEF f
<1>13. Len(b) = LineAt(q, 1) /\ Len(a) = Len(q.uri) + 3
  BY <1>20, <1>3, <1>4, LineAts
<1>14. Len(c) = LineAt(q, 2)
  BY <1>6, <1>13, LineAts
<1>15. Len(d) = LineAt(q, 3)
  BY <1>8, <1>14, LineAts
<1> QED
  BY <1>10, <1>111, <1>112, <1>113, <1>114, <1>12, <1>13, <1>14, <1>15, <1>20

\* The characters of a heading before the headers and after them
LEMMA HeadingChars ==
  ASSUME NEW q, IsRequest(q)
  PROVE  LET U == Len(q.uri)
             E == LineAt(q, 3)
         IN  /\ Heading(q)[1] = 5 /\ Heading(q)[2] = 6 /\ Heading(q)[3] = 3
             /\ \A k \in 1 .. U : Heading(q)[3 + k] = q.uri[k]
             /\ Heading(q)[U + 4] = 3 /\ Heading(q)[U + 5] = 7 /\ Heading(q)[U + 6] = 1 /\ Heading(q)[U + 7] = 2
             /\ Heading(q)[E + 1] = 1 /\ Heading(q)[E + 2] = 2
<1> DEFINE U == Len(q.uri)
           E == LineAt(q, 3)
           f == Heading(q)
<1>1. U \in Nat /\ E \in Nat
  BY LineAts
<1>2. \A k \in 1 .. 3 : f[0 + k] = Start[k]
  <2>1. Len(Start) \in Nat /\ Has(f, 0, Start) /\ Len(Start) = 3
    BY HeadingPieces, EndsChars
  <2>2. \A k \in 1 .. Len(Start) : f[0 + k] = Start[k]
    BY <2>1, HasAt
  <2> QED
    BY <2>1, <2>2
<1>3. \A k \in 1 .. U : f[3 + k] = q.uri[k]
  BY <1>1, HeadingPieces, HasAt
<1>4. Has(f, U + 3, Version) /\ Len(Version) = 4 /\ U + 3 \in Nat
  BY <1>1, HeadingPieces, EndsChars
<1>5. \A k \in 1 .. 4 : f[(U + 3) + k] = Version[k]
  BY <1>4, HasAt, SMTT(40)
<1>6. \A k \in 1 .. 2 : f[E + k] = Ends[k]
  <2>1. Len(Ends) \in Nat /\ Has(f, E, Ends) /\ Len(Ends) = 2 /\ E \in Nat
    BY <1>1, HeadingPieces, EndsChars
  <2> HIDE DEF E, f
  <2> SUFFICES ASSUME NEW k \in 1 .. 2 PROVE f[E + k] = Ends[k]
    OBVIOUS
  <2>2. E + k \in E + 1 .. E + Len(Ends) /\ (E + k) - E = k
    BY <2>1
  <2> QED
    BY <2>1, <2>2 DEF Has
<1> HIDE DEF U, E, f
<1>7. f[1] = 5 /\ f[2] = 6 /\ f[3] = 3
  <2>1. f[0 + 1] = Start[1] /\ f[0 + 2] = Start[2] /\ f[0 + 3] = Start[3]
    BY <1>2
  <2> QED
    BY <2>1, EndsChars
<1>8. f[U + 4] = 3 /\ f[U + 5] = 7 /\ f[U + 6] = 1 /\ f[U + 7] = 2
  <2>1. f[(U + 3) + 1] = Version[1] /\ f[(U + 3) + 2] = Version[2] /\ f[(U + 3) + 3] = Version[3] /\ f[(U + 3) + 4] = Version[4]
    BY <1>5
  <2>2. (U + 3) + 1 = U + 4 /\ (U + 3) + 2 = U + 5 /\ (U + 3) + 3 = U + 6 /\ (U + 3) + 4 = U + 7
    BY <1>1
  <2> QED
    BY <2>1, <2>2, EndsChars, Zenon
<1>9. f[E + 1] = 1 /\ f[E + 2] = 2
  BY <1>6, EndsChars
<1> QED
  BY <1>3, <1>7, <1>8, <1>9 DEF U, E, f

\* The characters of its headers
LEMMA HeaderChars ==
  ASSUME NEW q, IsRequest(q), NEW i \in 1 .. 2, HasLine(q, i)
  PROVE  LET at == LineAt(q, i)
             value == ValueOf(q, i)
         IN  /\ Heading(q)[at + 1] = NameOf(i)[1] /\ Heading(q)[at + 2] = NameOf(i)[2]
             /\ Heading(q)[at + 3] = 4 /\ Heading(q)[at + 4] = 3
             /\ \A k \in 5 .. Len(value) + 4 : Heading(q)[at + k] = value[k - 4]
             /\ Heading(q)[at + Len(value) + 5] = 1 /\ Heading(q)[at + Len(value) + 6] = 2
<1> DEFINE at == LineAt(q, i)
           value == ValueOf(q, i)
           line == Line(NameOf(i), value)
           f == Heading(q)
<1>1. IsName(NameOf(i)) /\ value \in Seq(Octets) /\ at \in Nat
  BY CharTypes, RequestTypes, LineAts DEF NameOf, IsName
<1>2. Has(f, at, line)
  <2>1. CASE i = 1
    BY <2>1, HeadingPieces, LinesChars
  <2>2. CASE i = 2
    BY <2>2, HeadingPieces, LinesChars
  <2> QED
    BY <2>1, <2>2
<1>3. /\ line \in Seq(Octets) /\ Len(line) = Len(value) + 6
      /\ line[1] = NameOf(i)[1] /\ line[2] = NameOf(i)[2] /\ line[3] = 4 /\ line[4] = 3
      /\ \A k \in 5 .. Len(value) + 4 : line[k] = value[k - 4]
      /\ line[Len(value) + 5] = 1 /\ line[Len(value) + 6] = 2
  BY <1>1, LineChars
<1>4. Len(value) \in Nat
  BY <1>1
<1> HIDE DEF at, value, line, f
<1>5. \A k \in 1 .. Len(line) : f[at + k] = line[k]
  BY <1>1, <1>2, <1>3, <1>4, HasAt, SMTT(40)
<1>6. \A k \in 1 .. Len(value) + 6 : f[at + k] = line[k]
  BY <1>3, <1>5
<1>7. \A k \in 5 .. Len(value) + 4 : f[at + k] = value[k - 4]
  BY <1>3, <1>4, <1>6
<1>8. f[at + 1] = NameOf(i)[1] /\ f[at + 2] = NameOf(i)[2] /\ f[at + 3] = 4 /\ f[at + 4] = 3
  BY <1>3, <1>4, <1>6
<1>9. f[at + Len(value) + 5] = 1 /\ f[at + Len(value) + 6] = 2
  <2>1. f[at + (Len(value) + 5)] = 1 /\ f[at + (Len(value) + 6)] = 2
    BY <1>3, <1>4, <1>6
  <2>2. at + (Len(value) + 5) = at + Len(value) + 5 /\ at + (Len(value) + 6) = at + Len(value) + 6
    BY <1>1, <1>4
  <2> QED
    BY <2>1, <2>2
<1> QED
  BY <1>7, <1>8, <1>9 DEF at, value, f

-----------------------------------------------------------------------------
(* The reader: in which state it is after how many characters of a         *)
(* request. i is the header it is at, 0 before the headers.                *)

IsReader(r) == r \in [state : ReaderStates, substate : Substates]

\* In the request line, up to its end. In the middle of a token o is any of from .. to.
InRequestLine(q, r, o) ==
  LET U == Len(q.uri)
      In(state, substate, from, to) == r = Reader(state, substate) /\ o \in from .. to
  IN  \/ In("EXPECTING_METHOD", "NONE", 0, 0)
      \/ In("READING_METHOD", "NONE", 0, 0)
      \/ In("READING_METHOD", "READING", 0, 2)
      \/ In("COMPLETED_METHOD", "NONE", 2, 2)
      \/ In("EXPECTING_URI", "NONE", 2, 2)
      \/ In("EXPECTING_URI", "AFTER_SP", 3, 3)
      \/ In("READING_URI", "NONE", 3, 3)
      \/ In("READING_URI", "READING", 3, 3 + U)
      \/ In("COMPLETED_URI", "NONE", 3 + U, 3 + U)
      \/ In("EXPECTING_VERSION", "NONE", 3 + U, 3 + U)
      \/ In("EXPECTING_VERSION", "AFTER_SP", 4 + U, 4 + U)
      \/ In("READING_VERSION", "NONE", 4 + U, 4 + U)
      \/ In("READING_VERSION", "READING", 4 + U, 5 + U)
      \/ In("COMPLETED_VERSION", "NONE", 5 + U, 5 + U)
      \/ In("EXPECTING_HEADER_NAME", "NONE", 5 + U, 5 + U)
      \/ In("EXPECTING_HEADER_NAME", "AFTER_CR", 6 + U, 6 + U)

\* In header i
InHeader(q, r, o, i) ==
  LET H == LineAt(q, i)
      V == Len(ValueOf(q, i))
      In(state, substate, from, to) == r = Reader(state, substate) /\ o \in from .. to
  IN  \/ In("READING_HEADER_NAME", "READING", H, H + 2)
      \/ In("COMPLETED_HEADER_NAME", "NONE", H + 2, H + 2)
      \/ In("EXPECTING_HEADER_VALUE", "NONE", H + 2, H + 2)
      \/ In("READING_HEADER_VALUE", "NONE", H + 3, H + 4 + V)
      \/ In("COMPLETED_HEADER_VALUE", "NONE", H + 4 + V, H + 4 + V)
      \/ In("ENDING_HEADER_LINE", "NONE", H + 4 + V, H + 4 + V)
      \/ In("ENDING_HEADER_LINE", "AFTER_CR", H + 5 + V, H + 5 + V)
      \/ In("ENDING_HEADER_LINE", "AFTER_LF", H + 6 + V, H + 6 + V)

\* In the empty line
AtEnd(q, r, o) ==
  LET E == LineAt(q, 3)
  IN  \/ r = Reader("ENDING_HEADER_LINES", "NONE") /\ o = E
      \/ r = Reader("ENDING_HEADER_LINES", "AFTER_CR") /\ o = E + 1
      \/ r = Reader("DONE", "NONE") /\ o = E + 2

\* Anywhere: in one of these, or at the beginning of line i
Place(q, r, o, i) ==
  \/ i = 0 /\ InRequestLine(q, r, o)
  \/ i \in 1 .. 3 /\ HasLine(q, i) /\ r = Reader("READING_HEADER_NAME", "NONE") /\ o = LineAt(q, i)
  \/ i \in 1 .. 2 /\ HasLine(q, i) /\ InHeader(q, r, o, i)
  \/ i = 3 /\ AtEnd(q, r, o)

\* The token, or the part of it, that lies in from + 1 .. to, when o bytes have been read
Part(from, to, o) == IF o <= from THEN NoToken ELSE [at |-> from, n |-> (IF o < to THEN o ELSE to) - from]
InHeaders == {"READING_HEADER_NAME", "COMPLETED_HEADER_NAME", "EXPECTING_HEADER_VALUE"}
InValues == {"READING_HEADER_VALUE", "COMPLETED_HEADER_VALUE"}

\* The tokens of which something has been read
Found(q, state, o, i, name) ==
  CASE name = "METHOD" -> Part(0, 2, o)
    [] name = "URI" -> Part(3, 3 + Len(q.uri), o)
    [] name = "HEADER_NAME" /\ state \in InHeaders \cup InValues -> Part(LineAt(q, i), LineAt(q, i) + 2, o)
    [] name = "HEADER_VALUE" /\ state \in InValues -> Part(LineAt(q, i) + 3, LineAt(q, i) + 4 + Len(ValueOf(q, i)), o)
    [] OTHER -> NoToken

\* read_http reads a header, and clears its tokens, when the reader has completed its value:
\* from then on it counts as read.
Settled(state) == IF state = "COMPLETED_HEADER_VALUE" THEN "ENDING_HEADER_LINE" ELSE state
IsRead(state, i, k) == k < i \/ (k = i /\ state = "ENDING_HEADER_LINE")

\* The reader is in a token, and what a token becomes with n characters more
InToken(r) == r.substate = "READING" \/ r.state = "READING_HEADER_VALUE"
Extended(t, o, n) == IF t = NoToken THEN [at |-> o, n |-> n] ELSE [at |-> t.at, n |-> t.n + n]

\* How many steps a reader can take before it takes a character
Rank(r) ==
  CASE r.state = "READING_HEADER_VALUE" \/ r.substate = "READING" -> 2
    [] r.state \in Stops \ {"DONE", "ERROR"} -> 1
    [] r.state \in {"READING_METHOD", "READING_URI", "READING_VERSION", "READING_HEADER_NAME"} /\ r.substate = "NONE" -> 3
    [] r.state = "EXPECTING_METHOD" \/ r.substate \in {"AFTER_SP", "AFTER_LF"} -> 4
    [] OTHER -> 0

\* What a step does: it takes the character, or takes none and there are fewer such steps left;
Counts(r, a) == (a.n = 1 /\ a.reader.state \notin Stops \ {"DONE"}) \/ (a.n = 0 /\ Rank(a.reader) < Rank(r))

\* what has been found of a token afterwards is what had been found of it, and the character if
\* it is of that token;
KeepsToken(q, r, o, i, a, j, name) ==
  Found(q, a.reader.state, o + a.n, j, name) =
    IF InToken(r) /\ name = TokenOf(r.state) THEN Extended(Found(q, Settled(r.state), o, i, name), o, a.n)
    ELSE Found(q, Settled(r.state), o, i, name)
KeepsTokens(q, r, o, i, a, j) == \A name \in TokenNames : KeepsToken(q, r, o, i, a, j, name)

\* a reader that was in a token still is in it or has completed it;
StaysInToken(r, a) ==
  InToken(r) => TokenOf(a.reader.state) = TokenOf(r.state) /\ (a.reader.state \in Stops \/ InToken(a.reader))

\* the token it was in ended where it is;
EndsAt(q, r, o, i) ==
  InToken(r) => \A name \in TokenNames : name = TokenOf(r.state) =>
                  LET t == Found(q, Settled(r.state), o, i, name) IN t = NoToken \/ t.at + t.n = o

\* the headers that have been read are the same, and the one that is completed;
KeepsLines(q, r, i, a, j) ==
  \A k \in 1 .. 2 : HasLine(q, k) => (IsRead(a.reader.state, j, k) <=> IsRead(Settled(r.state), i, k))

\* and it is in a place of the request again.
Steps(q, r, o, i, a, j) ==
  /\ Place(q, a.reader, o + a.n, j) /\ Counts(r, a) /\ KeepsTokens(q, r, o, i, a, j)
  /\ StaysInToken(r, a) /\ EndsAt(q, r, o, i) /\ KeepsLines(q, r, i, a, j)

\* Behind header i there is another one, or the end.
LEMMA NextLine ==
  ASSUME NEW q, IsRequest(q), NEW i \in 0 .. 2
  PROVE  \E j \in i + 1 .. 3 :
           HasLine(q, j) /\ LineAt(q, j) = LineAt(q, i + 1) /\ \A k \in i + 1 .. j - 1 : ~HasLine(q, k)
<1>1. HasLine(q, 3)
  BY DEF HasLine
<1>2. \A k \in 1 .. 2 : ~HasLine(q, k) => LineAt(q, k + 1) = LineAt(q, k)
  BY LineAts
<1>3. CASE i = 2
  BY <1>1, <1>3
<1>4. CASE i = 1
  BY <1>1, <1>2, <1>4
<1>5. CASE i = 0
  <2>1. CASE HasLine(q, 1)
    BY <1>5, <2>1
  <2>2. CASE ~HasLine(q, 1) /\ HasLine(q, 2)
    BY <1>2, <1>5, <2>2
  <2>3. CASE ~HasLine(q, 1) /\ ~HasLine(q, 2)
    BY <1>1, <1>2, <1>5, <2>3
  <2> QED
    BY <2>1, <2>2, <2>3
<1> QED
  BY <1>3, <1>4, <1>5

\* The tokens of the request line stay what they are while the headers are read.
LEMMA HeaderTokens ==
  ASSUME NEW q, IsRequest(q), NEW r, NEW o \in Nat, NEW i, NEW a, NEW j, a.n \in 0 .. 1, o >= Len(q.uri) + 3,
         TokenOf(r.state) \notin {"METHOD", "URI"},
         KeepsToken(q, r, o, i, a, j, "HEADER_NAME"), KeepsToken(q, r, o, i, a, j, "HEADER_VALUE")
  PROVE  KeepsTokens(q, r, o, i, a, j)
<1> DEFINE U == Len(q.uri)
           p == o + a.n
<1>1. U \in Nat \ {0}
  BY RequestTypes
<1>2. p \in Nat /\ p >= U + 3
  BY <1>1
<1> HIDE DEF U, p
<1>3. Part(0, 2, o) = Part(0, 2, p)
  BY <1>1, <1>2 DEF Part
<1>4. Part(3, 3 + U, o) = Part(3, 3 + U, p)
  <2>1. o >= U + 3
    BY DEF U
  <2> QED
    BY <1>1, <1>2, <2>1 DEF Part
<1>5. KeepsToken(q, r, o, i, a, j, "METHOD")
  BY <1>3 DEF KeepsToken, Found, p
<1>6. KeepsToken(q, r, o, i, a, j, "URI")
  BY <1>4 DEF KeepsToken, Found, p, U
<1> QED
  BY <1>5, <1>6 DEF KeepsTokens, TokenNames

\* Steps up to the version
LEMMA RequestLineSteps ==
  ASSUME NEW q, IsRequest(q), NEW r, NEW o, InRequestLine(q, r, o)
  PROVE  \E j \in 0 .. 3 : Steps(q, r, o, 0, Advance(r, Heading(q)[o + 1]), j)
<1> DEFINE U == Len(q.uri)
           c == Heading(q)[o + 1]
           a == Advance(r, c)
<1>1. U \in Nat \ {0} /\ LineAt(q, 1) = U + 7
  BY LineAts, RequestTypes
<1>2. /\ Heading(q)[1] = 5 /\ Heading(q)[2] = 6 /\ Heading(q)[3] = 3
      /\ Heading(q)[U + 4] = 3 /\ Heading(q)[U + 5] = 7 /\ Heading(q)[U + 6] = 1 /\ Heading(q)[U + 7] = 2
      /\ \A k \in 1 .. U : Heading(q)[3 + k] > 4
  BY HeadingChars, RequestTypes, SMTT(40)
<1> HIDE DEF U, c
<1>3. CASE r = Reader("EXPECTING_METHOD", "NONE") /\ o \in 0 .. 0
  <2>1. c = 5
    BY <1>1, <1>2, <1>3 DEF c
  <2>2. a = To("READING_METHOD", "NONE", 0)
    BY <1>3, <2>1
       DEF Advance, AdvanceRequestLine, AdvanceHeaders, AdvanceToken, AdvanceSpaces, AdvanceLineEnd, Error,
           Reader, IsWord, IsText, CR, LF, SP, Colon
  <2>3. KeepsTokens(q, r, o, 0, a, 0)
    BY <1>1, <1>3, <2>2
       DEF Reader, To, KeepsTokens, KeepsToken, InToken, Found, Part, Settled, InHeaders, InValues, U,
           TokenOf, TokenNames, Extended, NoToken
  <2>4. Place(q, a.reader, o + a.n, 0) /\ Counts(r, a) /\ StaysInToken(r, a) /\ KeepsLines(q, r, 0, a, 0)
    BY <1>1, <1>3, <2>2
       DEF Reader, To, InRequestLine, InHeader, Place, U, Counts, Rank, Stops, StaysInToken, InToken,
           TokenOf, KeepsLines, IsRead, Settled
  <2>5. EndsAt(q, r, o, 0)
    BY <1>3 DEF Reader, EndsAt, InToken
  <2> QED
    BY <2>3, <2>4, <2>5 DEF Steps, c
<1>4. CASE r = Reader("READING_METHOD", "NONE") /\ o \in 0 .. 0
  <2>1. c = 5
    BY <1>1, <1>2, <1>4 DEF c
  <2>2. a = To("READING_METHOD", "READING", 0)
    BY <1>4, <2>1
       DEF Advance, AdvanceRequestLine, AdvanceHeaders, AdvanceToken, AdvanceSpaces, AdvanceLineEnd, Error,
           Reader, IsWord, IsText, CR, LF, SP, Colon
  <2>3. KeepsTokens(q, r, o, 0, a, 0)
    BY <1>1, <1>4, <2>2
       DEF Reader, To, KeepsTokens, KeepsToken, InToken, Found, Part, Settled, InHeaders, InValues, U,
           TokenOf, TokenNames, Extended, NoToken
  <2>4. Place(q, a.reader, o + a.n, 0) /\ Counts(r, a) /\ StaysInToken(r, a) /\ KeepsLines(q, r, 0, a, 0)
    BY <1>1, <1>4, <2>2
       DEF Reader, To, InRequestLine, InHeader, Place, U, Counts, Rank, Stops, StaysInToken, InToken,
           TokenOf, KeepsLines, IsRead, Settled
  <2>5. EndsAt(q, r, o, 0)
    BY <1>4 DEF Reader, EndsAt, InToken
  <2> QED
    BY <2>3, <2>4, <2>5 DEF Steps, c
<1>5. CASE r = Reader("READING_METHOD", "READING") /\ o \in 0 .. 2
  <2>1. EndsAt(q, r, o, 0)
    BY <1>1, <1>5
       DEF Reader, EndsAt, InToken, Found, Settled, Part, InHeaders, InValues, TokenOf, TokenNames, NoToken
  <2>2. CASE o < 2
    <3>1. c > 4
      BY <1>1, <1>2, <1>5, <2>2 DEF c
    <3>2. a = To("READING_METHOD", "READING", 1)
      BY <1>5, <3>1
         DEF Advance, AdvanceRequestLine, AdvanceHeaders, AdvanceToken, AdvanceSpaces, AdvanceLineEnd, Error,
             Reader, IsWord, IsText, CR, LF, SP, Colon
    <3>3. o + 1 \in 0 .. 2
      BY <1>1, <1>5, <2>2
    <3>4. KeepsTokens(q, r, o, 0, a, 0)
      BY <1>1, <1>5, <3>2, <3>3
         DEF Reader, To, KeepsTokens, KeepsToken, InToken, Found, Part, Settled, InHeaders, InValues, U,
             TokenOf, TokenNames, Extended, NoToken
    <3>5. Place(q, a.reader, o + a.n, 0) /\ Counts(r, a) /\ StaysInToken(r, a) /\ KeepsLines(q, r, 0, a, 0)
      BY <1>1, <1>5, <3>2, <3>3
         DEF Reader, To, InRequestLine, InHeader, Place, U, Counts, Rank, Stops, StaysInToken, InToken,
             TokenOf, KeepsLines, IsRead, Settled
    <3> QED
      BY <2>1, <3>4, <3>5 DEF Steps, c
  <2>3. CASE o = 2
    <3>1. c = 3
      BY <1>1, <1>2, <1>5, <2>3 DEF c
    <3>2. a = To("COMPLETED_METHOD", "NONE", 0)
      BY <1>5, <3>1
         DEF Advance, AdvanceRequestLine, AdvanceHeaders, AdvanceToken, AdvanceSpaces, AdvanceLineEnd, Error,
             Reader, IsWord, IsText, CR, LF, SP, Colon
    <3>3. KeepsTokens(q, r, o, 0, a, 0)
      BY <1>1, <1>5, <2>3, <3>2
         DEF Reader, To, KeepsTokens, KeepsToken, InToken, Found, Part, Settled, InHeaders, InValues, U,
             TokenOf, TokenNames, Extended, NoToken
    <3>4. Place(q, a.reader, o + a.n, 0) /\ Counts(r, a) /\ StaysInToken(r, a) /\ KeepsLines(q, r, 0, a, 0)
      BY <1>1, <1>5, <2>3, <3>2
         DEF Reader, To, InRequestLine, InHeader, Place, U, Counts, Rank, Stops, StaysInToken, InToken,
             TokenOf, KeepsLines, IsRead, Settled
    <3> QED
      BY <2>1, <3>3, <3>4 DEF Steps, c
  <2> QED
    BY <1>1, <1>5, <2>2, <2>3
<1>6. CASE r = Reader("COMPLETED_METHOD", "NONE") /\ o \in 2 .. 2
  <2>1. c = 3
    BY <1>1, <1>2, <1>6 DEF c
  <2>2. a = To("EXPECTING_URI", "NONE", 0)
    BY <1>6, <2>1
       DEF Advance, AdvanceRequestLine, AdvanceHeaders, AdvanceToken, AdvanceSpaces, AdvanceLineEnd, Error,
           Reader, IsWord, IsText, CR, LF, SP, Colon
  <2>3. KeepsTokens(q, r, o, 0, a, 0)
    BY <1>1, <1>6, <2>2
       DEF Reader, To, KeepsTokens, KeepsToken, InToken, Found, Part, Settled, InHeaders, InValues, U,
           TokenOf, TokenNames, Extended, NoToken
  <2>4. Place(q, a.reader, o + a.n, 0) /\ Counts(r, a) /\ StaysInToken(r, a) /\ KeepsLines(q, r, 0, a, 0)
    BY <1>1, <1>6, <2>2
       DEF Reader, To, InRequestLine, InHeader, Place, U, Counts, Rank, Stops, StaysInToken, InToken,
           TokenOf, KeepsLines, IsRead, Settled
  <2>5. EndsAt(q, r, o, 0)
    BY <1>6 DEF Reader, EndsAt, InToken
  <2> QED
    BY <2>3, <2>4, <2>5 DEF Steps, c
<1>7. CASE r = Reader("EXPECTING_URI", "NONE") /\ o \in 2 .. 2
  <2>1. c = 3
    BY <1>1, <1>2, <1>7 DEF c
  <2>2. a = To("EXPECTING_URI", "AFTER_SP", 1)
    BY <1>7, <2>1
       DEF Advance, AdvanceRequestLine, AdvanceHeaders, AdvanceToken, AdvanceSpaces, AdvanceLineEnd, Error,
           Reader, IsWord, IsText, CR, LF, SP, Colon
  <2>3. KeepsTokens(q, r, o, 0, a, 0)
    BY <1>1, <1>7, <2>2
       DEF Reader, To, KeepsTokens, KeepsToken, InToken, Found, Part, Settled, InHeaders, InValues, U,
           TokenOf, TokenNames, Extended, NoToken
  <2>4. Place(q, a.reader, o + a.n, 0) /\ Counts(r, a) /\ StaysInToken(r, a) /\ KeepsLines(q, r, 0, a, 0)
    BY <1>1, <1>7, <2>2
       DEF Reader, To, InRequestLine, InHeader, Place, U, Counts, Rank, Stops, StaysInToken, InToken,
           TokenOf, KeepsLines, IsRead, Settled
  <2>5. EndsAt(q, r, o, 0)
    BY <1>7 DEF Reader, EndsAt, InToken
  <2> QED
    BY <2>3, <2>4, <2>5 DEF Steps, c
<1>8. CASE r = Reader("EXPECTING_URI", "AFTER_SP") /\ o \in 3 .. 3
  <2>1. c > 4
    BY <1>1, <1>2, <1>8 DEF c
  <2>2. a = To("READING_URI", "NONE", 0)
    BY <1>8, <2>1
       DEF Advance, AdvanceRequestLine, AdvanceHeaders, AdvanceToken, AdvanceSpaces, AdvanceLineEnd, Error,
           Reader, IsWord, IsText, CR, LF, SP, Colon
  <2>3. KeepsTokens(q, r, o, 0, a, 0)
    BY <1>1, <1>8, <2>2
       DEF Reader, To, KeepsTokens, KeepsToken, InToken, Found, Part, Settled, InHeaders, InValues, U,
           TokenOf, TokenNames, Extended, NoToken
  <2>4. Place(q, a.reader, o + a.n, 0) /\ Counts(r, a) /\ StaysInToken(r, a) /\ KeepsLines(q, r, 0, a, 0)
    BY <1>1, <1>8, <2>2
       DEF Reader, To, InRequestLine, InHeader, Place, U, Counts, Rank, Stops, StaysInToken, InToken,
           TokenOf, KeepsLines, IsRead, Settled
  <2>5. EndsAt(q, r, o, 0)
    BY <1>8 DEF Reader, EndsAt, InToken
  <2> QED
    BY <2>3, <2>4, <2>5 DEF Steps, c
<1>9. CASE r = Reader("READING_URI", "NONE") /\ o \in 3 .. 3
  <2>1. c > 4
    BY <1>1, <1>2, <1>9 DEF c
  <2>2. a = To("READING_URI", "READING", 0)
    BY <1>9, <2>1
       DEF Advance, AdvanceRequestLine, AdvanceHeaders, AdvanceToken, AdvanceSpaces, AdvanceLineEnd, Error,
           Reader, IsWord, IsText, CR, LF, SP, Colon
  <2>3. KeepsTokens(q, r, o, 0, a, 0)
    BY <1>1, <1>9, <2>2
       DEF Reader, To, KeepsTokens, KeepsToken, InToken, Found, Part, Settled, InHeaders, InValues, U,
           TokenOf, TokenNames, Extended, NoToken
  <2>4. Place(q, a.reader, o + a.n, 0) /\ Counts(r, a) /\ StaysInToken(r, a) /\ KeepsLines(q, r, 0, a, 0)
    BY <1>1, <1>9, <2>2
       DEF Reader, To, InRequestLine, InHeader, Place, U, Counts, Rank, Stops, StaysInToken, InToken,
           TokenOf, KeepsLines, IsRead, Settled
  <2>5. EndsAt(q, r, o, 0)
    BY <1>9 DEF Reader, EndsAt, InToken
  <2> QED
    BY <2>3, <2>4, <2>5 DEF Steps, c
<1>10. CASE r = Reader("READING_URI", "READING") /\ o \in 3 .. 3 + U
  <2>1. EndsAt(q, r, o, 0)
    BY <1>1, <1>10
       DEF Reader, EndsAt, InToken, Found, Settled, Part, InHeaders, InValues, TokenOf, TokenNames, NoToken, U
  <2>2. CASE o < 3 + U
    <3>1. c > 4
      BY <1>1, <1>2, <1>10, <2>2 DEF c
    <3>2. a = To("READING_URI", "READING", 1)
      BY <1>10, <3>1
         DEF Advance, AdvanceRequestLine, AdvanceHeaders, AdvanceToken, AdvanceSpaces, AdvanceLineEnd, Error,
             Reader, IsWord, IsText, CR, LF, SP, Colon
    <3>3. o + 1 \in 3 .. 3 + U
      BY <1>1, <1>10, <2>2
    <3>4. KeepsTokens(q, r, o, 0, a, 0)
      BY <1>1, <1>10, <3>2, <3>3, SMTT(40)
         DEF Reader, To, KeepsTokens, KeepsToken, InToken, Found, Part, Settled, InHeaders, InValues, U,
             TokenOf, TokenNames, Extended, NoToken, U
    <3>5. Place(q, a.reader, o + a.n, 0) /\ Counts(r, a) /\ StaysInToken(r, a) /\ KeepsLines(q, r, 0, a, 0)
      BY <1>1, <1>10, <3>2, <3>3
         DEF Reader, To, InRequestLine, InHeader, Place, U, Counts, Rank, Stops, StaysInToken, InToken,
             TokenOf, KeepsLines, IsRead, Settled
    <3> QED
      BY <2>1, <3>4, <3>5 DEF Steps, c
  <2>3. CASE o = 3 + U
    <3>1. c = 3
      BY <1>1, <1>2, <1>10, <2>3 DEF c
    <3>2. a = To("COMPLETED_URI", "NONE", 0)
      BY <1>10, <3>1
         DEF Advance, AdvanceRequestLine, AdvanceHeaders, AdvanceToken, AdvanceSpaces, AdvanceLineEnd, Error,
             Reader, IsWord, IsText, CR, LF, SP, Colon
    <3>3. KeepsTokens(q, r, o, 0, a, 0)
      BY <1>1, <1>10, <2>3, <3>2
         DEF Reader, To, KeepsTokens, KeepsToken, InToken, Found, Part, Settled, InHeaders, InValues, U,
             TokenOf, TokenNames, Extended, NoToken, U
    <3>4. Place(q, a.reader, o + a.n, 0) /\ Counts(r, a) /\ StaysInToken(r, a) /\ KeepsLines(q, r, 0, a, 0)
      BY <1>1, <1>10, <2>3, <3>2
         DEF Reader, To, InRequestLine, InHeader, Place, U, Counts, Rank, Stops, StaysInToken, InToken,
             TokenOf, KeepsLines, IsRead, Settled
    <3> QED
      BY <2>1, <3>3, <3>4 DEF Steps, c
  <2> QED
    BY <1>1, <1>10, <2>2, <2>3
<1>11. CASE r = Reader("COMPLETED_URI", "NONE") /\ o \in 3 + U .. 3 + U
  <2>1. c = 3
    BY <1>1, <1>2, <1>11 DEF c
  <2>2. a = To("EXPECTING_VERSION", "NONE", 0)
    BY <1>11, <2>1
       DEF Advance, AdvanceRequestLine, AdvanceHeaders, AdvanceToken, AdvanceSpaces, AdvanceLineEnd, Error,
           Reader, IsWord, IsText, CR, LF, SP, Colon
  <2>3. KeepsTokens(q, r, o, 0, a, 0)
    BY <1>1, <1>11, <2>2
       DEF Reader, To, KeepsTokens, KeepsToken, InToken, Found, Part, Settled, InHeaders, InValues, U,
           TokenOf, TokenNames, Extended, NoToken
  <2>4. Place(q, a.reader, o + a.n, 0) /\ Counts(r, a) /\ StaysInToken(r, a) /\ KeepsLines(q, r, 0, a, 0)
    BY <1>1, <1>11, <2>2
       DEF Reader, To, InRequestLine, InHeader, Place, U, Counts, Rank, Stops, StaysInToken, InToken,
           TokenOf, KeepsLines, IsRead, Settled
  <2>5. EndsAt(q, r, o, 0)
    BY <1>11 DEF Reader, EndsAt, InToken
  <2> QED
    BY <2>3, <2>4, <2>5 DEF Steps, c
<1>12. CASE r = Reader("EXPECTING_VERSION", "NONE") /\ o \in 3 + U .. 3 + U
  <2>1. c = 3
    BY <1>1, <1>2, <1>12 DEF c
  <2>2. a = To("EXPECTING_VERSION", "AFTER_SP", 1)
    BY <1>12, <2>1
       DEF Advance, AdvanceRequestLine, AdvanceHeaders, AdvanceToken, AdvanceSpaces, AdvanceLineEnd, Error,
           Reader, IsWord, IsText, CR, LF, SP, Colon
  <2>3. KeepsTokens(q, r, o, 0, a, 0)
    BY <1>1, <1>12, <2>2, SMTT(40)
       DEF Reader, To, KeepsTokens, KeepsToken, InToken, Found, Part, Settled, InHeaders, InValues, U,
           TokenOf, TokenNames, Extended, NoToken
  <2>4. Place(q, a.reader, o + a.n, 0) /\ Counts(r, a) /\ StaysInToken(r, a) /\ KeepsLines(q, r, 0, a, 0)
    BY <1>1, <1>12, <2>2
       DEF Reader, To, InRequestLine, InHeader, Place, U, Counts, Rank, Stops, StaysInToken, InToken,
           TokenOf, KeepsLines, IsRead, Settled
  <2>5. EndsAt(q, r, o, 0)
    BY <1>12 DEF Reader, EndsAt, InToken
  <2> QED
    BY <2>3, <2>4, <2>5 DEF Steps, c
<1>13. CASE r = Reader("EXPECTING_VERSION", "AFTER_SP") /\ o \in 4 + U .. 4 + U
  <2>1. c = 7
    BY <1>1, <1>2, <1>13 DEF c
  <2>2. a = To("READING_VERSION", "NONE", 0)
    BY <1>13, <2>1
       DEF Advance, AdvanceRequestLine, AdvanceHeaders, AdvanceToken, AdvanceSpaces, AdvanceLineEnd, Error,
           Reader, IsWord, IsText, CR, LF, SP, Colon
  <2>3. KeepsTokens(q, r, o, 0, a, 0)
    BY <1>1, <1>13, <2>2, SMTT(40)
       DEF Reader, To, KeepsTokens, KeepsToken, InToken, Found, Part, Settled, InHeaders, InValues, U,
           TokenOf, TokenNames, Extended, NoToken
  <2>4. Place(q, a.reader, o + a.n, 0) /\ Counts(r, a) /\ StaysInToken(r, a) /\ KeepsLines(q, r, 0, a, 0)
    BY <1>1, <1>13, <2>2
       DEF Reader, To, InRequestLine, InHeader, Place, U, Counts, Rank, Stops, StaysInToken, InToken,
           TokenOf, KeepsLines, IsRead, Settled
  <2>5. EndsAt(q, r, o, 0)
    BY <1>13 DEF Reader, EndsAt, InToken
  <2> QED
    BY <2>3, <2>4, <2>5 DEF Steps, c
<1>14. CASE r = Reader("READING_VERSION", "NONE") /\ o \in 4 + U .. 4 + U
  <2>1. c = 7
    BY <1>1, <1>2, <1>14 DEF c
  <2>2. a = To("READING_VERSION", "READING", 0)
    BY <1>14, <2>1
       DEF Advance, AdvanceRequestLine, AdvanceHeaders, AdvanceToken, AdvanceSpaces, AdvanceLineEnd, Error,
           Reader, IsWord, IsText, CR, LF, SP, Colon
  <2>3. KeepsTokens(q, r, o, 0, a, 0)
    BY <1>1, <1>14, <2>2, SMTT(40)
       DEF Reader, To, KeepsTokens, KeepsToken, InToken, Found, Part, Settled, InHeaders, InValues, U,
           TokenOf, TokenNames, Extended, NoToken
  <2>4. Place(q, a.reader, o + a.n, 0) /\ Counts(r, a) /\ StaysInToken(r, a) /\ KeepsLines(q, r, 0, a, 0)
    BY <1>1, <1>14, <2>2
       DEF Reader, To, InRequestLine, InHeader, Place, U, Counts, Rank, Stops, StaysInToken, InToken,
           TokenOf, KeepsLines, IsRead, Settled
  <2>5. EndsAt(q, r, o, 0)
    BY <1>14 DEF Reader, EndsAt, InToken
  <2> QED
    BY <2>3, <2>4, <2>5 DEF Steps, c
<1>15. CASE r = Reader("READING_VERSION", "READING") /\ o \in 4 + U .. 5 + U
  <2>1. EndsAt(q, r, o, 0)
    BY <1>1, <1>15
       DEF Reader, EndsAt, InToken, Found, Settled, Part, InHeaders, InValues, TokenOf, TokenNames, NoToken, U
  <2>2. CASE o < 5 + U
    <3>1. c = 7
      BY <1>1, <1>2, <1>15, <2>2 DEF c
    <3>2. a = To("READING_VERSION", "READING", 1)
      BY <1>15, <3>1
         DEF Advance, AdvanceRequestLine, AdvanceHeaders, AdvanceToken, AdvanceSpaces, AdvanceLineEnd, Error,
             Reader, IsWord, IsText, CR, LF, SP, Colon
    <3>3. o + 1 \in 4 + U .. 5 + U
      BY <1>1, <1>15, <2>2
    <3>4. KeepsTokens(q, r, o, 0, a, 0)
      BY <1>1, <1>15, <3>2, <3>3, SMTT(40)
         DEF Reader, To, KeepsTokens, KeepsToken, InToken, Found, Part, Settled, InHeaders, InValues, U,
             TokenOf, TokenNames, Extended, NoToken, U
    <3>5. Place(q, a.reader, o + a.n, 0) /\ Counts(r, a) /\ StaysInToken(r, a) /\ KeepsLines(q, r, 0, a, 0)
      BY <1>1, <1>15, <3>2, <3>3
         DEF Reader, To, InRequestLine, InHeader, Place, U, Counts, Rank, Stops, StaysInToken, InToken,
             TokenOf, KeepsLines, IsRead, Settled
    <3> QED
      BY <2>1, <3>4, <3>5 DEF Steps, c
  <2>3. CASE o = 5 + U
    <3>1. c = 1
      BY <1>1, <1>2, <1>15, <2>3 DEF c
    <3>2. a = To("COMPLETED_VERSION", "NONE", 0)
      BY <1>15, <3>1
         DEF Advance, AdvanceRequestLine, AdvanceHeaders, AdvanceToken, AdvanceSpaces, AdvanceLineEnd, Error,
             Reader, IsWord, IsText, CR, LF, SP, Colon
    <3>3. KeepsTokens(q, r, o, 0, a, 0)
      BY <1>1, <1>15, <2>3, <3>2, SMTT(40)
         DEF Reader, To, KeepsTokens, KeepsToken, InToken, Found, Part, Settled, InHeaders, InValues, U,
             TokenOf, TokenNames, Extended, NoToken, U
    <3>4. Place(q, a.reader, o + a.n, 0) /\ Counts(r, a) /\ StaysInToken(r, a) /\ KeepsLines(q, r, 0, a, 0)
      BY <1>1, <1>15, <2>3, <3>2
         DEF Reader, To, InRequestLine, InHeader, Place, U, Counts, Rank, Stops, StaysInToken, InToken,
             TokenOf, KeepsLines, IsRead, Settled
    <3> QED
      BY <2>1, <3>3, <3>4 DEF Steps, c
  <2> QED
    BY <1>1, <1>15, <2>2, <2>3
<1>16. CASE r = Reader("COMPLETED_VERSION", "NONE") /\ o \in 5 + U .. 5 + U
  <2>1. c = 1
    BY <1>1, <1>2, <1>16 DEF c
  <2>2. a = To("EXPECTING_HEADER_NAME", "NONE", 0)
    BY <1>16, <2>1
       DEF Advance, AdvanceRequestLine, AdvanceHeaders, AdvanceToken, AdvanceSpaces, AdvanceLineEnd, Error,
           Reader, IsWord, IsText, CR, LF, SP, Colon
  <2>3. KeepsTokens(q, r, o, 0, a, 0)
    BY <1>1, <1>16, <2>2, SMTT(40)
       DEF Reader, To, KeepsTokens, KeepsToken, InToken, Found, Part, Settled, InHeaders, InValues, U,
           TokenOf, TokenNames, Extended, NoToken
  <2>4. Place(q, a.reader, o + a.n, 0) /\ Counts(r, a) /\ StaysInToken(r, a) /\ KeepsLines(q, r, 0, a, 0)
    BY <1>1, <1>16, <2>2
       DEF Reader, To, InRequestLine, InHeader, Place, U, Counts, Rank, Stops, StaysInToken, InToken,
           TokenOf, KeepsLines, IsRead, Settled
  <2>5. EndsAt(q, r, o, 0)
    BY <1>16 DEF Reader, EndsAt, InToken
  <2> QED
    BY <2>3, <2>4, <2>5 DEF Steps, c
<1>17. CASE r = Reader("EXPECTING_HEADER_NAME", "NONE") /\ o \in 5 + U .. 5 + U
  <2>1. c = 1
    BY <1>1, <1>2, <1>17 DEF c
  <2>2. a = To("EXPECTING_HEADER_NAME", "AFTER_CR", 1)
    BY <1>17, <2>1
       DEF Advance, AdvanceRequestLine, AdvanceHeaders, AdvanceToken, AdvanceSpaces, AdvanceLineEnd, Error,
           Reader, IsWord, IsText, CR, LF, SP, Colon
  <2>3. KeepsTokens(q, r, o, 0, a, 0)
    BY <1>1, <1>17, <2>2, SMTT(40)
       DEF Reader, To, KeepsTokens, KeepsToken, InToken, Found, Part, Settled, InHeaders, InValues, U,
           TokenOf, TokenNames, Extended, NoToken
  <2>4. Place(q, a.reader, o + a.n, 0) /\ Counts(r, a) /\ StaysInToken(r, a) /\ KeepsLines(q, r, 0, a, 0)
    BY <1>1, <1>17, <2>2
       DEF Reader, To, InRequestLine, InHeader, Place, U, Counts, Rank, Stops, StaysInToken, InToken,
           TokenOf, KeepsLines, IsRead, Settled
  <2>5. EndsAt(q, r, o, 0)
    BY <1>17 DEF Reader, EndsAt, InToken
  <2> QED
    BY <2>3, <2>4, <2>5 DEF Steps, c
<1>18. CASE r = Reader("EXPECTING_HEADER_NAME", "AFTER_CR") /\ o \in 6 + U .. 6 + U
  <2>1. c = 2
    BY <1>1, <1>2, <1>18 DEF c
  <2>2. a = To("READING_HEADER_NAME", "NONE", 1)
    BY <1>18, <2>1
       DEF Advance, AdvanceRequestLine, AdvanceHeaders, AdvanceToken, AdvanceSpaces, AdvanceLineEnd, Error,
           Reader, IsWord, IsText, CR, LF, SP, Colon
  <2>3. PICK j \in 1 .. 3 : HasLine(q, j) /\ LineAt(q, j) = LineAt(q, 1) /\ \A k \in 1 .. j - 1 : ~HasLine(q, k)
    <3>1. \E j \in 0 + 1 .. 3 : HasLine(q, j) /\ LineAt(q, j) = LineAt(q, 0 + 1) /\ \A k \in 0 + 1 .. j - 1 : ~HasLine(q, k)
      BY NextLine
    <3> QED
      BY <3>1
  <2>4. KeepsTokens(q, r, o, 0, a, j)
    <3>1. KeepsToken(q, r, o, 0, a, j, "HEADER_NAME") /\ KeepsToken(q, r, o, 0, a, j, "HEADER_VALUE")
      BY <1>1, <1>18, <2>2, <2>3
         DEF Reader, To, KeepsToken, InToken, Found, Part, Settled, InHeaders, InValues
    <3>2. o \in Nat /\ o >= U + 3 /\ a.n \in 0 .. 1 /\ TokenOf(r.state) \notin {"METHOD", "URI"}
      BY <1>1, <1>18, <2>2 DEF Reader, To, TokenOf
    <3> QED
      BY <3>1, <3>2, HeaderTokens DEF U
  <2>5. Place(q, a.reader, o + a.n, j) /\ Counts(r, a) /\ StaysInToken(r, a)
    BY <1>1, <1>18, <2>2, <2>3
       DEF Reader, To, InRequestLine, InHeader, Place, U, Counts, Rank, Stops, StaysInToken, InToken,
           TokenOf, KeepsLines, IsRead, Settled
  <2>6. KeepsLines(q, r, 0, a, j)
    BY <1>18, <2>2, <2>3 DEF Reader, To, KeepsLines, IsRead, Settled
  <2>7. EndsAt(q, r, o, 0)
    BY <1>18 DEF Reader, EndsAt, InToken
  <2> QED
    BY <2>4, <2>5, <2>6, <2>7 DEF Steps, c
<1> QED
  BY <1>3, <1>4, <1>5, <1>6, <1>7, <1>8, <1>9, <1>10, <1>11, <1>12, <1>13, <1>14, <1>15, <1>16, <1>17, <1>18
     DEF InRequestLine, U, c

\* Steps in a header
LEMMA HeaderSteps ==
  ASSUME NEW q, IsRequest(q), NEW r, NEW o, NEW i \in 1 .. 2, HasLine(q, i), InHeader(q, r, o, i)
  PROVE  \E j \in 0 .. 3 : Steps(q, r, o, i, Advance(r, Heading(q)[o + 1]), j)
<1> DEFINE H == LineAt(q, i)
           V == Len(ValueOf(q, i))
           c == Heading(q)[o + 1]
           a == Advance(r, c)
<1>1. V \in Nat /\ H \in Nat /\ Len(q.uri) \in Nat /\ H >= Len(q.uri) + 7 /\ HasLine(q, i)
  <2>1. V \in Nat
    BY RequestTypes
  <2>2. H \in Nat /\ Len(q.uri) \in Nat /\ H >= Len(q.uri) + 7
    BY LineAts, SMTT(40)
  <2> QED
    BY <2>1, <2>2
<1>2. /\ Heading(q)[H + 1] > 4 /\ Heading(q)[H + 2] > 4 /\ Heading(q)[H + 3] = 4
      /\ \A k \in 4 .. V + 4 : Heading(q)[H + k] \notin {1, 2}
      /\ Heading(q)[H + V + 5] = 1 /\ Heading(q)[H + V + 6] = 2
  <2>1. /\ Heading(q)[H + 1] > 4 /\ Heading(q)[H + 2] > 4 /\ Heading(q)[H + 3] = 4
        /\ Heading(q)[H + V + 5] = 1 /\ Heading(q)[H + V + 6] = 2 /\ Heading(q)[H + 4] = 3
    BY HeaderChars, CharTypes DEF NameOf
  <2>2. \A k \in 5 .. V + 4 : Heading(q)[H + k] = ValueOf(q, i)[k - 4]
    BY HeaderChars
  <2>3. \A k \in 1 .. V : ValueOf(q, i)[k] \notin {1, 2}
    BY RequestTypes
  <2>4. \A k \in 5 .. V + 4 : k - 4 \in 1 .. V
    BY <1>1
  <2>5. \A k \in 5 .. V + 4 : Heading(q)[H + k] \notin {1, 2}
    BY <2>2, <2>3, <2>4, Zenon
  <2> QED
    BY <1>1, <2>1, <2>5, SMTT(40)
<1> HIDE DEF H, V, c
<1>3. CASE r = Reader("READING_HEADER_NAME", "READING") /\ o \in H .. H + 2
  <2>1. EndsAt(q, r, o, i)
    BY <1>1, <1>3
       DEF Reader, EndsAt, InToken, Found, Settled, Part, InHeaders, InValues, TokenOf, TokenNames, NoToken, H
  <2>2. CASE o < H + 2
    <3>1. c > 4
      BY <1>1, <1>2, <1>3, <2>2, SMTT(40) DEF c
    <3>2. a = To("READING_HEADER_NAME", "READING", 1)
      BY <1>3, <3>1
         DEF c, Advance, AdvanceRequestLine, AdvanceHeaders, AdvanceToken, AdvanceSpaces, AdvanceLineEnd,
             Error, Reader, IsWord, IsText, CR, LF, SP, Colon
    <3>3. o + 1 \in H .. H + 2
      BY <1>1, <1>3, <2>2
    <3>4. KeepsTokens(q, r, o, i, a, i)
      <4>1. o \in Nat /\ o >= Len(q.uri) + 3 /\ a.n \in 0 .. 1 /\ TokenOf(r.state) \notin {"METHOD", "URI"}
        BY <1>1, <1>3, <3>2, <3>3 DEF Reader, To, TokenOf
      <4>2. KeepsToken(q, r, o, i, a, i, "HEADER_NAME")
        BY <1>1, <1>3, <3>2, <3>3
           DEF Reader, To, KeepsToken, InToken, Found, Part, Settled, InHeaders, InValues, H, V, TokenOf,
               Extended, NoToken
      <4>3. KeepsToken(q, r, o, i, a, i, "HEADER_VALUE")
        BY <1>1, <1>3, <3>2, <3>3
           DEF Reader, To, KeepsToken, InToken, Found, Part, Settled, InHeaders, InValues, H, V, TokenOf,
               Extended, NoToken
      <4> QED
        BY <4>1, <4>2, <4>3, HeaderTokens
    <3>5. Place(q, a.reader, o + a.n, i) /\ Counts(r, a) /\ StaysInToken(r, a) /\ KeepsLines(q, r, i, a, i)
      BY <1>1, <1>3, <3>2, <3>3
         DEF Reader, To, InRequestLine, InHeader, Place, H, V, Counts, Rank, Stops, StaysInToken, InToken,
             TokenOf, KeepsLines, IsRead, Settled
    <3> QED
      BY <2>1, <3>4, <3>5 DEF Steps, c
  <2>3. CASE o = H + 2
    <3>1. c = 4
      BY <1>1, <1>2, <1>3, <2>3 DEF c
    <3>2. a = To("COMPLETED_HEADER_NAME", "NONE", 0)
      BY <1>3, <3>1
         DEF c, Advance, AdvanceRequestLine, AdvanceHeaders, AdvanceToken, AdvanceSpaces, AdvanceLineEnd,
             Error, Reader, IsWord, IsText, CR, LF, SP, Colon
    <3>3. KeepsTokens(q, r, o, i, a, i)
      <4>1. o \in Nat /\ o >= Len(q.uri) + 3 /\ a.n \in 0 .. 1 /\ TokenOf(r.state) \notin {"METHOD", "URI"}
        BY <1>1, <1>3, <2>3, <3>2 DEF Reader, To, TokenOf
      <4>2. KeepsToken(q, r, o, i, a, i, "HEADER_NAME")
        BY <1>1, <1>3, <2>3, <3>2
           DEF Reader, To, KeepsToken, InToken, Found, Part, Settled, InHeaders, InValues, H, V, TokenOf,
               Extended, NoToken
      <4>3. KeepsToken(q, r, o, i, a, i, "HEADER_VALUE")
        BY <1>1, <1>3, <2>3, <3>2
           DEF Reader, To, KeepsToken, InToken, Found, Part, Settled, InHeaders, InValues, H, V, TokenOf,
               Extended, NoToken
      <4> QED
        BY <4>1, <4>2, <4>3, HeaderTokens
    <3>4. Place(q, a.reader, o + a.n, i) /\ Counts(r, a) /\ StaysInToken(r, a) /\ KeepsLines(q, r, i, a, i)
      BY <1>1, <1>3, <2>3, <3>2
         DEF Reader, To, InRequestLine, InHeader, Place, H, V, Counts, Rank, Stops, StaysInToken, InToken,
             TokenOf, KeepsLines, IsRead, Settled
    <3> QED
      BY <2>1, <3>3, <3>4 DEF Steps, c
  <2> QED
    BY <1>1, <1>3, <2>2, <2>3
<1>4. CASE r = Reader("COMPLETED_HEADER_NAME", "NONE") /\ o \in H + 2 .. H + 2
  <2>1. c = 4
    BY <1>1, <1>2, <1>4 DEF c
  <2>2. a = To("EXPECTING_HEADER_VALUE", "NONE", 0)
    BY <1>4, <2>1
       DEF c, Advance, AdvanceRequestLine, AdvanceHeaders, AdvanceToken, AdvanceSpaces, AdvanceLineEnd,
           Error, Reader, IsWord, IsText, CR, LF, SP, Colon
  <2>3. KeepsTokens(q, r, o, i, a, i)
    <3>1. o \in Nat /\ o >= Len(q.uri) + 3 /\ a.n \in 0 .. 1 /\ TokenOf(r.state) \notin {"METHOD", "URI"}
      BY <1>1, <1>4, <2>2 DEF Reader, To, TokenOf
    <3>2. KeepsToken(q, r, o, i, a, i, "HEADER_NAME")
      BY <1>1, <1>4, <2>2
         DEF Reader, To, KeepsToken, InToken, Found, Part, Settled, InHeaders, InValues, H, V, TokenOf,
             Extended, NoToken
    <3>3. KeepsToken(q, r, o, i, a, i, "HEADER_VALUE")
      BY <1>1, <1>4, <2>2
         DEF Reader, To, KeepsToken, InToken, Found, Part, Settled, InHeaders, InValues, H, V, TokenOf,
             Extended, NoToken
    <3> QED
      BY <3>1, <3>2, <3>3, HeaderTokens
  <2>4. Place(q, a.reader, o + a.n, i) /\ Counts(r, a) /\ StaysInToken(r, a) /\ KeepsLines(q, r, i, a, i)
    BY <1>1, <1>4, <2>2
       DEF Reader, To, InRequestLine, InHeader, Place, H, V, Counts, Rank, Stops, StaysInToken, InToken,
           TokenOf, KeepsLines, IsRead, Settled
  <2>5. EndsAt(q, r, o, i)
    BY <1>4 DEF Reader, EndsAt, InToken
  <2> QED
    BY <2>3, <2>4, <2>5 DEF Steps, c
<1>5. CASE r = Reader("EXPECTING_HEADER_VALUE", "NONE") /\ o \in H + 2 .. H + 2
  <2>1. c = 4
    BY <1>1, <1>2, <1>5 DEF c
  <2>2. a = To("READING_HEADER_VALUE", "NONE", 1)
    BY <1>5, <2>1
       DEF c, Advance, AdvanceRequestLine, AdvanceHeaders, AdvanceToken, AdvanceSpaces, AdvanceLineEnd,
           Error, Reader, IsWord, IsText, CR, LF, SP, Colon
  <2>3. KeepsTokens(q, r, o, i, a, i)
    <3>1. o \in Nat /\ o >= Len(q.uri) + 3 /\ a.n \in 0 .. 1 /\ TokenOf(r.state) \notin {"METHOD", "URI"}
      BY <1>1, <1>5, <2>2 DEF Reader, To, TokenOf
    <3>2. KeepsToken(q, r, o, i, a, i, "HEADER_NAME")
      BY <1>1, <1>5, <2>2
         DEF Reader, To, KeepsToken, InToken, Found, Part, Settled, InHeaders, InValues, H, V, TokenOf,
             Extended, NoToken
    <3>3. KeepsToken(q, r, o, i, a, i, "HEADER_VALUE")
      BY <1>1, <1>5, <2>2
         DEF Reader, To, KeepsToken, InToken, Found, Part, Settled, InHeaders, InValues, H, V, TokenOf,
             Extended, NoToken
    <3> QED
      BY <3>1, <3>2, <3>3, HeaderTokens
  <2>4. Place(q, a.reader, o + a.n, i) /\ Counts(r, a) /\ StaysInToken(r, a) /\ KeepsLines(q, r, i, a, i)
    BY <1>1, <1>5, <2>2, SMTT(40)
       DEF Reader, To, InRequestLine, InHeader, Place, H, V, Counts, Rank, Stops, StaysInToken, InToken,
           TokenOf, KeepsLines, IsRead, Settled
  <2>5. EndsAt(q, r, o, i)
    BY <1>5 DEF Reader, EndsAt, InToken
  <2> QED
    BY <2>3, <2>4, <2>5 DEF Steps, c
<1>6. CASE r = Reader("READING_HEADER_VALUE", "NONE") /\ o \in H + 3 .. H + 4 + V
  <2>1. EndsAt(q, r, o, i)
    BY <1>1, <1>6
       DEF Reader, EndsAt, InToken, Found, Settled, Part, InHeaders, InValues, TokenOf, TokenNames, NoToken,
           H, V
  <2>2. CASE o < H + 4 + V
    <3>1. c \notin {1, 2}
      <4>1. (o + 1) - H \in 4 .. V + 4 /\ H + ((o + 1) - H) = o + 1
        BY <1>1, <1>6, <2>2
      <4> QED
        BY <1>2, <4>1 DEF c
    <3>2. a = To("READING_HEADER_VALUE", "NONE", 1)
      BY <1>6, <3>1
         DEF c, Advance, AdvanceRequestLine, AdvanceHeaders, AdvanceToken, AdvanceSpaces, AdvanceLineEnd,
             Error, Reader, IsWord, IsText, CR, LF, SP, Colon
    <3>3. o + 1 \in H + 3 .. H + 4 + V
      BY <1>1, <1>6, <2>2
    <3>4. KeepsTokens(q, r, o, i, a, i)
      <4>1. o \in Nat /\ o >= Len(q.uri) + 3 /\ a.n \in 0 .. 1 /\ TokenOf(r.state) \notin {"METHOD", "URI"}
        BY <1>1, <1>6, <3>2, <3>3 DEF Reader, To, TokenOf
      <4>2. KeepsToken(q, r, o, i, a, i, "HEADER_NAME")
        BY <1>1, <1>6, <3>2, <3>3, SMTT(40)
           DEF Reader, To, KeepsToken, InToken, Found, Part, Settled, InHeaders, InValues, H, V, TokenOf,
               Extended, NoToken
      <4>3. KeepsToken(q, r, o, i, a, i, "HEADER_VALUE")
        BY <1>1, <1>6, <3>2, <3>3, SMTT(40)
           DEF Reader, To, KeepsToken, InToken, Found, Part, Settled, InHeaders, InValues, H, V, TokenOf,
               Extended, NoToken
      <4> QED
        BY <4>1, <4>2, <4>3, HeaderTokens
    <3>5. Place(q, a.reader, o + a.n, i) /\ Counts(r, a) /\ StaysInToken(r, a) /\ KeepsLines(q, r, i, a, i)
      BY <1>1, <1>6, <3>2, <3>3, SMTT(40)
         DEF Reader, To, InRequestLine, InHeader, Place, H, V, Counts, Rank, Stops, StaysInToken, InToken,
             TokenOf, KeepsLines, IsRead, Settled
    <3> QED
      BY <2>1, <3>4, <3>5 DEF Steps, c
  <2>3. CASE o = H + 4 + V
    <3>1. c = 1
      BY <1>1, <1>2, <1>6, <2>3 DEF c
    <3>2. a = To("COMPLETED_HEADER_VALUE", "NONE", 0)
      BY <1>6, <3>1
         DEF c, Advance, AdvanceRequestLine, AdvanceHeaders, AdvanceToken, AdvanceSpaces, AdvanceLineEnd,
             Error, Reader, IsWord, IsText, CR, LF, SP, Colon
    <3>3. KeepsTokens(q, r, o, i, a, i)
      <4>1. o \in Nat /\ o >= Len(q.uri) + 3 /\ a.n \in 0 .. 1 /\ TokenOf(r.state) \notin {"METHOD", "URI"}
        BY <1>1, <1>6, <2>3, <3>2 DEF Reader, To, TokenOf
      <4>2. KeepsToken(q, r, o, i, a, i, "HEADER_NAME")
        BY <1>1, <1>6, <2>3, <3>2
           DEF Reader, To, KeepsToken, InToken, Found, Part, Settled, InHeaders, InValues, H, V, TokenOf,
               Extended, NoToken
      <4>3. KeepsToken(q, r, o, i, a, i, "HEADER_VALUE")
        BY <1>1, <1>6, <2>3, <3>2
           DEF Reader, To, KeepsToken, InToken, Found, Part, Settled, InHeaders, InValues, H, V, TokenOf,
               Extended, NoToken
      <4> QED
        BY <4>1, <4>2, <4>3, HeaderTokens
    <3>4. Place(q, a.reader, o + a.n, i) /\ Counts(r, a) /\ StaysInToken(r, a) /\ KeepsLines(q, r, i, a, i)
      BY <1>1, <1>6, <2>3, <3>2, SMTT(40)
         DEF Reader, To, InRequestLine, InHeader, Place, H, V, Counts, Rank, Stops, StaysInToken, InToken,
             TokenOf, KeepsLines, IsRead, Settled
    <3> QED
      BY <2>1, <3>3, <3>4 DEF Steps, c
  <2> QED
    BY <1>1, <1>6, <2>2, <2>3
<1>7. CASE r = Reader("COMPLETED_HEADER_VALUE", "NONE") /\ o \in H + 4 + V .. H + 4 + V
  <2>1. c = 1
    BY <1>1, <1>2, <1>7 DEF c
  <2>2. a = To("ENDING_HEADER_LINE", "NONE", 0)
    BY <1>7, <2>1
       DEF c, Advance, AdvanceRequestLine, AdvanceHeaders, AdvanceToken, AdvanceSpaces, AdvanceLineEnd,
           Error, Reader, IsWord, IsText, CR, LF, SP, Colon
  <2>3. KeepsTokens(q, r, o, i, a, i)
    <3>1. o \in Nat /\ o >= Len(q.uri) + 3 /\ a.n \in 0 .. 1 /\ TokenOf(r.state) \notin {"METHOD", "URI"}
      BY <1>1, <1>7, <2>2 DEF Reader, To, TokenOf
    <3>2. KeepsToken(q, r, o, i, a, i, "HEADER_NAME")
      BY <1>1, <1>7, <2>2
         DEF Reader, To, KeepsToken, InToken, Found, Part, Settled, InHeaders, InValues, H, V, TokenOf,
             Extended, NoToken
    <3>3. KeepsToken(q, r, o, i, a, i, "HEADER_VALUE")
      BY <1>1, <1>7, <2>2
         DEF Reader, To, KeepsToken, InToken, Found, Part, Settled, InHeaders, InValues, H, V, TokenOf,
             Extended, NoToken
    <3> QED
      BY <3>1, <3>2, <3>3, HeaderTokens
  <2>4. Place(q, a.reader, o + a.n, i) /\ Counts(r, a) /\ StaysInToken(r, a) /\ KeepsLines(q, r, i, a, i)
    BY <1>1, <1>7, <2>2
       DEF Reader, To, InRequestLine, InHeader, Place, H, V, Counts, Rank, Stops, StaysInToken, InToken,
           TokenOf, KeepsLines, IsRead, Settled
  <2>5. EndsAt(q, r, o, i)
    BY <1>7 DEF Reader, EndsAt, InToken
  <2> QED
    BY <2>3, <2>4, <2>5 DEF Steps, c
<1>8. CASE r = Reader("ENDING_HEADER_LINE", "NONE") /\ o \in H + 4 + V .. H + 4 + V
  <2>1. c = 1
    BY <1>1, <1>2, <1>8 DEF c
  <2>2. a = To("ENDING_HEADER_LINE", "AFTER_CR", 1)
    BY <1>8, <2>1
       DEF c, Advance, AdvanceRequestLine, AdvanceHeaders, AdvanceToken, AdvanceSpaces, AdvanceLineEnd,
           Error, Reader, IsWord, IsText, CR, LF, SP, Colon
  <2>3. KeepsTokens(q, r, o, i, a, i)
    <3>1. o \in Nat /\ o >= Len(q.uri) + 3 /\ a.n \in 0 .. 1 /\ TokenOf(r.state) \notin {"METHOD", "URI"}
      BY <1>1, <1>8, <2>2 DEF Reader, To, TokenOf
    <3>2. KeepsToken(q, r, o, i, a, i, "HEADER_NAME")
      BY <1>1, <1>8, <2>2
         DEF Reader, To, KeepsToken, InToken, Found, Part, Settled, InHeaders, InValues, H, V, TokenOf,
             Extended, NoToken
    <3>3. KeepsToken(q, r, o, i, a, i, "HEADER_VALUE")
      BY <1>1, <1>8, <2>2
         DEF Reader, To, KeepsToken, InToken, Found, Part, Settled, InHeaders, InValues, H, V, TokenOf,
             Extended, NoToken
    <3> QED
      BY <3>1, <3>2, <3>3, HeaderTokens
  <2>4. Place(q, a.reader, o + a.n, i) /\ Counts(r, a) /\ StaysInToken(r, a) /\ KeepsLines(q, r, i, a, i)
    BY <1>1, <1>8, <2>2
       DEF Reader, To, InRequestLine, InHeader, Place, H, V, Counts, Rank, Stops, StaysInToken, InToken,
           TokenOf, KeepsLines, IsRead, Settled
  <2>5. EndsAt(q, r, o, i)
    BY <1>8 DEF Reader, EndsAt, InToken
  <2> QED
    BY <2>3, <2>4, <2>5 DEF Steps, c
<1>9. CASE r = Reader("ENDING_HEADER_LINE", "AFTER_CR") /\ o \in H + 5 + V .. H + 5 + V
  <2>1. c = 2
    BY <1>1, <1>2, <1>9 DEF c
  <2>2. a = To("ENDING_HEADER_LINE", "AFTER_LF", 1)
    BY <1>9, <2>1
       DEF c, Advance, AdvanceRequestLine, AdvanceHeaders, AdvanceToken, AdvanceSpaces, AdvanceLineEnd,
           Error, Reader, IsWord, IsText, CR, LF, SP, Colon
  <2>3. KeepsTokens(q, r, o, i, a, i)
    <3>1. o \in Nat /\ o >= Len(q.uri) + 3 /\ a.n \in 0 .. 1 /\ TokenOf(r.state) \notin {"METHOD", "URI"}
      BY <1>1, <1>9, <2>2 DEF Reader, To, TokenOf
    <3>2. KeepsToken(q, r, o, i, a, i, "HEADER_NAME")
      BY <1>1, <1>9, <2>2
         DEF Reader, To, KeepsToken, InToken, Found, Part, Settled, InHeaders, InValues, H, V, TokenOf,
             Extended, NoToken
    <3>3. KeepsToken(q, r, o, i, a, i, "HEADER_VALUE")
      BY <1>1, <1>9, <2>2
         DEF Reader, To, KeepsToken, InToken, Found, Part, Settled, InHeaders, InValues, H, V, TokenOf,
             Extended, NoToken
    <3> QED
      BY <3>1, <3>2, <3>3, HeaderTokens
  <2>4. Place(q, a.reader, o + a.n, i) /\ Counts(r, a) /\ StaysInToken(r, a) /\ KeepsLines(q, r, i, a, i)
    BY <1>1, <1>9, <2>2
       DEF Reader, To, InRequestLine, InHeader, Place, H, V, Counts, Rank, Stops, StaysInToken, InToken,
           TokenOf, KeepsLines, IsRead, Settled
  <2>5. EndsAt(q, r, o, i)
    BY <1>9 DEF Reader, EndsAt, InToken
  <2> QED
    BY <2>3, <2>4, <2>5 DEF Steps, c
<1>10. CASE r = Reader("ENDING_HEADER_LINE", "AFTER_LF") /\ o \in H + 6 + V .. H + 6 + V
  <2>1. PICK j \in i + 1 .. 3 : HasLine(q, j) /\ LineAt(q, j) = LineAt(q, i + 1) /\ \A k \in i + 1 .. j - 1 : ~HasLine(q, k)
    BY NextLine
  <2>2. j \in 0 .. 3 /\ j \in 1 .. 3 /\ o = LineAt(q, j)
    <3>1. LineAt(q, i + 1) = H + V + 6
      BY <1>1, LineAts DEF H, V
    <3> QED
      BY <1>1, <1>10, <2>1, <3>1
  <2>3. c # 3
    <3>1. CASE j = 3
      BY <2>2, <3>1, HeadingChars DEF c
    <3>2. CASE j \in 1 .. 2
      BY <2>1, <2>2, <3>2, HeaderChars, CharTypes DEF c, NameOf
    <3> QED
      BY <2>2, <3>1, <3>2
  <2>4. a = To("READING_HEADER_NAME", "NONE", 0)
    BY <1>10, <2>3
       DEF c, Advance, AdvanceRequestLine, AdvanceHeaders, AdvanceToken, AdvanceSpaces, AdvanceLineEnd,
           Error, Reader, IsWord, IsText, CR, LF, SP, Colon
  <2>5. KeepsTokens(q, r, o, i, a, j)
    <3>1. o \in Nat /\ o >= Len(q.uri) + 3 /\ a.n \in 0 .. 1 /\ TokenOf(r.state) \notin {"METHOD", "URI"}
      BY <1>1, <1>10, <2>1, <2>2, <2>4 DEF Reader, To, TokenOf
    <3>2. KeepsToken(q, r, o, i, a, j, "HEADER_NAME")
      BY <1>1, <1>10, <2>1, <2>2, <2>4
         DEF Reader, To, KeepsToken, InToken, Found, Part, Settled, InHeaders, InValues, H, V, TokenOf,
             Extended, NoToken
    <3>3. KeepsToken(q, r, o, i, a, j, "HEADER_VALUE")
      BY <1>1, <1>10, <2>1, <2>2, <2>4
         DEF Reader, To, KeepsToken, InToken, Found, Part, Settled, InHeaders, InValues, H, V, TokenOf,
             Extended, NoToken
    <3> QED
      BY <3>1, <3>2, <3>3, HeaderTokens
  <2>6. Place(q, a.reader, o + a.n, j) /\ Counts(r, a) /\ StaysInToken(r, a)
    BY <1>1, <1>10, <2>1, <2>2, <2>4
       DEF Reader, To, InRequestLine, InHeader, Place, H, V, Counts, Rank, Stops, StaysInToken, InToken,
           TokenOf, KeepsLines, IsRead, Settled
  <2>7. KeepsLines(q, r, i, a, j)
    BY <1>10, <2>1, <2>2, <2>4 DEF Reader, To, KeepsLines, IsRead, Settled
  <2>8. EndsAt(q, r, o, i)
    BY <1>10 DEF Reader, EndsAt, InToken
  <2> QED
    BY <2>2, <2>5, <2>6, <2>7, <2>8 DEF Steps, c
<1> QED
  BY <1>3, <1>4, <1>5, <1>6, <1>7, <1>8, <1>9, <1>10 DEF InHeader, H, V, c

\* Steps at the beginning of a line
LEMMA LineSteps ==
  ASSUME NEW q, IsRequest(q), NEW r, NEW o, NEW i \in 1 .. 3, HasLine(q, i),
         r = Reader("READING_HEADER_NAME", "NONE"), o = LineAt(q, i)
  PROVE  \E j \in 0 .. 3 : Steps(q, r, o, i, Advance(r, Heading(q)[o + 1]), j)
<1> DEFINE c == Heading(q)[o + 1]
           a == Advance(r, c)
<1>1. LineAt(q, i) \in Nat /\ LineAt(q, 3) \in Nat /\ LineAt(q, i) >= Len(q.uri) + 7 /\ Len(q.uri) \in Nat
  BY LineAts, SMTT(40)
<1>2. EndsAt(q, r, o, i)
  BY DEF Reader, EndsAt, InToken
<1>3. CASE i = 3
  <2>1. c = 1
    BY <1>1, <1>3, HeadingChars
  <2>2. a = To("ENDING_HEADER_LINES", "NONE", 0)
    BY <2>1
       DEF Advance, AdvanceRequestLine, AdvanceHeaders, AdvanceToken, AdvanceSpaces, AdvanceLineEnd, Error,
           Reader, IsWord, IsText, CR, LF, SP, Colon
  <2>3. KeepsTokens(q, r, o, i, a, 3)
    <3>1. o \in Nat /\ o >= Len(q.uri) + 3 /\ a.n \in 0 .. 1 /\ TokenOf(r.state) \notin {"METHOD", "URI"}
      BY <1>1, <1>3, <2>2 DEF Reader, To, TokenOf
    <3>2. KeepsToken(q, r, o, i, a, 3, "HEADER_NAME")
      BY <1>1, <1>3, <2>2
         DEF Reader, To, KeepsToken, InToken, Found, Part, Settled, InHeaders, InValues, TokenOf, Extended,
             NoToken
    <3>3. KeepsToken(q, r, o, i, a, 3, "HEADER_VALUE")
      BY <1>1, <1>3, <2>2
         DEF Reader, To, KeepsToken, InToken, Found, Part, Settled, InHeaders, InValues, TokenOf, Extended,
             NoToken
    <3> QED
      BY <3>1, <3>2, <3>3, HeaderTokens
  <2>4. Place(q, a.reader, o + a.n, 3) /\ Counts(r, a) /\ StaysInToken(r, a) /\ KeepsLines(q, r, i, a, 3)
    BY <1>1, <1>3, <2>2
       DEF Reader, To, InRequestLine, InHeader, Place, Counts, Rank, Stops, StaysInToken, InToken, TokenOf,
           KeepsLines, IsRead, Settled, AtEnd
  <2> QED
    BY <1>2, <2>3, <2>4 DEF Steps
<1>4. CASE i \in 1 .. 2
  <2>1. c > 4
    <3>1. NameOf(i)[1] > 4
      BY <1>4, CharTypes DEF NameOf
    <3>2. c = NameOf(i)[1]
      BY <1>4, HeaderChars
    <3> QED
      BY <3>1, <3>2
  <2>2. a = To("READING_HEADER_NAME", "READING", 0)
    BY <2>1
       DEF Advance, AdvanceRequestLine, AdvanceHeaders, AdvanceToken, AdvanceSpaces, AdvanceLineEnd, Error,
           Reader, IsWord, IsText, CR, LF, SP, Colon
  <2>3. KeepsTokens(q, r, o, i, a, i)
    <3>1. o \in Nat /\ o >= Len(q.uri) + 3 /\ a.n \in 0 .. 1 /\ TokenOf(r.state) \notin {"METHOD", "URI"}
      BY <1>1, <1>4, <2>2 DEF Reader, To, TokenOf
    <3>2. KeepsToken(q, r, o, i, a, i, "HEADER_NAME")
      BY <1>1, <1>4, <2>2
         DEF Reader, To, KeepsToken, InToken, Found, Part, Settled, InHeaders, InValues, TokenOf, Extended,
             NoToken
    <3>3. KeepsToken(q, r, o, i, a, i, "HEADER_VALUE")
      BY <1>1, <1>4, <2>2
         DEF Reader, To, KeepsToken, InToken, Found, Part, Settled, InHeaders, InValues, TokenOf, Extended,
             NoToken
    <3> QED
      BY <3>1, <3>2, <3>3, HeaderTokens
  <2>4. Place(q, a.reader, o + a.n, i) /\ Counts(r, a) /\ StaysInToken(r, a) /\ KeepsLines(q, r, i, a, i)
    BY <1>1, <1>4, <2>2
       DEF Reader, To, InRequestLine, InHeader, Place, Counts, Rank, Stops, StaysInToken, InToken, TokenOf,
           KeepsLines, IsRead, Settled
  <2> QED
    BY <1>2, <2>3, <2>4 DEF Steps
<1> QED
  BY <1>3, <1>4

\* The end of the headers. A reader that is done takes nothing.
LEMMA EndSteps ==
  ASSUME NEW q, IsRequest(q), NEW r, NEW o, AtEnd(q, r, o), r.state # "DONE"
  PROVE  Steps(q, r, o, 3, Advance(r, Heading(q)[o + 1]), 3)
<1> DEFINE E == LineAt(q, 3)
           c == Heading(q)[o + 1]
           a == Advance(r, c)
<1>1. E \in Nat /\ E >= Len(q.uri) + 7 /\ Len(q.uri) \in Nat
  BY LineAts
<1>2. Heading(q)[E + 1] = 1 /\ Heading(q)[E + 2] = 2
  BY HeadingChars
<1> HIDE DEF E
<1>3. CASE r = Reader("ENDING_HEADER_LINES", "NONE") /\ o = E
  <2>1. c = 1
    BY <1>2, <1>3
  <2>2. a = To("ENDING_HEADER_LINES", "AFTER_CR", 1)
    BY <1>3, <2>1
       DEF Advance, AdvanceRequestLine, AdvanceHeaders, AdvanceToken, AdvanceSpaces, AdvanceLineEnd, Error,
           Reader, IsWord, IsText, CR, LF, SP, Colon
  <2>3. KeepsTokens(q, r, o, 3, a, 3)
    <3>1. o \in Nat /\ o >= Len(q.uri) + 3 /\ a.n \in 0 .. 1 /\ TokenOf(r.state) \notin {"METHOD", "URI"}
      BY <1>1, <1>3, <2>2 DEF Reader, To, TokenOf
    <3>2. KeepsToken(q, r, o, 3, a, 3, "HEADER_NAME")
      BY <1>1, <1>3, <2>2
         DEF Reader, To, KeepsToken, InToken, Found, Part, Settled, InHeaders, InValues, TokenOf, Extended,
             NoToken
    <3>3. KeepsToken(q, r, o, 3, a, 3, "HEADER_VALUE")
      BY <1>1, <1>3, <2>2
         DEF Reader, To, KeepsToken, InToken, Found, Part, Settled, InHeaders, InValues, TokenOf, Extended,
             NoToken
    <3> QED
      BY <3>1, <3>2, <3>3, HeaderTokens
  <2>4. Place(q, a.reader, o + a.n, 3) /\ Counts(r, a) /\ StaysInToken(r, a) /\ KeepsLines(q, r, 3, a, 3)
    BY <1>1, <1>3, <2>2
       DEF Reader, To, InRequestLine, InHeader, Place, Counts, Rank, Stops, StaysInToken, InToken, TokenOf,
           KeepsLines, IsRead, Settled, AtEnd, E
  <2>5. EndsAt(q, r, o, 3)
    BY <1>3 DEF Reader, EndsAt, InToken
  <2> QED
    BY <2>3, <2>4, <2>5 DEF Steps
<1>4. CASE r = Reader("ENDING_HEADER_LINES", "AFTER_CR") /\ o = E + 1
  <2>1. c = 2
    BY <1>1, <1>2, <1>4
  <2>2. a = To("DONE", "NONE", 1)
    BY <1>4, <2>1
       DEF Advance, AdvanceRequestLine, AdvanceHeaders, AdvanceToken, AdvanceSpaces, AdvanceLineEnd, Error,
           Reader, IsWord, IsText, CR, LF, SP, Colon
  <2>3. KeepsTokens(q, r, o, 3, a, 3)
    <3>1. o \in Nat /\ o >= Len(q.uri) + 3 /\ a.n \in 0 .. 1 /\ TokenOf(r.state) \notin {"METHOD", "URI"}
      BY <1>1, <1>4, <2>2 DEF Reader, To, TokenOf
    <3>2. KeepsToken(q, r, o, 3, a, 3, "HEADER_NAME")
      BY <1>1, <1>4, <2>2
         DEF Reader, To, KeepsToken, InToken, Found, Part, Settled, InHeaders, InValues, TokenOf, Extended,
             NoToken
    <3>3. KeepsToken(q, r, o, 3, a, 3, "HEADER_VALUE")
      BY <1>1, <1>4, <2>2
         DEF Reader, To, KeepsToken, InToken, Found, Part, Settled, InHeaders, InValues, TokenOf, Extended,
             NoToken
    <3> QED
      BY <3>1, <3>2, <3>3, HeaderTokens
  <2>4. Place(q, a.reader, o + a.n, 3) /\ Counts(r, a) /\ StaysInToken(r, a) /\ KeepsLines(q, r, 3, a, 3)
    BY <1>1, <1>4, <2>2
       DEF Reader, To, InRequestLine, InHeader, Place, Counts, Rank, Stops, StaysInToken, InToken, TokenOf,
           KeepsLines, IsRead, Settled, AtEnd, E
  <2>5. EndsAt(q, r, o, 3)
    BY <1>4 DEF Reader, EndsAt, InToken
  <2> QED
    BY <2>3, <2>4, <2>5 DEF Steps
<1> QED
  BY <1>3, <1>4 DEF AtEnd, E, Reader

\* Every character of a heading brings the reader from a place to a place.
LEMMA EveryStep ==
  ASSUME NEW q, IsRequest(q), NEW r, NEW o, NEW i, Place(q, r, o, i), r.state # "DONE"
  PROVE  \E j \in 0 .. 3 : Steps(q, r, o, i, Advance(r, Heading(q)[o + 1]), j)
BY RequestLineSteps, HeaderSteps, LineSteps, EndSteps DEF Place

\* A reader that is not done is before the end of the heading.
LEMMA Places ==
  ASSUME NEW q, IsRequest(q), NEW r, NEW o, NEW i, Place(q, r, o, i)
  PROVE  /\ i \in 0 .. 3 /\ o \in Nat /\ IsReader(r) /\ r.state # "ERROR"
         /\ r.state # "DONE" => o < Len(Heading(q))
         /\ r.state = "DONE" => i = 3 /\ o = Len(Heading(q))
<1> DEFINE U == Len(q.uri)
           H == LineAt(q, i)
           V == Len(ValueOf(q, i))
           E == LineAt(q, 3)
<1>1. U \in Nat /\ E \in Nat /\ E >= U + 7 /\ Len(Heading(q)) = E + 2
  BY LineAts, HeadingPieces, SMTT(40)
<1>2. i \in 1 .. 3 => H \in Nat /\ H <= E
  BY LineAts
<1>3. i \in 1 .. 2 /\ HasLine(q, i) => V \in Nat /\ H + V + 6 <= E
  BY LineAts, RequestTypes, SMTT(40)
<1>4. CASE i = 0 /\ InRequestLine(q, r, o)
  <2>1. o \in Nat /\ o <= U + 6
    BY <1>1, <1>4, SMTT(40) DEF InRequestLine
  <2>2. IsReader(r) /\ r.state # "ERROR" /\ r.state # "DONE"
    BY <1>4 DEF InRequestLine, IsReader, Reader, ReaderStates, Substates
  <2> QED
    BY <1>1, <1>4, <2>1, <2>2
<1>5. CASE i \in 1 .. 3 /\ HasLine(q, i) /\ r = Reader("READING_HEADER_NAME", "NONE") /\ o = LineAt(q, i)
  BY <1>1, <1>2, <1>5 DEF IsReader, Reader, ReaderStates, Substates
<1>6. CASE i \in 1 .. 2 /\ HasLine(q, i) /\ InHeader(q, r, o, i)
  <2>1. o \in Nat /\ o <= H + V + 6
    BY <1>2, <1>3, <1>6, SMTT(40) DEF InHeader
  <2>2. IsReader(r) /\ r.state # "ERROR" /\ r.state # "DONE"
    BY <1>6 DEF InHeader, IsReader, Reader, ReaderStates, Substates
  <2>3. o < Len(Heading(q)) /\ i \in 0 .. 3
    <3>1. V \in Nat /\ H + V + 6 <= E /\ H \in Nat
      BY <1>2, <1>3, <1>6
    <3> QED
      BY <1>1, <1>6, <2>1, <3>1
  <2> QED
    BY <2>1, <2>2, <2>3
<1>7. CASE i = 3 /\ AtEnd(q, r, o)
  BY <1>1, <1>7 DEF AtEnd, IsReader, Reader, ReaderStates, Substates
<1> QED
  BY <1>4, <1>5, <1>6, <1>7 DEF Place

\* A reader takes at most five steps for a character.
LEMMA Ranks == ASSUME NEW r PROVE Rank(r) \in 0 .. 4
BY DEF Rank

-----------------------------------------------------------------------------
(* Loops: what is done until it is done. The loops of the reader, of       *)
(* read_http and over the frames are functions of how often they have been *)
(* run.                                                                    *)

\* Loops: g is the states of a loop as long as it stays in S. They exist, by recursion.
IsLoop(S, first, step, n, g) == g[0] = first /\ \A k \in 0 .. n - 1 : g[k] \in S => g[k + 1] = step[g[k]]
HasLoop(first, step, n) == \E g : g = [k \in 0 .. n |-> IF k = 0 THEN first ELSE step[g[k - 1]]]

\* Every step brings a loop nearer to the states in Through; it stays in S and ends in Through.
Nearer(S, step, rank, Through) == \A z \in S : z \notin Through => rank[step[z]] < rank[z]
EndsIn(S, first, step, n, Through) ==
  \A g : IsLoop(S, first, step, n, g) => (\A k \in 0 .. n : g[k] \in S) /\ \E k \in 0 .. n : g[k] \in Through

\* A loop whose steps bring it nearer to the states it ends in gets there.
LEMMA Loop ==
  ASSUME NEW S, NEW first \in S, NEW step \in [S -> S], NEW rank \in [S -> Nat], NEW Through, NEW n \in Nat,
         rank[first] <= n, Nearer(S, step, rank, Through)
  PROVE  HasLoop(first, step, n) /\ EndsIn(S, first, step, n, Through)
<1>1. HasLoop(first, step, n)
  <2> SUFFICES \E g : g = [k \in 0 .. n |-> IF k = 0 THEN first ELSE step[g[k - 1]]]
    BY DEF HasLoop
  <2>1. PICK again \in [Nat \X S -> S] : \A p \in Nat \X S : again[p] = step[p[2]]
    <3>1. [p \in Nat \X S |-> step[p[2]]] \in [Nat \X S -> S]
      OBVIOUS
    <3> QED
      BY <3>1
  <2>2. PICK g \in [0 .. n -> S] : g[0] = first /\ \A k \in 0 .. n - 1 : g[k + 1] = again[<<k, g[k]>>]
    <3>1. HasStates(S, first, again, n)
      BY FirstStates
    <3> QED
      BY <3>1, Zenon DEF HasStates
  <2>3. ASSUME NEW k \in 0 .. n PROVE g[k] = IF k = 0 THEN first ELSE step[g[k - 1]]
    <3>1. CASE k = 0
      BY <2>2, <3>1
    <3>2. CASE k # 0
      <4>1. k - 1 \in 0 .. n - 1 /\ k - 1 \in 0 .. n /\ (k - 1) + 1 = k /\ k - 1 \in Nat
        BY <3>2
      <4>2. g[k - 1] \in S /\ <<k - 1, g[k - 1]>> \in Nat \X S
        BY <4>1
      <4>3. g[(k - 1) + 1] = again[<<k - 1, g[k - 1]>>]
        BY <2>2, <4>1
      <4> QED
        BY <2>1, <3>2, <4>1, <4>2, <4>3
    <3> QED
      BY <3>1, <3>2
  <2>4. g = [k \in 0 .. n |-> g[k]]
    OBVIOUS
  <2>5. g = [k \in 0 .. n |-> IF k = 0 THEN first ELSE step[g[k - 1]]]
    BY <2>3, <2>4
  <2> QED
    BY <2>5
<1>2. ASSUME NEW g, IsLoop(S, first, step, n, g)
      PROVE  (\A k \in 0 .. n : g[k] \in S) /\ \E k \in 0 .. n : g[k] \in Through
  <2>1. g[0] = first /\ \A k \in 0 .. n - 1 : g[k] \in S => g[k + 1] = step[g[k]]
    BY <1>2 DEF IsLoop
  <2> DEFINE T == {k \in Nat : k <= n => g[k] \in S /\ (rank[g[k]] + k <= n \/ \E j \in 0 .. k : g[j] \in Through)}
  <2>2. 0 \in T
    BY <2>1
  <2>3. ASSUME NEW k \in Nat, k \in T PROVE k + 1 \in T
    <3> SUFFICES ASSUME k + 1 <= n
        PROVE  g[k + 1] \in S /\ (rank[g[k + 1]] + (k + 1) <= n \/ \E j \in 0 .. k + 1 : g[j] \in Through)
      OBVIOUS
    <3>1. g[k] \in S /\ (rank[g[k]] + k <= n \/ \E j \in 0 .. k : g[j] \in Through)
      BY <2>3
    <3>2. k \in 0 .. n - 1
      OBVIOUS
    <3>3. g[k + 1] = step[g[k]]
      BY <2>1, <3>1, <3>2
    <3>4. step[g[k]] \in S
      BY <3>1
    <3>5. g[k + 1] \in S
      BY <3>3, <3>4
    <3>6. CASE \E j \in 0 .. k : g[j] \in Through
      <4>1. \A j \in 0 .. k : j \in 0 .. k + 1
        OBVIOUS
      <4> QED
        BY <3>5, <3>6, <4>1
    <3>7. CASE rank[g[k]] + k <= n /\ ~\E j \in 0 .. k : g[j] \in Through
      <4>1. g[k] \notin Through
        BY <3>7
      <4>2. rank[g[k + 1]] < rank[g[k]]
        BY <3>1, <3>3, <4>1 DEF Nearer
      <4>3. rank[g[k + 1]] \in Nat /\ rank[g[k]] \in Nat
        BY <3>1, <3>5
      <4> QED
        BY <3>5, <3>7, <4>2, <4>3
    <3> QED
      BY <3>1, <3>6, <3>7
  <2> HIDE DEF T
  <2>4. \A k \in Nat : k \in T
    BY <2>2, <2>3, NatInduct
  <2>5. ASSUME NEW k \in 0 .. n PROVE g[k] \in S
    BY <2>4 DEF T
  <2>6. \E k \in 0 .. n : g[k] \in Through
    <3>1. n \in T
      BY <2>4
    <3>2. g[n] \in S /\ (rank[g[n]] + n <= n \/ \E j \in 0 .. n : g[j] \in Through)
      BY <3>1 DEF T
    <3>3. CASE rank[g[n]] + n <= n
      <4>1. rank[g[n]] \in Nat
        BY <3>2
      <4>2. rank[g[n]] = 0
        BY <3>3, <4>1
      <4>3. rank[step[g[n]]] \in Nat
        BY <3>2
      <4>4. g[n] \in Through
        BY <3>2, <4>2, <4>3 DEF Nearer
      <4> QED
        BY <4>4
    <3> QED
      BY <3>2, <3>3
  <2> QED
    BY <2>5, <2>6
<1> QED
  BY <1>1, <1>2 DEF EndsIn

-----------------------------------------------------------------------------
(* util_http_reader_read                                                   *)

\* The way of util_http_reader_read, which starts with the tokens old of the session: what a token
\* is with the part that is found on the way
Now(z, old, name) ==
  IF z.token # NoToken /\ name = TokenOf(z.reader.state) THEN Extended(old, z.token.at, z.token.n) ELSE old

\* The headers that have been read
LinesRead(q, state, i) == {k \in 1 .. 2 : HasLine(q, k) /\ IsRead(state, i, k)}

\* The reader is in a place of the request, and the tokens are what has been found of them.
OnWay(q, hi, old, lines, z, state, i) ==
  /\ Place(q, z.reader, z.o, i) /\ z.o <= hi
  /\ z.token \in [at : Int, n : Int]
  /\ \A name \in TokenNames : Now(z, old[name], name) = Found(q, state, z.o, i, name)
  /\ \A name \in TokenNames : z.token # NoToken /\ name = TokenOf(z.reader.state) =>
       z.token.at \in Nat /\ (old[name] = NoToken \/ old[name].at + old[name].n = z.token.at)
  /\ lines = LinesRead(q, state, i)

\* The tokens there are
Tokens == {NoToken} \cup [at : Nat, n : Nat]

\* How far it is to hi
Left(z, hi) == 5 * (hi - z.o) + Rank(z.reader)

\* What has been read of a request that arrives in these bytes
Arrived(q, b, hi) == \A k \in 1 .. hi : k <= Len(Heading(q)) => b[k] = Heading(q)[k]

\* What has been found is a token.
LEMMA FoundTypes ==
  ASSUME NEW q, IsRequest(q), NEW r, NEW o, NEW i, Place(q, r, o, i), NEW state \in {r.state, Settled(r.state)}, NEW name
  PROVE  Found(q, state, o, i, name) \in Tokens
<1>1. i \in 0 .. 3 /\ o \in Nat
  BY Places
<1>2. \A from \in Nat : \A to \in Nat : from <= to => Part(from, to, o) \in Tokens
  BY <1>1 DEF Part, Tokens
<1>3. Len(q.uri) \in Nat
  BY RequestTypes
<1>4. CASE state \notin InHeaders \cup InValues
  <2>1. Part(0, 2, o) \in Tokens /\ Part(3, 3 + Len(q.uri), o) \in Tokens /\ NoToken \in Tokens
    BY <1>2, <1>3 DEF Tokens
  <2>2. state \notin InHeaders /\ state \notin InValues
    BY <1>4
  <2> QED
    BY <2>1, <2>2, Zenon DEF Found
<1>5. CASE state \in InHeaders \cup InValues
  <2>1. i \in 1 .. 3
    BY <1>5 DEF Place, InRequestLine, Settled, InHeaders, InValues, Reader
  <2>2. LineAt(q, i) \in Nat
    BY <2>1, LineAts
  <2>3. state \in InValues => i \in 1 .. 2 /\ HasLine(q, i)
    BY DEF Place, InRequestLine, AtEnd, Settled, InValues, Reader
  <2>4. state \in InValues => Len(ValueOf(q, i)) \in Nat
    BY <2>3, RequestTypes
  <2>5. Part(LineAt(q, i), LineAt(q, i) + 2, o) \in Tokens
    BY <1>2, <2>2
  <2>6. state \in InValues => Part(LineAt(q, i) + 3, LineAt(q, i) + 4 + Len(ValueOf(q, i)), o) \in Tokens
    BY <1>2, <2>2, <2>4
  <2>7. Part(0, 2, o) \in Tokens /\ Part(3, 3 + Len(q.uri), o) \in Tokens /\ NoToken \in Tokens
    BY <1>2, <1>3 DEF Tokens
  <2> QED
    BY <2>5, <2>6, <2>7, Zenon DEF Found
<1> QED
  BY <1>4, <1>5

\* A step of util_http_reader_read: it stays on its way and comes nearer to its end.
LEMMA TakenSteps ==
  ASSUME NEW q, IsRequest(q), NEW b, NEW hi \in Nat, Arrived(q, b, hi), NEW old \in [TokenNames -> Tokens],
         NEW lines, NEW z, NEW i \in 0 .. 3,
         OnWay(q, hi, old, lines, z, Settled(z.reader.state), i), z.o < hi, z.reader.state # "DONE",
         z.token = NoToken \/ InToken(z.reader)
  PROVE  /\ \E j \in 0 .. 3 : OnWay(q, hi, old, lines, Taken(b, z), Taken(b, z).reader.state, j)
         /\ Left(Taken(b, z), hi) < Left(z, hi) /\ Left(z, hi) \in Nat /\ Left(Taken(b, z), hi) \in Nat
         /\ Taken(b, z).o >= z.o
         /\ Taken(b, z).reader.state \in Stops \ {"DONE"} => Taken(b, z).o < hi
         /\ Taken(b, z).reader.state \in Stops \/ Taken(b, z).token = NoToken \/ InToken(Taken(b, z).reader)
<1> DEFINE r == z.reader
           o == z.o
           a == Advance(r, Heading(q)[o + 1])
           y == Taken(b, z)
<1>1. Place(q, r, o, i) /\ o \in Nat /\ o < Len(Heading(q)) /\ Len(Heading(q)) \in Nat
  BY Places, HeadingPieces DEF OnWay
<1>2. b[o + 1] = Heading(q)[o + 1]
  BY <1>1 DEF Arrived
<1>3. PICK j \in 0 .. 3 : Steps(q, r, o, i, a, j)
  BY <1>1, EveryStep
<1>4. y.reader = a.reader /\ y.o = o + a.n
  BY <1>2 DEF Taken
<1>5. y.token = IF ~InToken(r) THEN z.token
                ELSE IF z.token = NoToken THEN [at |-> o, n |-> a.n] ELSE [at |-> z.token.at, n |-> z.token.n + a.n]
  BY <1>2 DEF Taken, InToken
<1> HIDE DEF r, o, a, y
<1>6. a.n \in 0 .. 1 /\ Rank(r) \in 0 .. 4 /\ Rank(a.reader) \in 0 .. 4 /\ (a.n = 1 \/ Rank(a.reader) < Rank(r))
  BY <1>3, Ranks DEF Steps, Counts
<1>60. y.reader.state \in Stops \ {"DONE"} => y.o < hi
  <2>1. y.reader.state \in Stops \ {"DONE"} => a.n = 0
    BY <1>3, <1>4 DEF Steps, Counts
  <2>2. o + 0 = o /\ o < hi
    BY <1>1 DEF o
  <2> QED
    BY <1>4, <2>1, <2>2
<1>7. Left(y, hi) < Left(z, hi) /\ Left(z, hi) \in Nat /\ Left(y, hi) \in Nat /\ y.o >= z.o /\ y.o \in Nat /\ y.o <= hi
  <2>1. y.o = z.o + a.n /\ z.o \in Nat /\ z.o < hi /\ y.reader = a.reader
    BY <1>1, <1>4 DEF o
  <2>2. y.o >= z.o /\ y.o \in Nat /\ y.o <= hi
    BY <1>6, <2>1
  <2>3. Rank(z.reader) = Rank(r) /\ Rank(y.reader) = Rank(a.reader)
    BY <2>1 DEF r
  <2> QED
    BY <1>6, <2>1, <2>2, <2>3 DEF Left
<1>8. Place(q, y.reader, y.o, j)
  BY <1>3, <1>4 DEF Steps
<1>9. y.token \in [at : Int, n : Int]
  BY <1>1, <1>5, <1>6 DEF OnWay
<1>10. InToken(r) => TokenOf(y.reader.state) = TokenOf(r.state) /\ (y.reader.state \in Stops \/ InToken(y.reader))
  BY <1>3, <1>4 DEF Steps, StaysInToken
<1>11. y.reader.state \in Stops \/ y.token = NoToken \/ InToken(y.reader)
  BY <1>5, <1>10 DEF r
<1>12. lines = LinesRead(q, y.reader.state, j)
  <2>1. lines = LinesRead(q, Settled(r.state), i)
    BY DEF OnWay, r
  <2>2. \A k \in 1 .. 2 : HasLine(q, k) => (IsRead(y.reader.state, j, k) <=> IsRead(Settled(r.state), i, k))
    BY <1>3, <1>4 DEF Steps, KeepsLines
  <2> QED
    BY <2>1, <2>2 DEF LinesRead
<1>13. ASSUME NEW name \in TokenNames
       PROVE  /\ Now(y, old[name], name) = Found(q, y.reader.state, y.o, j, name)
              /\ y.token # NoToken /\ name = TokenOf(y.reader.state) =>
                   y.token.at \in Nat /\ (old[name] = NoToken \/ old[name].at + old[name].n = y.token.at)
  <2> DEFINE before == Found(q, Settled(r.state), o, i, name)
             after == Found(q, y.reader.state, y.o, j, name)
  <2>1. after = IF InToken(r) /\ name = TokenOf(r.state) THEN Extended(before, o, a.n) ELSE before
    BY <1>3, <1>4 DEF Steps, KeepsTokens, KeepsToken
  <2>2. Now(z, old[name], name) = before
    BY DEF OnWay, r, o
  <2>3. InToken(r) /\ name = TokenOf(r.state) => before = NoToken \/ before.at + before.n = o
    BY <1>3 DEF Steps, EndsAt
  <2>4. /\ z.token # NoToken /\ name = TokenOf(r.state) =>
             z.token.at \in Nat /\ (old[name] = NoToken \/ old[name].at + old[name].n = z.token.at)
        /\ z.token \in [at : Int, n : Int]
    BY DEF OnWay, r
  <2> HIDE DEF before, after
  <2>6. CASE ~InToken(r)
    <3>1. z.token = NoToken /\ y.token = NoToken
      BY <1>5, <2>6 DEF r
    <3> QED
      BY <2>1, <2>2, <2>6, <3>1 DEF Now, after
  <2>7. CASE InToken(r) /\ name # TokenOf(r.state)
    <3>1. name # TokenOf(y.reader.state)
      BY <1>10, <2>7
    <3> QED
      BY <2>1, <2>2, <2>7, <3>1 DEF Now, after, r
  <2>8. CASE InToken(r) /\ name = TokenOf(r.state) /\ z.token = NoToken
    <3>1. y.token = [at |-> o, n |-> a.n] /\ y.token # NoToken /\ y.token.at = o /\ y.token.n = a.n
      BY <1>1, <1>5, <2>8 DEF NoToken
    <3>2. old[name] = before
      BY <2>2, <2>8 DEF Now
    <3>3. Now(y, old[name], name) = Extended(old[name], o, a.n)
      BY <1>10, <2>8, <3>1 DEF Now
    <3> QED
      BY <1>1, <2>1, <2>3, <2>8, <3>1, <3>2, <3>3 DEF after
  <2>9. CASE InToken(r) /\ name = TokenOf(r.state) /\ z.token # NoToken
    <3>1. /\ y.token = [at |-> z.token.at, n |-> z.token.n + a.n] /\ y.token # NoToken
          /\ y.token.at = z.token.at /\ y.token.n = z.token.n + a.n /\ z.token.n \in Int /\ z.token.at \in Nat
      BY <1>5, <2>4, <2>9 DEF NoToken
    <3>2. Now(y, old[name], name) = Extended(old[name], z.token.at, z.token.n + a.n)
      BY <1>10, <2>9, <3>1 DEF Now
    <3>3. before = Extended(old[name], z.token.at, z.token.n)
      BY <2>2, <2>9 DEF Now, r
    <3>4. Extended(before, o, a.n) = Extended(old[name], z.token.at, z.token.n + a.n)
      <4>1. CASE old[name] = NoToken
        <5>1. before = [at |-> z.token.at, n |-> z.token.n]
          BY <3>3, <4>1 DEF Extended
        <5>2. before # NoToken /\ before.at = z.token.at /\ before.n = z.token.n
          BY <3>1, <5>1 DEF NoToken
        <5> QED
          BY <4>1, <5>2 DEF Extended
      <4>2. CASE old[name] # NoToken
        <5>1. old[name] \in [at : Nat, n : Nat]
          BY <4>2 DEF Tokens
        <5>2. before = [at |-> old[name].at, n |-> old[name].n + z.token.n]
          BY <3>3, <4>2 DEF Extended
        <5>3. before # NoToken /\ before.at = old[name].at /\ before.n = old[name].n + z.token.n
          BY <5>1, <5>2 DEF NoToken
        <5>4. (old[name].n + z.token.n) + a.n = old[name].n + (z.token.n + a.n)
          BY <1>6, <3>1, <5>1
        <5> QED
          BY <4>2, <5>3, <5>4 DEF Extended
      <4> QED
        BY <4>1, <4>2
    <3> QED
      BY <2>1, <2>4, <2>9, <3>1, <3>2, <3>4 DEF after
  <2> QED
    BY <2>6, <2>7, <2>8, <2>9
<1> QED
  BY <1>60, <1>7, <1>8, <1>9, <1>11, <1>12, <1>13 DEF OnWay, y

\* Where util_http_reader_read starts, and where it can be
WayOf(r, o) == [reader |-> r, o |-> o, token |-> NoToken]
Ways == [reader : [state : ReaderStates, substate : Substates], o : Nat, token : [at : Int, n : Int]]

\* What util_http_reader_read leaves
ReadWell(q, hi, old, lines, r, o, z) ==
  /\ \E i \in 0 .. 3 : OnWay(q, hi, old, lines, z, z.reader.state, i)
  /\ IsThrough(z, hi) /\ z.o >= o /\ z \in Ways
  /\ z.reader.state \in Stops \ {"DONE"} => z.o < hi
  /\ o < hi /\ r.state # "DONE" => Left(z, hi) < Left(WayOf(r, o), hi)

\* util_http_reader_read, from any place of a request
LEMMA Reads ==
  ASSUME NEW q, IsRequest(q), NEW b, NEW hi \in Nat, Arrived(q, b, hi), NEW old \in [TokenNames -> Tokens], NEW lines,
         NEW r, NEW o, NEW i \in 0 .. 3, OnWay(q, hi, old, lines, WayOf(r, o), Settled(r.state), i),
         o < hi \/ r.state \notin Stops \ {"DONE"}
  PROVE  ReadWell(q, hi, old, lines, r, o, Read(b, hi, r, o))
<1> DEFINE way == WayOf(r, o)
           first == IF o < hi THEN Taken(b, way) ELSE way
           most == 5 * (hi - o) + 5
           IsGood(z) == \E j \in 0 .. 3 : OnWay(q, hi, old, lines, z, z.reader.state, j)
           IsOn(z) == z.reader.state \in Stops \/ z.token = NoToken \/ InToken(z.reader)
           IsNearer(z) == o < hi /\ r.state # "DONE" => Left(z, hi) < Left(way, hi)
           IsAt(z) == Left(z, hi) \in Nat /\ z.o >= o /\ (z.reader.state \in Stops \ {"DONE"} => z.o < hi)
           S == {z \in Ways : IsGood(z) /\ IsOn(z) /\ IsNearer(z) /\ IsAt(z)}
           Ended == {z \in S : IsThrough(z, hi)}
<1>1. Place(q, r, o, i) /\ o \in Nat /\ o <= hi /\ IsReader(r)
  BY Places DEF OnWay, WayOf
<1>2. way.reader = r /\ way.o = o /\ way.token = NoToken
  BY DEF WayOf
<1>4. ASSUME NEW z, z = [reader |-> z.reader, o |-> z.o, token |-> z.token], IsGood(z) PROVE z \in Ways
  <2>1. PICK j \in 0 .. 3 : OnWay(q, hi, old, lines, z, z.reader.state, j)
    BY <1>4
  <2>2. IsReader(z.reader) /\ z.o \in Nat /\ z.token \in [at : Int, n : Int]
    BY <2>1, Places DEF OnWay
  <2> QED
    BY <1>4, <2>2 DEF Ways, IsReader
<1>5. first \in S
  <2>0. Left(way, hi) \in Nat /\ r.state \in Stops \cup {r.state}
    BY <1>1, <1>2, Ranks DEF Left
  <2>1. CASE o < hi /\ r.state # "DONE"
    <3> DEFINE y == Taken(b, way)
    <3>1. /\ \E j \in 0 .. 3 : OnWay(q, hi, old, lines, y, y.reader.state, j)
          /\ Left(y, hi) < Left(way, hi) /\ Left(y, hi) \in Nat
          /\ y.o >= way.o
          /\ y.reader.state \in Stops \ {"DONE"} => y.o < hi
          /\ y.reader.state \in Stops \/ y.token = NoToken \/ InToken(y.reader)
      BY <1>2, <2>1, TakenSteps
    <3>2. y = [reader |-> y.reader, o |-> y.o, token |-> y.token]
      BY DEF Taken
    <3>3. y \in Ways
      BY <1>4, <3>1, <3>2
    <3> HIDE DEF y, way
    <3> QED
      BY <1>2, <2>1, <3>1, <3>3 DEF y
  <2>2. CASE ~(o < hi)
    <3>1. Settled(r.state) = r.state
      BY <2>2 DEF Settled, Stops
    <3>2. IsGood(way)
      BY <1>2, <3>1
    <3>3. way \in Ways
      BY <1>4, <3>2 DEF WayOf
    <3>4. Left(way, hi) \in Nat
      BY <1>1, <1>2, Ranks DEF Left
    <3> HIDE DEF way
    <3> QED
      BY <1>1, <1>2, <2>2, <3>2, <3>3, <3>4
  <2>3. CASE o < hi /\ r.state = "DONE"
    <3> DEFINE y == Taken(b, way)
    <3>1. r = Reader("DONE", "NONE")
      BY <1>1, <2>3 DEF Place, InRequestLine, InHeader, AtEnd, Reader
    <3>2. Advance(r, b[o + 1]) = [reader |-> r, n |-> 0] /\ ~InToken(r)
      BY <3>1 DEF Advance, Reader, InToken
    <3>3. y = way
      <4>1. o + 0 = o
        BY <1>1
      <4> QED
        BY <1>2, <3>2, <4>1 DEF Taken, InToken, WayOf
    <3>4. Settled(r.state) = r.state /\ r.state \in Stops
      BY <2>3 DEF Settled, Stops
    <3>5. IsGood(y)
      BY <1>2, <3>3, <3>4
    <3>6. y \in Ways
      BY <1>4, <3>3, <3>5 DEF WayOf
    <3> HIDE DEF y, way
    <3> QED
      BY <1>1, <1>2, <2>0, <2>3, <3>3, <3>4, <3>5, <3>6 DEF y
  <2> QED
    BY <2>1, <2>2, <2>3
<1>6. ASSUME NEW z \in S, z \notin Ended
      PROVE  Taken(b, z) \in S /\ Left(Taken(b, z), hi) < Left(z, hi) /\ Further(b, hi, z) = Taken(b, z)
  <2> DEFINE y == Taken(b, z)
  <2>1. ~IsThrough(z, hi) /\ z \in Ways
    BY <1>6
  <2>2. z.o < hi /\ z.reader.state \notin Stops
    BY <1>1, <2>1 DEF IsThrough, Ways
  <2>3. PICK j \in 0 .. 3 : OnWay(q, hi, old, lines, z, z.reader.state, j)
    BY <1>6
  <2>4. Settled(z.reader.state) = z.reader.state /\ z.reader.state # "DONE"
    BY <2>2 DEF Settled, Stops
  <2>5. z.token = NoToken \/ InToken(z.reader)
    BY <1>6, <2>2
  <2>6. /\ \E k \in 0 .. 3 : OnWay(q, hi, old, lines, y, y.reader.state, k)
        /\ Left(y, hi) < Left(z, hi) /\ Left(y, hi) \in Nat
        /\ y.o >= z.o
        /\ y.reader.state \in Stops \ {"DONE"} => y.o < hi
        /\ y.reader.state \in Stops \/ y.token = NoToken \/ InToken(y.reader)
    BY <2>2, <2>3, <2>4, <2>5, TakenSteps
  <2>7. y = [reader |-> y.reader, o |-> y.o, token |-> y.token]
    BY DEF Taken
  <2>8. y \in Ways
    BY <1>4, <2>6, <2>7
  <2>9. Left(z, hi) \in Nat /\ z.o >= o /\ z.o \in Nat /\ y.o \in Nat /\ (o < hi /\ r.state # "DONE" => Left(z, hi) < Left(way, hi)) /\ Left(way, hi) \in Int
    BY <1>1, <1>2, <1>6, <2>1, <2>8, Ranks DEF Ways, Left
  <2> HIDE DEF y, way
  <2>10. y.o >= o /\ (o < hi /\ r.state # "DONE" => Left(y, hi) < Left(way, hi))
    BY <1>1, <2>6, <2>9
  <2>11. y \in S
    BY <2>6, <2>8, <2>10
  <2>12. Further(b, hi, z) = y
    BY <2>1 DEF Further, y
  <2> QED
    BY <2>6, <2>11, <2>12 DEF y
<1>7. ASSUME NEW z \in Ended PROVE z \in S /\ Further(b, hi, z) = z
  BY <1>7 DEF Further
<1>8. Left(first, hi) <= most /\ most \in Nat
  <2>1. Left(first, hi) = 5 * (hi - first.o) + Rank(first.reader) /\ first.o \in Nat /\ first.o >= o /\ first.o <= hi
    BY <1>5 DEF Left, OnWay, Ways
  <2> HIDE DEF first
  <2> QED
    BY <1>1, <2>1, Ranks
<1> DEFINE Step == [z \in S |-> Further(b, hi, z)]
           Lefts == [z \in S |-> Left(z, hi)]
<1>9. Step \in [S -> S] /\ Lefts \in [S -> Nat] /\ Nearer(S, Step, Lefts, Ended)
  <2>1. \A z \in S : Further(b, hi, z) \in S /\ Left(z, hi) \in Nat
    <3> SUFFICES ASSUME NEW z \in S PROVE Further(b, hi, z) \in S /\ Left(z, hi) \in Nat
      OBVIOUS
    <3>1. CASE z \in Ended
      BY <1>7, <3>1
    <3>2. CASE z \notin Ended
      BY <1>6, <3>2
    <3> QED
      BY <3>1, <3>2
  <2>2. \A z \in S : z \notin Ended => Left(Further(b, hi, z), hi) < Left(z, hi)
    BY <1>6
  <2> HIDE DEF S, Ended
  <2> QED
    BY <2>1, <2>2 DEF Nearer
<1>10. Step \in [S -> S] /\ Lefts \in [S -> Nat] /\ Lefts[first] <= most
  BY <1>5, <1>8, <1>9
<1>11. \A z \in S : Step[z] = Further(b, hi, z)
  OBVIOUS
<1> HIDE DEF first, most, S, Ended, Step, Lefts
<1>12. HasLoop(first, Step, most) /\ EndsIn(S, first, Step, most, Ended)
  BY <1>5, <1>8, <1>9, <1>10, Loop
<1> DEFINE IsRun(g) == g = [k \in 0 .. most |-> IF k = 0 THEN first ELSE Further(b, hi, g[k - 1])]
<1>13. ASSUME NEW g, IsRun(g) PROVE IsLoop(S, first, Step, most, g)
  <2>1. g[0] = first
    BY <1>8, <1>13
  <2>2. \A k \in 0 .. most - 1 : g[k + 1] = Further(b, hi, g[k])
    BY <1>8, <1>13
  <2> QED
    BY <1>11, <2>1, <2>2 DEF IsLoop
<1>14. \E g : IsRun(g)
  <2>1. PICK g : g = [k \in 0 .. most |-> IF k = 0 THEN first ELSE Step[g[k - 1]]]
    BY <1>12 DEF HasLoop
  <2>2. IsLoop(S, first, Step, most, g)
    BY <1>8, <2>1 DEF IsLoop
  <2>3. \A k \in 0 .. most : g[k] \in S
    BY <1>12, <2>2 DEF EndsIn
  <2>4. \A k \in 0 .. most : k # 0 => k - 1 \in 0 .. most
    BY <1>8
  <2>5. \A k \in 0 .. most : (IF k = 0 THEN first ELSE Step[g[k - 1]]) = (IF k = 0 THEN first ELSE Further(b, hi, g[k - 1]))
    BY <1>11, <2>3, <2>4
  <2>6. [k \in 0 .. most |-> IF k = 0 THEN first ELSE Step[g[k - 1]]] = [k \in 0 .. most |-> IF k = 0 THEN first ELSE Further(b, hi, g[k - 1])]
    BY <2>5, Zenon
  <2> QED
    BY <2>1, <2>6
<1> DEFINE run == CHOOSE g : IsRun(g)
           last == CHOOSE k \in 0 .. most : IsThrough(run[k], hi)
<1>15. IsRun(run)
  BY <1>14
<1>16. \A k \in 0 .. most : run[k] \in S
  BY <1>12, <1>13, <1>15 DEF EndsIn
<1>17. \E k \in 0 .. most : IsThrough(run[k], hi)
  BY <1>12, <1>13, <1>15 DEF EndsIn, Ended
<1>18. last \in 0 .. most /\ IsThrough(run[last], hi)
  BY <1>17
<1>19. run[last] \in S
  BY <1>16, <1>18
<1>20. Read(b, hi, r, o) = run[last]
  BY DEF Read, first, most, WayOf
<1> HIDE DEF run, last
<1> QED
  BY <1>18, <1>19, <1>20 DEF S, ReadWell

-----------------------------------------------------------------------------
(* The bytes of a token                                                    *)

\* The part of f that g is
LEMMA Cut ==
  ASSUME NEW S, NEW f, NEW g, g \in Seq(S), NEW at \in Nat, Has(f, at, g)
  PROVE  SubSeq(f, at + 1, at + Len(g)) = g
<1> DEFINE n == Len(g)
           t == SubSeq(f, at + 1, at + n)
<1>1. n \in Nat /\ at + 1 \in Int /\ at + n \in Int
  OBVIOUS
<1>2. \A k \in 1 .. n : f[at + k] = g[k] /\ g[k] \in S
  BY <1>1, HasAt
<1> HIDE DEF n
<1>3. \A k \in at + 1 .. at + n : f[k] \in S
  <2> SUFFICES ASSUME NEW k \in at + 1 .. at + n PROVE f[k] \in S
    OBVIOUS
  <2>1. k - at \in 1 .. n /\ at + (k - at) = k
    BY <1>1
  <2> QED
    BY <1>2, <2>1
<1>4. /\ t \in Seq(S)
      /\ Len(t) = IF at + 1 <= at + n THEN (at + n) - (at + 1) + 1 ELSE 0
      /\ \A i \in 1 .. (at + n) - (at + 1) + 1 : t[i] = f[(at + 1) + i - 1]
  BY <1>1, <1>3, SubSeqProperties, SMTT(40)
<1> HIDE DEF t
<1>5. Len(t) = n
  BY <1>1, <1>4
<1>6. \A k \in 1 .. n : t[k] = g[k]
  <2> SUFFICES ASSUME NEW k \in 1 .. n PROVE t[k] = g[k]
    OBVIOUS
  <2>1. k \in 1 .. (at + n) - (at + 1) + 1 /\ (at + 1) + k - 1 = at + k
    BY <1>1
  <2> QED
    BY <1>2, <1>4, <2>1
<1>7. t = g
  <2>1. t \in Seq(S) /\ g \in Seq(S) /\ Len(t) = Len(g) /\ \A k \in 1 .. Len(t) : t[k] = g[k]
    BY <1>4, <1>5, <1>6 DEF n
  <2> QED
    BY <2>1, SeqEqual
<1> QED
  BY <1>7 DEF t, n

\* The first and the last of some numbers
LEMMA Extremes ==
  ASSUME NEW n \in Nat, NEW K, K \subseteq 1 .. n, K # {}
  PROVE  (\E k \in K : \A j \in K : k <= j) /\ (\E k \in K : \A j \in K : k >= j)
<1>1. ASSUME NEW L, L \subseteq Nat, L # {} PROVE \E k \in L : \A j \in L : k <= j
  <2>1. PICK x \in L : \A y \in L : ~(<<y, x>> \in OpToRel(<, Nat))
    BY <1>1, WFMin, NatLessThanWellFounded, ZenonT(40)
  <2>2. \A y \in L : ~(y < x)
    BY <1>1, <2>1, Zenon DEF OpToRel
  <2>3. \A y \in L : x <= y
    BY <1>1, <2>2
  <2> QED
    BY <2>3
<1>2. \E k \in K : \A j \in K : k <= j
  <2>1. K \subseteq Nat
    OBVIOUS
  <2> QED
    BY <1>1, <2>1
<1> DEFINE L == {n - k : k \in K}
<1>3. L \subseteq Nat /\ L # {}
  <2>1. \A k \in K : n - k \in Nat
    OBVIOUS
  <2>2. PICK k \in K : TRUE
    OBVIOUS
  <2>3. n - k \in L
    OBVIOUS
  <2> QED
    BY <2>1, <2>3
<1> HIDE DEF L
<1>4. PICK l \in L : \A j \in L : l <= j
  BY <1>1, <1>3
<1>5. PICK k \in K : l = n - k
  BY DEF L
<1>6. ASSUME NEW j \in K PROVE k >= j
  <2>1. n - j \in L
    BY DEF L
  <2>2. n - k <= n - j
    BY <1>4, <1>5, <2>1
  <2> QED
    BY <2>2
<1> QED
  BY <1>2, <1>6

\* A blank before a value does not matter.
LEMMA TrimmedBlank ==
  ASSUME NEW v, v \in Seq(Octets)
  PROVE  Trimmed(<<SP>> \o v) = Trimmed(v)
<1> DEFINE w == <<SP>> \o v
           K == {k \in DOMAIN v : ~IsBlank(v[k])}
           M == {k \in DOMAIN w : ~IsBlank(w[k])}
           first(L) == CHOOSE k \in L : \A j \in L : k <= j
           last(L) == CHOOSE k \in L : \A j \in L : k >= j
<1>1. Len(v) \in Nat /\ DOMAIN v = 1 .. Len(v)
  OBVIOUS
<1>2. /\ w \in Seq(Octets) /\ Len(w) = Len(v) + 1 /\ w[1] = SP
      /\ \A k \in 1 .. Len(v) : w[k + 1] = v[k]
  <2>1. <<SP>> \in Seq(Octets) /\ Len(<<SP>>) = 1 /\ <<SP>>[1] = SP
    BY DEF SP, Octets
  <2>2. /\ w \in Seq(Octets) /\ Len(w) = Len(<<SP>>) + Len(v)
        /\ \A k \in 1 .. Len(<<SP>>) : w[k] = <<SP>>[k]
        /\ \A k \in Len(<<SP>>) + 1 .. Len(<<SP>>) + Len(v) : w[k] = v[k - Len(<<SP>>)]
    BY <2>1, Concat
  <2>3. w \in Seq(Octets) /\ Len(w) = Len(v) + 1 /\ w[1] = SP
    BY <1>1, <2>1, <2>2
  <2>4. ASSUME NEW k \in 1 .. Len(v) PROVE w[k + 1] = v[k]
    <3>1. k + 1 \in Len(<<SP>>) + 1 .. Len(<<SP>>) + Len(v) /\ (k + 1) - Len(<<SP>>) = k
      BY <1>1, <2>1
    <3> QED
      BY <2>2, <3>1
  <2> QED
    BY <2>3, <2>4
<1>3. DOMAIN w = 1 .. Len(v) + 1
  BY <1>2
<1>4. \A k \in 1 .. Len(v) : k \in K <=> k + 1 \in M
  BY <1>1, <1>2, <1>3
<1>5. 1 \notin M
  BY <1>2 DEF IsBlank
<1>6. K \subseteq 1 .. Len(v) /\ M \subseteq 2 .. Len(v) + 1
  BY <1>1, <1>3, <1>5
<1>7. \A k \in M : k - 1 \in K
  <2> SUFFICES ASSUME NEW k \in M PROVE k - 1 \in K
    OBVIOUS
  <2>1. k - 1 \in 1 .. Len(v) /\ (k - 1) + 1 = k
    BY <1>1, <1>6
  <2> QED
    BY <1>4, <2>1
<1>8. \A k \in K : k + 1 \in M
  BY <1>4, <1>6
<1> HIDE DEF K, M, w
<1>9. CASE K = {}
  <2>1. M = {}
    BY <1>7, <1>9
  <2> QED
    BY <1>9, <2>1 DEF Trimmed, K, M, w
<1>10. CASE K # {}
  <2>0. PICK one \in K : TRUE
    BY <1>10
  <2>1. M # {} /\ M \subseteq 1 .. Len(v) + 1 /\ Len(v) + 1 \in Nat
    <3>1. one + 1 \in M
      BY <1>8, <2>0
    <3>2. \A j \in 2 .. Len(v) + 1 : j \in 1 .. Len(v) + 1
      BY <1>1
    <3> QED
      BY <1>1, <1>6, <3>1, <3>2
  <2>2. first(K) \in K /\ \A j \in K : first(K) <= j
    BY <1>1, <1>6, <1>10, Extremes
  <2>3. last(K) \in K /\ \A j \in K : last(K) >= j
    BY <1>1, <1>6, <1>10, Extremes
  <2>4. first(M) \in M /\ \A j \in M : first(M) <= j
    <3>1. \E j \in M : \A i \in M : j <= i
      BY <2>1, Extremes
    <3> QED
      BY <3>1
  <2>5. last(M) \in M /\ \A j \in M : last(M) >= j
    <3>1. \E j \in M : \A i \in M : j >= i
      BY <2>1, Extremes
    <3> QED
      BY <3>1
  <2> HIDE DEF first, last
  <2>20. K \subseteq Nat /\ M \subseteq Nat
    BY <1>1, <1>6, <2>1
  <2>6. first(M) = first(K) + 1
    <3>1. first(M) <= first(K) + 1
      BY <1>8, <2>2, <2>4
    <3>2. first(K) <= first(M) - 1
      BY <1>7, <2>2, <2>4
    <3>3. first(M) \in Nat /\ first(K) \in Nat
      BY <2>2, <2>4, <2>20
    <3> QED
      BY <3>1, <3>2, <3>3
  <2>7. last(M) = last(K) + 1
    <3>1. last(M) >= last(K) + 1
      BY <1>8, <2>3, <2>5
    <3>2. last(K) >= last(M) - 1
      BY <1>7, <2>3, <2>5
    <3>3. last(M) \in Nat /\ last(K) \in Nat
      BY <2>3, <2>5, <2>20
    <3> QED
      BY <3>1, <3>2, <3>3
  <2>8. first(K) \in 1 .. Len(v) /\ last(K) \in 1 .. Len(v) /\ first(K) <= last(K)
    BY <1>6, <2>2, <2>3
  <2> DEFINE f == first(K)
             l == last(K)
             part == SubSeq(v, f, l)
  <2> HIDE DEF f, l
  <2>9. f \in 1 .. Len(v) /\ l \in 1 .. Len(v) /\ f <= l
    BY <2>8 DEF f, l
  <2>10. /\ part \in Seq(Octets) /\ Len(part) = (IF f <= l THEN l - f + 1 ELSE 0)
         /\ \A i \in 1 .. l - f + 1 : part[i] = v[f + i - 1]
    <3>1. \A i \in f .. l : v[i] \in Octets
      BY <1>1, <2>9
    <3> QED
      BY <2>9, <3>1, SubSeqProperties
  <2> HIDE DEF part
  <2>11. Has(w, f, part)
    <3> SUFFICES ASSUME NEW k \in f + 1 .. f + Len(part) PROVE w[k] = part[k - f]
      BY DEF Has
    <3>1. k - f \in 1 .. l - f + 1 /\ k - 1 \in 1 .. Len(v) /\ (k - 1) + 1 = k /\ f + (k - f) - 1 = k - 1
      BY <1>1, <2>9, <2>10
    <3>2. w[k] = v[k - 1]
      BY <1>2, <3>1
    <3> QED
      BY <2>10, <3>1, <3>2
  <2>12. SubSeq(w, f + 1, f + Len(part)) = part
    BY <2>9, <2>10, <2>11, Cut
  <2>13. f + Len(part) = l + 1
    BY <2>9, <2>10
  <2>14. SubSeq(w, first(M), last(M)) = SubSeq(v, first(K), last(K))
    BY <2>6, <2>7, <2>12, <2>13 DEF f, l, part
  <2>15. Trimmed(v) = SubSeq(v, first(K), last(K))
    BY <1>10, Zenon DEF Trimmed, K, first, last
  <2>16. Trimmed(w) = SubSeq(w, first(M), last(M))
    BY <2>1, Zenon DEF Trimmed, M, first, last
  <2> QED
    BY <2>14, <2>15, <2>16 DEF w
<1> QED
  BY <1>9, <1>10

\* A number is one.
LEMMA DecimalType ==
  ASSUME NEW digits, digits \in Seq(Octets), IsNumber(digits)
  PROVE  Decimal(digits) \in Nat
<1> DEFINE n == Len(digits)
           IsSum(g) == g = [k \in 0 .. n |-> IF k = 0 THEN 0 ELSE 10 * g[k - 1] + digits[k] - Digit(0)]
<1>1. n \in Nat /\ \A k \in 1 .. n : digits[k] - Digit(0) \in Nat /\ digits[k] \in Nat /\ Digit(0) \in Nat
  BY DEF IsNumber, Digit, Octets
<1> DEFINE step == [p \in Nat \X Nat |-> IF p[1] + 1 \in 1 .. n THEN 10 * p[2] + digits[p[1] + 1] - Digit(0) ELSE 0]
<1>2. step \in [Nat \X Nat -> Nat]
  <2>1. \A m \in Nat : \A k \in 1 .. n : 10 * m + digits[k] - Digit(0) \in Nat
    BY <1>1
  <2> HIDE DEF n
  <2> QED
    BY <2>1
<1>3. \A k \in 0 .. n - 1 : \A m \in Nat : step[<<k, m>>] = 10 * m + digits[k + 1] - Digit(0)
  BY <1>1, SMTT(40)
<1> HIDE DEF step
<1>4. HasStates(Nat, 0, step, n)
  BY <1>1, <1>2, FirstStates
<1>5. PICK g \in [0 .. n -> Nat] : g[0] = 0 /\ \A k \in 0 .. n - 1 : g[k + 1] = step[<<k, g[k]>>]
  BY <1>4, Zenon DEF HasStates
<1> HIDE DEF n
<1>6. IsSum(g)
  <2>1. ASSUME NEW k \in 0 .. n PROVE g[k] = IF k = 0 THEN 0 ELSE 10 * g[k - 1] + digits[k] - Digit(0)
    <3>1. CASE k = 0
      BY <1>5, <3>1
    <3>2. CASE k # 0
      <4>1. k - 1 \in 0 .. n - 1 /\ (k - 1) + 1 = k /\ k - 1 \in 0 .. n
        BY <1>1, <3>2
      <4>2. g[(k - 1) + 1] = step[<<k - 1, g[k - 1]>>] /\ g[k - 1] \in Nat
        BY <1>5, <4>1
      <4>3. step[<<k - 1, g[k - 1]>>] = 10 * g[k - 1] + digits[(k - 1) + 1] - Digit(0)
        BY <1>3, <4>1, <4>2
      <4> QED
        BY <3>2, <4>1, <4>2, <4>3
    <3> QED
      BY <3>1, <3>2
  <2>2. g = [k \in 0 .. n |-> g[k]]
    OBVIOUS
  <2> QED
    BY <2>1, <2>2
<1> DEFINE f == CHOOSE h : IsSum(h)
<1>7. IsSum(f)
  BY <1>6
<1> HIDE DEF f
<1>8. f[0] = 0 /\ \A k \in 0 .. n - 1 : f[k + 1] = 10 * f[k] + digits[k + 1] - Digit(0)
  <2>1. \A k \in 0 .. n - 1 : k + 1 \in 0 .. n /\ k + 1 # 0 /\ (k + 1) - 1 = k
    BY <1>1
  <2> QED
    BY <1>1, <1>7, <2>1
<1> DEFINE T == {k \in Nat : k <= n => f[k] \in Nat}
<1>9. 0 \in T
  BY <1>8
<1>10. ASSUME NEW k \in Nat, k \in T PROVE k + 1 \in T
  <2> SUFFICES ASSUME k + 1 <= n PROVE f[k + 1] \in Nat
    OBVIOUS
  <2>1. k \in 0 .. n - 1 /\ k + 1 \in 1 .. n /\ f[k] \in Nat
    BY <1>1, <1>10
  <2>2. f[k + 1] = 10 * f[k] + digits[k + 1] - Digit(0)
    BY <1>8, <2>1
  <2> QED
    BY <1>1, <2>1, <2>2, SMTT(40)
<1> HIDE DEF T
<1>11. n \in T
  BY <1>1, <1>9, <1>10, NatInduct
<1>12. f[n] \in Nat
  BY <1>1, <1>11 DEF T
<1> QED
  BY <1>12 DEF Decimal, f, n

-----------------------------------------------------------------------------
(* Sessions                                                                *)

\* The types of a session. Its tokens are in the buffer, its length and its type may be missing.
Readers == [state : ReaderStates, substate : Substates]
Handlings == [uri : Seq(Int), type : Seq(Seq(Octets)), body : Seq(Int)]
Sessions ==
  [script : Scripts, numSent : Nat, wire : Seq(Int), sentNonce : Nat, numAnswered : Nat,
   state : {"Reading", "Writing", "Closed", "Failed"}, hasKeys : BOOLEAN, isSecured : BOOLEAN, nonce : Nat,
   data : [1 .. Capacity -> Int], position : Nat, limit : Nat, mark : Nat,
   reader : Readers, readerPosition : Nat, parserError : BOOLEAN,
   tokens : [TokenNames -> Tokens], contentLength : Seq(Nat), contentType : Seq(Seq(Octets)),
   handled : Seq(Handlings), sealed : Seq(BOOLEAN)]

\* What reading a request leaves alone
SameButReading(x, y) ==
  /\ y.script = x.script /\ y.numSent = x.numSent /\ y.wire = x.wire /\ y.sentNonce = x.sentNonce
  /\ y.numAnswered = x.numAnswered /\ y.state = x.state /\ y.hasKeys = x.hasKeys /\ y.isSecured = x.isSecured
  /\ y.nonce = x.nonce /\ y.data = x.data /\ y.position = x.position /\ y.limit = x.limit /\ y.mark = x.mark
  /\ y.handled = x.handled /\ y.sealed = x.sealed

\* What util_http_reader_read has returned is added to the tokens of the session.
LEMMA MovedFacts ==
  ASSUME NEW x \in Sessions, NEW z \in Ways,
         \A name \in TokenNames : Now(z, x.tokens[name], name) \in Tokens,
         \A name \in TokenNames : z.token # NoToken /\ name = TokenOf(z.reader.state) =>
           z.token.at \in Nat /\ (x.tokens[name] = NoToken \/ x.tokens[name].at + x.tokens[name].n = z.token.at)
  PROVE  LET m == Moved(x, z)
         IN  /\ m \in Sessions /\ SameButReading(x, m)
             /\ m.reader = z.reader /\ m.readerPosition = z.o /\ m.parserError = x.parserError
             /\ m.contentLength = x.contentLength /\ m.contentType = x.contentType
             /\ \A name \in TokenNames : m.tokens[name] = Now(z, x.tokens[name], name)
<1> DEFINE w == [x EXCEPT !.reader = z.reader, !.readerPosition = z.o]
           name == TokenOf(z.reader.state)
           m == Moved(x, z)
<1>1. z.reader \in Readers /\ z.o \in Nat /\ z.token \in [at : Int, n : Int]
  BY DEF Ways, Readers
<1>2. /\ w \in Sessions /\ SameButReading(x, w)
      /\ w.reader = z.reader /\ w.readerPosition = z.o /\ w.parserError = x.parserError
      /\ w.contentLength = x.contentLength /\ w.contentType = x.contentType /\ w.tokens = x.tokens
  BY <1>1 DEF Sessions, SameButReading
<1>3. m = IF name = "none" THEN w ELSE Updated(w, name, z.token)
  BY DEF Moved
<1>4. name \in TokenNames \cup {"none"} /\ "none" \notin TokenNames
  BY DEF TokenOf, TokenNames
<1> HIDE DEF w, m, name
<1>5. CASE name = "none" \/ z.token = NoToken
  <2>1. m = w
    BY <1>3, <1>5 DEF Updated
  <2>2. \A n \in TokenNames : w.tokens[n] = Now(z, x.tokens[n], n)
    BY <1>2, <1>4, <1>5 DEF Now, name
  <2> QED
    BY <1>2, <2>1, <2>2 DEF m
<1>6. CASE name # "none" /\ z.token # NoToken
  <2> DEFINE token == x.tokens[name]
             longer == IF token = NoToken THEN z.token ELSE [at |-> token.at, n |-> token.n + z.token.n]
             t == [x.tokens EXCEPT ![name] = longer]
  <2>1. name \in TokenNames
    BY <1>4, <1>6
  <2>2. token = NoToken \/ token.at + token.n = z.token.at
    BY <1>6, <2>1 DEF name
  <2>3. m = [w EXCEPT !.tokens = [@ EXCEPT ![name] = longer]]
    BY <1>2, <1>3, <1>6, <2>2 DEF Updated
  <2>4. longer = Now(z, token, name)
    <3>1. z.token = [at |-> z.token.at, n |-> z.token.n]
      BY <1>1
    <3> QED
      BY <1>6, <3>1 DEF Now, Extended, name
  <2>5. longer \in Tokens
    BY <2>1, <2>4
  <2> HIDE DEF longer
  <2>6. t \in [TokenNames -> Tokens] /\ \A n \in TokenNames : t[n] = IF n = name THEN longer ELSE x.tokens[n]
    BY <2>1, <2>5 DEF Sessions
  <2>7. m = [w EXCEPT !.tokens = t]
    BY <1>2, <2>3
  <2> HIDE DEF t
  <2>8. /\ m \in Sessions /\ m.tokens = t /\ SameButReading(w, m)
        /\ m.reader = w.reader /\ m.readerPosition = w.readerPosition /\ m.parserError = w.parserError
        /\ m.contentLength = w.contentLength /\ m.contentType = w.contentType
    BY <1>2, <2>6, <2>7 DEF Sessions, SameButReading
  <2>9. ASSUME NEW n \in TokenNames PROVE m.tokens[n] = Now(z, x.tokens[n], n)
    <3>1. CASE n = name
      BY <2>4, <2>6, <2>8, <3>1
    <3>2. CASE n # name
      BY <2>6, <2>8, <3>2 DEF Now, name
    <3> QED
      BY <3>1, <3>2
  <2>10. SameButReading(x, m)
    BY <1>2, <2>8 DEF SameButReading
  <2> QED
    BY <1>2, <2>8, <2>9, <2>10 DEF m
<1> QED
  BY <1>5, <1>6

\* The bytes of a header that has arrived: its name and its value, a blank before it
LEMMA HeaderBytes ==
  ASSUME NEW q, IsRequest(q), NEW i \in 1 .. 2, HasLine(q, i), NEW b, NEW hi \in Nat, Arrived(q, b, hi),
         LineAt(q, i) + Len(ValueOf(q, i)) + 4 <= hi
  PROVE  LET at == LineAt(q, i)
             value == ValueOf(q, i)
         IN  /\ SubSeq(b, at + 1, at + 2) = NameOf(i)
             /\ SubSeq(b, at + 4, at + 4 + Len(value)) = <<SP>> \o value
<1> DEFINE at == LineAt(q, i)
           value == ValueOf(q, i)
           V == Len(value)
           f == Heading(q)
           blank == <<SP>> \o value
<1>1. at \in Nat /\ V \in Nat /\ value \in Seq(Octets) /\ at + V + 6 <= Len(f) /\ Len(f) \in Nat
  <2>1. value \in Seq(Octets)
    BY RequestTypes
  <2>2. at \in Nat /\ LineAt(q, i + 1) = at + V + 6
    BY LineAts
  <2>3. LineAt(q, i + 1) <= LineAt(q, 3) /\ LineAt(q, 3) \in Nat
    BY LineAts, SMTT(40)
  <2>4. Len(f) = LineAt(q, 3) + 2
    BY HeadingPieces
  <2> QED
    BY <2>1, <2>2, <2>3, <2>4
<1>2. /\ f[at + 1] = NameOf(i)[1] /\ f[at + 2] = NameOf(i)[2] /\ f[at + 4] = 3
      /\ \A k \in 5 .. V + 4 : f[at + k] = value[k - 4]
  BY HeaderChars
<1>3. \A k \in 1 .. V + 4 : b[at + k] = f[at + k]
  <2> SUFFICES ASSUME NEW k \in 1 .. V + 4 PROVE b[at + k] = f[at + k]
    OBVIOUS
  <2>1. at + k \in 1 .. hi /\ at + k <= Len(f)
    BY <1>1
  <2> QED
    BY <2>1 DEF Arrived
<1>4. NameOf(i) \in Seq(Octets) /\ Len(NameOf(i)) = 2
  BY CharTypes DEF NameOf
<1>5. /\ blank \in Seq(Octets) /\ Len(blank) = V + 1 /\ blank[1] = 3
      /\ \A k \in 2 .. V + 1 : blank[k] = value[k - 1]
  <2>1. <<SP>> \in Seq(Octets) /\ Len(<<SP>>) = 1 /\ <<SP>>[1] = 3
    BY DEF SP, Octets
  <2>2. /\ blank \in Seq(Octets) /\ Len(blank) = Len(<<SP>>) + Len(value)
        /\ \A k \in 1 .. Len(<<SP>>) : blank[k] = <<SP>>[k]
        /\ \A k \in Len(<<SP>>) + 1 .. Len(<<SP>>) + Len(value) : blank[k] = value[k - Len(<<SP>>)]
    BY <1>1, <2>1, Concat
  <2> QED
    BY <1>1, <2>1, <2>2
<1> HIDE DEF at, value, V, f, blank
<1>6. Has(b, at, NameOf(i))
  <2>1. \A k \in 1 .. 2 : b[at + k] = NameOf(i)[k]
    BY <1>1, <1>2, <1>3, SMTT(40)
  <2>2. \A k \in at + 1 .. at + 2 : k - at \in 1 .. 2 /\ at + (k - at) = k
    BY <1>1
  <2>3. \A k \in at + 1 .. at + 2 : b[k] = NameOf(i)[k - at]
    BY <2>1, <2>2
  <2> QED
    BY <1>4, <2>3 DEF Has
<1>7. Has(b, at + 3, blank)
  <2>1. \A k \in 1 .. V + 1 : b[at + (k + 3)] = blank[k]
    <3> SUFFICES ASSUME NEW k \in 1 .. V + 1 PROVE b[at + (k + 3)] = blank[k]
      OBVIOUS
    <3>1. b[at + (k + 3)] = f[at + (k + 3)]
      BY <1>1, <1>3
    <3>2. CASE k = 1
      BY <1>2, <1>5, <3>1, <3>2
    <3>3. CASE k # 1
      <4>1. k + 3 \in 5 .. V + 4 /\ k \in 2 .. V + 1 /\ (k + 3) - 4 = k - 1
        BY <1>1, <3>3
      <4> QED
        BY <1>2, <1>5, <3>1, <4>1
    <3> QED
      BY <3>2, <3>3
  <2>2. \A k \in (at + 3) + 1 .. (at + 3) + (V + 1) : k - (at + 3) \in 1 .. V + 1 /\ at + ((k - (at + 3)) + 3) = k
    BY <1>1
  <2>3. \A k \in (at + 3) + 1 .. (at + 3) + (V + 1) : b[k] = blank[k - (at + 3)]
    BY <2>1, <2>2
  <2> QED
    BY <1>5, <2>3 DEF Has
<1>8. SubSeq(b, at + 1, at + Len(NameOf(i))) = NameOf(i)
  BY <1>1, <1>4, <1>6, Cut
<1>9. SubSeq(b, (at + 3) + 1, (at + 3) + Len(blank)) = blank
  BY <1>1, <1>5, <1>7, Cut
<1>10. (at + 3) + 1 = at + 4 /\ (at + 3) + Len(blank) = at + 4 + V
  BY <1>1, <1>5
<1> QED
  BY <1>4, <1>8, <1>9, <1>10 DEF at, value, V, blank

\* The value of Content-Length
LengthOf(q) == Trimmed(q.length[1])

\* What is known of a request of which these lines have been read
KnownLength(q, lines) == IF 2 \in lines THEN <<Decimal(LengthOf(q))>> ELSE <<>>
KnownType(q, lines) == IF 1 \in lines /\ Trimmed(q.type[1]) = JSON THEN <<JSON>> ELSE <<>>

\* These headers are not refused.
Accepted(q, lines) ==
  /\ 1 \in lines => Trimmed(q.type[1]) # <<>>
  /\ 2 \in lines => IsNumber(LengthOf(q)) /\ Decimal(LengthOf(q)) <= SizeMax

\* Values of headers are sequences of octets, blanks around them or not.
LEMMA ValueTypes ==
  ASSUME NEW q, IsRequest(q), NEW i \in 1 .. 2, HasLine(q, i)
  PROVE  Trimmed(ValueOf(q, i)) \in Seq(Octets)
<1> DEFINE v == ValueOf(q, i)
           K == {k \in DOMAIN v : ~IsBlank(v[k])}
           first == CHOOSE k \in K : \A j \in K : k <= j
           last == CHOOSE k \in K : \A j \in K : k >= j
<1>1. v \in Seq(Octets)
  BY RequestTypes
<1> HIDE DEF v
<1>2. CASE K = {}
  BY <1>2 DEF Trimmed, v
<1>3. CASE K # {}
  <2>1. K \subseteq 1 .. Len(v) /\ Len(v) \in Nat
    BY <1>1
  <2> HIDE DEF K
  <2>2. first \in K /\ last \in K
    BY <1>3, <2>1, Extremes
  <2> HIDE DEF first, last
  <2>3. first \in 1 .. Len(v) /\ last \in 1 .. Len(v)
    BY <2>1, <2>2
  <2>4. \A k \in first .. last : v[k] \in Octets
    BY <1>1, <2>1, <2>3
  <2>5. SubSeq(v, first, last) \in Seq(Octets)
    BY <2>1, <2>3, <2>4, SubSeqProperties
  <2>6. Trimmed(v) = SubSeq(v, first, last)
    BY <1>3, Zenon DEF Trimmed, K, first, last
  <2> QED
    BY <2>5, <2>6 DEF v
<1> QED
  BY <1>2, <1>3

\* A header has been read, all lines being those that are read by now.
HeaderRead(q, all, x, y) ==
  /\ y \in Sessions /\ SameButReading(x, y) /\ y.reader = x.reader /\ y.readerPosition = x.readerPosition
  /\ \A name \in TokenNames :
       y.tokens[name] = IF name \in {"HEADER_NAME", "HEADER_VALUE"} THEN NoToken ELSE x.tokens[name]
  /\ \/ y.parserError /\ IsRefused(q)
     \/ /\ ~y.parserError /\ Accepted(q, all)
        /\ y.contentLength = KnownLength(q, all) /\ y.contentType = KnownType(q, all)

\* A header that has not been seen before is read, or it is refused.
LEMMA ReadHeaderFacts ==
  ASSUME NEW q, IsRequest(q), NEW i \in 1 .. 2, HasLine(q, i), NEW x \in Sessions, NEW seen,
         Arrived(q, x.data, x.position), LineAt(q, i) + Len(ValueOf(q, i)) + 4 <= x.position,
         x.tokens["HEADER_NAME"] = [at |-> LineAt(q, i), n |-> 2],
         x.tokens["HEADER_VALUE"] = [at |-> LineAt(q, i) + 3, n |-> Len(ValueOf(q, i)) + 1],
         NEW lines, i \notin lines, ~x.parserError, x.contentLength = KnownLength(q, lines), x.contentType = KnownType(q, lines),
         Accepted(q, lines), NameOf(i) \notin seen
  PROVE  HeaderRead(q, lines \cup {i}, x, ReadHeader(x, seen)) /\ Bytes(x, "HEADER_NAME") = NameOf(i)
<1> DEFINE at == LineAt(q, i)
           value == ValueOf(q, i)
           all == lines \cup {i}
           trimmed == Trimmed(value)
           isFine == ~(i = 1 /\ trimmed = <<>>) /\ ~(i = 2 /\ ~(IsNumber(trimmed) /\ Decimal(trimmed) <= SizeMax))
<1>1. at \in Nat /\ Len(value) \in Nat /\ value \in Seq(Octets)
  BY RequestTypes, LineAts, SMTT(40)
<1>2. SubSeq(x.data, at + 1, at + 2) = NameOf(i) /\ SubSeq(x.data, at + 4, at + 4 + Len(value)) = <<SP>> \o value
  <2>1. x.position \in Nat
    BY DEF Sessions
  <2> QED
    BY <2>1, HeaderBytes
<1>3. Bytes(x, "HEADER_NAME") = NameOf(i)
  BY <1>2 DEF Bytes
<1>4. Bytes(x, "HEADER_VALUE") = <<SP>> \o value
  <2> DEFINE token == x.tokens["HEADER_VALUE"]
  <2>1. token.at + 1 = at + 4 /\ token.at + token.n = at + 4 + Len(value)
    BY <1>1
  <2>2. Bytes(x, "HEADER_VALUE") = SubSeq(x.data, token.at + 1, token.at + token.n)
    BY DEF Bytes
  <2> HIDE DEF token
  <2> QED
    BY <1>2, <2>1, <2>2
<1>5. Trimmed(Bytes(x, "HEADER_VALUE")) = trimmed /\ trimmed \in Seq(Octets)
  BY <1>1, <1>4, TrimmedBlank, ValueTypes
<1>6. x.tokens["HEADER_NAME"] # NoToken
  BY <1>1 DEF NoToken
<1> DEFINE z == IF i = 2 THEN ReadContentLength(x) ELSE ReadContentType(x)
           t == [x.tokens EXCEPT !["HEADER_NAME"] = NoToken, !["HEADER_VALUE"] = NoToken]
<1>7. NameOf(1) = ContentType /\ NameOf(2) = ContentLength /\ ContentType # ContentLength
  BY DEF NameOf, ContentType, ContentLength
<1>8. ReadHeader(x, seen) = [z EXCEPT !.tokens = [@ EXCEPT !["HEADER_NAME"] = NoToken, !["HEADER_VALUE"] = NoToken]]
  <2>1. CASE i = 1
    BY <1>3, <1>6, <1>7, <2>1, Zenon DEF ReadHeader
  <2>2. CASE i = 2
    BY <1>3, <1>6, <1>7, <2>2, Zenon DEF ReadHeader
  <2> QED
    BY <2>1, <2>2
<1>9. /\ z \in Sessions /\ SameButReading(x, z) /\ z.reader = x.reader /\ z.readerPosition = x.readerPosition
      /\ z.tokens = x.tokens
      /\ \/ z.parserError /\ IsRefused(q)
         \/ /\ ~z.parserError /\ Accepted(q, all)
            /\ z.contentLength = KnownLength(q, all) /\ z.contentType = KnownType(q, all)
  <2> HIDE DEF trimmed
  <2>1. CASE i = 1
    <3>1. value = q.type[1] /\ q.type # <<>>
      BY <2>1 DEF ValueOf, HasLine
    <3>2. z = IF trimmed = <<>> THEN [x EXCEPT !.parserError = TRUE]
              ELSE [x EXCEPT !.contentType = IF trimmed = JSON THEN <<trimmed>> ELSE <<>>]
      BY <1>5, <2>1 DEF ReadContentType
    <3>3. CASE trimmed = <<>>
      <4>1. z = [x EXCEPT !.parserError = TRUE]
        BY <3>2, <3>3
      <4>2. IsRefused(q)
        BY <3>1, <3>3 DEF IsRefused, trimmed
      <4> HIDE DEF z
      <4> QED
        BY <4>1, <4>2 DEF Sessions, SameButReading
    <3>4. CASE trimmed # <<>>
      <4> DEFINE type == IF trimmed = JSON THEN <<trimmed>> ELSE <<>>
      <4>1. z = [x EXCEPT !.contentType = type]
        BY <3>2, <3>4
      <4>2. type \in Seq(Seq(Octets))
        BY <1>5
      <4>3. type = KnownType(q, all)
        BY <2>1, <3>1 DEF KnownType, trimmed
      <4>4. Accepted(q, all)
        BY <2>1, <3>1, <3>4 DEF Accepted, trimmed
      <4>5. KnownLength(q, all) = KnownLength(q, lines)
        BY <2>1 DEF KnownLength
      <4> HIDE DEF z, type
      <4>6. /\ z \in Sessions /\ SameButReading(x, z) /\ z.reader = x.reader /\ z.readerPosition = x.readerPosition
            /\ z.tokens = x.tokens /\ z.parserError = x.parserError /\ z.contentLength = x.contentLength
            /\ z.contentType = type
        BY <4>1, <4>2 DEF Sessions, SameButReading
      <4> QED
        BY <4>3, <4>4, <4>5, <4>6
    <3> QED
      BY <3>3, <3>4
  <2>2. CASE i = 2
    <3>1. value = q.length[1] /\ q.length # <<>> /\ i # 1
      BY <2>2 DEF ValueOf, HasLine
    <3>2. x.contentLength = <<>>
      BY <2>2 DEF KnownLength
    <3> DEFINE isTaken == IsNumber(trimmed) /\ Decimal(trimmed) <= SizeMax
    <3>3. z = IF isTaken THEN [x EXCEPT !.contentLength = <<Decimal(trimmed)>>] ELSE [x EXCEPT !.parserError = TRUE]
      BY <1>5, <2>2, <3>2, Zenon DEF ReadContentLength
    <3>4. CASE ~isTaken
      <4>1. z = [x EXCEPT !.parserError = TRUE]
        BY <3>3, <3>4
      <4>2. IsRefused(q)
        <5>1. ~IsNumber(trimmed) \/ ~(Decimal(trimmed) <= SizeMax)
          BY <3>4
        <5>2. IsNumber(trimmed) => Decimal(trimmed) \in Nat
          BY <1>5, DecimalType DEF IsNumber
        <5>3. SizeMax \in Nat
          BY IPSessionInputAssumption
        <5> QED
          BY <3>1, <5>1, <5>2, <5>3 DEF IsRefused, trimmed
      <4> HIDE DEF z
      <4> QED
        BY <4>1, <4>2 DEF Sessions, SameButReading
    <3>5. CASE isTaken
      <4> DEFINE length == <<Decimal(trimmed)>>
      <4>1. z = [x EXCEPT !.contentLength = length]
        BY <3>3, <3>5
      <4>2. length \in Seq(Nat)
        <5>1. Decimal(trimmed) \in Nat
          BY <1>5, <3>5, DecimalType DEF IsNumber
        <5> QED
          BY <5>1
      <4>3. length = KnownLength(q, all)
        BY <2>2, <3>1 DEF KnownLength, LengthOf, trimmed
      <4>4. Accepted(q, all)
        BY <2>2, <3>1, <3>5 DEF Accepted, LengthOf, trimmed
      <4>5. KnownType(q, all) = KnownType(q, lines)
        BY <2>2 DEF KnownType
      <4> HIDE DEF z, length
      <4>6. /\ z \in Sessions /\ SameButReading(x, z) /\ z.reader = x.reader /\ z.readerPosition = x.readerPosition
            /\ z.tokens = x.tokens /\ z.parserError = x.parserError /\ z.contentType = x.contentType
            /\ z.contentLength = length
        BY <4>1, <4>2 DEF Sessions, SameButReading
      <4> QED
        BY <4>3, <4>4, <4>5, <4>6
    <3> QED
      BY <3>4, <3>5
  <2> QED
    BY <2>1, <2>2
<1> HIDE DEF z
<1>10. t \in [TokenNames -> Tokens] /\ \A name \in TokenNames : t[name] = IF name \in {"HEADER_NAME", "HEADER_VALUE"} THEN NoToken ELSE x.tokens[name]
  BY DEF Sessions, Tokens, TokenNames
<1> HIDE DEF t
<1>11. ReadHeader(x, seen) = [z EXCEPT !.tokens = t]
  BY <1>8, <1>9 DEF t, Sessions
<1> DEFINE y == ReadHeader(x, seen)
<1>12. /\ y \in Sessions /\ SameButReading(z, y) /\ y.reader = z.reader /\ y.readerPosition = z.readerPosition
       /\ y.tokens = t /\ y.parserError = z.parserError /\ y.contentLength = z.contentLength /\ y.contentType = z.contentType
  BY <1>9, <1>10, <1>11, ZenonT(40) DEF Sessions, SameButReading
<1> HIDE DEF y
<1>13. SameButReading(x, y)
  BY <1>9, <1>12 DEF SameButReading
<1> QED
  BY <1>3, <1>9, <1>10, <1>12, <1>13 DEF y, HeaderRead

-----------------------------------------------------------------------------
(* read_http                                                               *)

\* A turn of the loop: the session, and the headers seen in this pass over the buffer
Turns == [x : Sessions, seen : SUBSET {ContentType, ContentLength}]

\* A session whose reader is in this place of a request
ReadingOf(q, x, i) ==
  LET state == Settled(x.reader.state)
      lines == LinesRead(q, state, i)
  IN  /\ Place(q, x.reader, x.readerPosition, i) /\ ~x.parserError
      /\ \A name \in TokenNames : x.tokens[name] = Found(q, state, x.readerPosition, i, name)
      /\ x.contentLength = KnownLength(q, lines) /\ x.contentType = KnownType(q, lines) /\ Accepted(q, lines)

\* The headers that have been seen have been read.
SeenOf(q, y, i) == \A k \in 1 .. 2 : NameOf(k) \in y.seen => k \in LinesRead(q, Settled(y.x.reader.state), i)

\* How far a session is from the end of what has arrived
LeftOf(x) == 5 * (x.position - x.readerPosition) + Rank(x.reader)

\* A turn of the loop of read_http that began with the session x0
TurnOf(q, x0, y) ==
  /\ y \in Turns /\ SameButReading(x0, y.x) /\ y.x.readerPosition <= y.x.position
  /\ \/ y.x.parserError /\ IsRefused(q)
     \/ \E i \in 0 .. 3 : ReadingOf(q, y.x, i) /\ SeenOf(q, y, i)

\* When a value is complete: which header it is, what its tokens are, and what is left of them
LEMMA HeaderEnd ==
  ASSUME NEW q, IsRequest(q), NEW r, NEW o, NEW i, Place(q, r, o, i), r.state = "COMPLETED_HEADER_VALUE"
  PROVE  /\ i \in 1 .. 2 /\ HasLine(q, i) /\ o = LineAt(q, i) + Len(ValueOf(q, i)) + 4
         /\ Found(q, r.state, o, i, "HEADER_NAME") = [at |-> LineAt(q, i), n |-> 2]
         /\ Found(q, r.state, o, i, "HEADER_VALUE") = [at |-> LineAt(q, i) + 3, n |-> Len(ValueOf(q, i)) + 1]
         /\ \A name \in {"METHOD", "URI"} : Found(q, "ENDING_HEADER_LINE", o, i, name) = Found(q, r.state, o, i, name)
         /\ \A name \in {"HEADER_NAME", "HEADER_VALUE"} : Found(q, "ENDING_HEADER_LINE", o, i, name) = NoToken
         /\ LinesRead(q, "ENDING_HEADER_LINE", i) = LinesRead(q, r.state, i) \cup {i} /\ i \notin LinesRead(q, r.state, i)
<1> DEFINE H == LineAt(q, i)
           V == Len(ValueOf(q, i))
<1>1. i \in 1 .. 2 /\ HasLine(q, i) /\ InHeader(q, r, o, i)
  BY DEF Place, InRequestLine, AtEnd, Reader
<1>2. o \in H + 4 + V .. H + 4 + V
  BY <1>1 DEF InHeader, Reader
<1>3. H \in Nat /\ V \in Nat
  BY <1>1, RequestTypes, LineAts
<1> HIDE DEF H, V
<1>4. o = H + V + 4
  BY <1>2, <1>3
<1>5. Part(H, H + 2, o) = [at |-> H, n |-> 2]
  <2>1. ~(o <= H) /\ ~(o < H + 2) /\ (H + 2) - H = 2
    BY <1>3, <1>4
  <2> QED
    BY <2>1 DEF Part
<1>6. Part(H + 3, H + 4 + V, o) = [at |-> H + 3, n |-> V + 1]
  <2>1. ~(o <= H + 3) /\ ~(o < H + 4 + V) /\ (H + 4 + V) - (H + 3) = V + 1
    BY <1>3, <1>4
  <2> QED
    BY <2>1 DEF Part
<1>7. Found(q, r.state, o, i, "HEADER_NAME") = Part(H, H + 2, o)
  BY DEF Found, InValues, H
<1>8. Found(q, r.state, o, i, "HEADER_VALUE") = Part(H + 3, H + 4 + V, o)
  BY DEF Found, InValues, H, V
<1>9. \A name \in {"METHOD", "URI"} : Found(q, "ENDING_HEADER_LINE", o, i, name) = Found(q, r.state, o, i, name)
  BY DEF Found
<1>10. \A name \in {"HEADER_NAME", "HEADER_VALUE"} : Found(q, "ENDING_HEADER_LINE", o, i, name) = NoToken
  BY DEF Found, InValues, InHeaders
<1>11. \A k \in 1 .. 2 : (IsRead("ENDING_HEADER_LINE", i, k) <=> IsRead(r.state, i, k) \/ k = i) /\ ~IsRead(r.state, i, i)
  BY <1>1 DEF IsRead
<1>12. LinesRead(q, "ENDING_HEADER_LINE", i) = LinesRead(q, r.state, i) \cup {i} /\ i \notin LinesRead(q, r.state, i)
  BY <1>1, <1>11 DEF LinesRead
<1> QED
  BY <1>1, <1>4, <1>5, <1>6, <1>7, <1>8, <1>9, <1>10, <1>12 DEF H, V

\* A turn stays in the request, or the request is refused, and comes nearer to the end.
LEMMA TurnSteps ==
  ASSUME NEW q, IsRequest(q), NEW x0 \in Sessions, NEW y, TurnOf(q, x0, y), ~y.x.parserError,
         Arrived(q, x0.data, x0.position),
         y.x.readerPosition < y.x.position \/ y.x.reader.state \notin Stops \ {"DONE"}
  PROVE  /\ TurnOf(q, x0, ReadToken(y))
         /\ IsThrough([reader |-> ReadToken(y).x.reader, o |-> ReadToken(y).x.readerPosition], x0.position)
         /\ ReadToken(y).x.readerPosition >= y.x.readerPosition
         /\ ReadToken(y).x.reader.state \in Stops \ {"DONE"} => ReadToken(y).x.readerPosition < x0.position
         /\ y.x.readerPosition < y.x.position /\ y.x.reader.state # "DONE" => LeftOf(ReadToken(y).x) < LeftOf(y.x)
<1> DEFINE x == y.x
           z == Read(x.data, x.position, x.reader, x.readerPosition)
           m == Moved(x, z)
           old == x.tokens
           state == Settled(x.reader.state)
<1>1. x \in Sessions /\ SameButReading(x0, x) /\ x.readerPosition <= x.position /\ x.data = x0.data /\ x.position = x0.position
      /\ old \in [TokenNames -> Tokens] /\ x.position \in Nat /\ y = [x |-> x, seen |-> y.seen]
  BY DEF TurnOf, Turns, SameButReading, Sessions
<1>2. PICK i \in 0 .. 3 : ReadingOf(q, x, i) /\ SeenOf(q, y, i)
  BY DEF TurnOf
<1> DEFINE lines == LinesRead(q, state, i)
<1>3. OnWay(q, x.position, old, lines, WayOf(x.reader, x.readerPosition), state, i)
  <2> DEFINE way == WayOf(x.reader, x.readerPosition)
  <2>1. way.reader = x.reader /\ way.o = x.readerPosition /\ way.token = NoToken
    BY DEF WayOf
  <2>2. NoToken \in [at : Int, n : Int]
    BY DEF NoToken
  <2>3. \A name \in TokenNames : Now(way, old[name], name) = old[name]
    BY <2>1 DEF Now
  <2> HIDE DEF way
  <2>4. Place(q, way.reader, way.o, i) /\ way.o <= x.position
    BY <1>1, <1>2, <2>1 DEF ReadingOf
  <2>5. \A name \in TokenNames : old[name] = Found(q, state, x.readerPosition, i, name)
    BY <1>2 DEF ReadingOf
  <2> HIDE DEF state, lines, old
  <2>6. \A name \in TokenNames : Now(way, old[name], name) = Found(q, state, way.o, i, name)
    BY <2>1, <2>3, <2>5
  <2> QED
    BY <2>1, <2>2, <2>4, <2>6 DEF OnWay, way, lines
<1>4. ReadWell(q, x.position, old, lines, x.reader, x.readerPosition, z)
  BY <1>1, <1>3, Reads
<1>5. PICK j \in 0 .. 3 : OnWay(q, x.position, old, lines, z, z.reader.state, j)
  BY <1>4, SMTT(40) DEF ReadWell
<1>6. z \in Ways /\ IsThrough(z, x.position) /\ (z.reader.state \in Stops \ {"DONE"} => z.o < x.position) /\ z.o <= x.position /\ z.o >= x.readerPosition
      /\ (x.readerPosition < x.position /\ x.reader.state # "DONE" =>
            Left(z, x.position) < Left(WayOf(x.reader, x.readerPosition), x.position))
  BY <1>4, <1>5, ZenonT(40) DEF ReadWell, OnWay
<1> HIDE DEF z, m, state
<1>7. /\ m \in Sessions /\ SameButReading(x, m)
      /\ m.reader = z.reader /\ m.readerPosition = z.o /\ m.parserError = x.parserError
      /\ m.contentLength = x.contentLength /\ m.contentType = x.contentType
      /\ \A name \in TokenNames : m.tokens[name] = Found(q, z.reader.state, z.o, j, name)
  <2>1. \A name \in TokenNames : Now(z, x.tokens[name], name) = Found(q, z.reader.state, z.o, j, name)
    BY <1>5 DEF OnWay
  <2>2. \A name \in TokenNames : Found(q, z.reader.state, z.o, j, name) \in Tokens
    BY <1>5, FoundTypes DEF OnWay
  <2>3. \A name \in TokenNames : Now(z, x.tokens[name], name) \in Tokens
    BY <2>1, <2>2
  <2>4. \A name \in TokenNames : z.token # NoToken /\ name = TokenOf(z.reader.state) =>
           z.token.at \in Nat /\ (x.tokens[name] = NoToken \/ x.tokens[name].at + x.tokens[name].n = z.token.at)
    BY <1>5 DEF OnWay
  <2> QED
    BY <1>1, <1>6, <2>1, <2>3, <2>4, MovedFacts DEF m
<1> DEFINE w == [y EXCEPT !.x = m]
           v == ReadToken(y)
<1>8. w = [x |-> m, seen |-> y.seen] /\ v = Completed(w)
  BY <1>1 DEF ReadToken, m, z
<1>9. SameButReading(x0, m) /\ m.position = x0.position /\ m.data = x0.data /\ m.position = x.position
  BY <1>1, <1>7 DEF SameButReading
<1>10. lines = LinesRead(q, z.reader.state, j) /\ Place(q, z.reader, z.o, j)
  BY <1>5 DEF OnWay
<1>11. x.contentLength = KnownLength(q, lines) /\ x.contentType = KnownType(q, lines) /\ Accepted(q, lines) /\ ~x.parserError
       /\ \A k \in 1 .. 2 : NameOf(k) \in y.seen => k \in lines
  BY <1>2 DEF ReadingOf, SeenOf, state
<1> HIDE DEF lines, v, w
<1>12. /\ TurnOf(q, x0, v) /\ v.x.reader = z.reader /\ v.x.readerPosition = z.o
  <2>1. CASE z.reader.state # "COMPLETED_HEADER_VALUE"
    <3>1. v = w
      BY <1>7, <1>8, <2>1 DEF Completed
    <3>2. Settled(z.reader.state) = z.reader.state
      BY <2>1 DEF Settled
    <3>3. ReadingOf(q, m, j)
      BY <1>7, <1>10, <1>11, <3>2 DEF ReadingOf
    <3>4. SeenOf(q, v, j)
      BY <1>7, <1>8, <1>10, <1>11, <3>1, <3>2 DEF SeenOf
    <3>5. v \in Turns /\ v.x = m
      BY <1>7, <1>8, <3>1 DEF Turns, TurnOf
    <3> QED
      BY <1>6, <1>7, <1>9, <3>3, <3>4, <3>5 DEF TurnOf
  <2>2. CASE z.reader.state = "COMPLETED_HEADER_VALUE"
    <3>1. /\ j \in 1 .. 2 /\ HasLine(q, j) /\ z.o = LineAt(q, j) + Len(ValueOf(q, j)) + 4
          /\ Found(q, z.reader.state, z.o, j, "HEADER_NAME") = [at |-> LineAt(q, j), n |-> 2]
          /\ Found(q, z.reader.state, z.o, j, "HEADER_VALUE") = [at |-> LineAt(q, j) + 3, n |-> Len(ValueOf(q, j)) + 1]
          /\ \A name \in {"METHOD", "URI"} : Found(q, "ENDING_HEADER_LINE", z.o, j, name) = Found(q, z.reader.state, z.o, j, name)
          /\ \A name \in {"HEADER_NAME", "HEADER_VALUE"} : Found(q, "ENDING_HEADER_LINE", z.o, j, name) = NoToken
          /\ LinesRead(q, "ENDING_HEADER_LINE", j) = LinesRead(q, z.reader.state, j) \cup {j} /\ j \notin LinesRead(q, z.reader.state, j)
      BY <1>10, <2>2, HeaderEnd
    <3>2. NameOf(j) \notin y.seen
      BY <1>10, <1>11, <3>1
    <3>3. Arrived(q, m.data, m.position) /\ LineAt(q, j) + Len(ValueOf(q, j)) + 4 <= m.position
      BY <1>6, <1>9, <3>1
    <3>4. m.tokens["HEADER_NAME"] = [at |-> LineAt(q, j), n |-> 2]
          /\ m.tokens["HEADER_VALUE"] = [at |-> LineAt(q, j) + 3, n |-> Len(ValueOf(q, j)) + 1]
      BY <1>7, <3>1 DEF TokenNames
    <3> DEFINE h == ReadHeader(m, y.seen)
               all == lines \cup {j}
    <3>5. /\ h \in Sessions /\ SameButReading(m, h) /\ h.reader = m.reader /\ h.readerPosition = m.readerPosition
          /\ \A name \in TokenNames :
               h.tokens[name] = IF name \in {"HEADER_NAME", "HEADER_VALUE"} THEN NoToken ELSE m.tokens[name]
          /\ \/ h.parserError /\ IsRefused(q)
             \/ /\ ~h.parserError /\ Accepted(q, all)
                /\ h.contentLength = KnownLength(q, all) /\ h.contentType = KnownType(q, all)
          /\ Bytes(m, "HEADER_NAME") = NameOf(j)
      <4> HIDE DEF all
      <4>1. j \notin lines /\ ~m.parserError /\ m.contentLength = KnownLength(q, lines) /\ m.contentType = KnownType(q, lines)
        BY <1>7, <1>10, <1>11, <3>1
      <4> QED
        <5> HIDE DEF h
        <5>1. HeaderRead(q, lines \cup {j}, m, ReadHeader(m, y.seen)) /\ Bytes(m, "HEADER_NAME") = NameOf(j)
          BY <1>7, <1>11, <3>1, <3>2, <3>3, <3>4, <4>1, ReadHeaderFacts, ZenonT(40)
        <5> QED
          BY <5>1 DEF HeaderRead, all, h
    <3> HIDE DEF h
    <3>6. v = [x |-> h, seen |-> y.seen \cup {NameOf(j)}]
      BY <1>7, <1>8, <2>2, <3>5 DEF Completed, h
    <3>7. v \in Turns
      <4>1. NameOf(j) \in {ContentType, ContentLength}
        BY DEF NameOf
      <4>2. y.seen \subseteq {ContentType, ContentLength}
        BY DEF TurnOf, Turns
      <4> QED
        BY <3>5, <3>6, <4>1, <4>2 DEF Turns
    <3>8. SameButReading(x0, h) /\ h.position = x0.position
      BY <1>9, <3>5 DEF SameButReading
    <3>9. h.reader = z.reader /\ h.readerPosition = z.o /\ Settled(h.reader.state) = "ENDING_HEADER_LINE"
      BY <1>7, <2>2, <3>5 DEF Settled
    <3>10. CASE h.parserError /\ IsRefused(q)
      BY <1>1, <1>6, <3>6, <3>7, <3>8, <3>9, <3>10 DEF TurnOf
    <3>11. CASE ~(h.parserError /\ IsRefused(q))
      <4>1. all = LinesRead(q, "ENDING_HEADER_LINE", j)
        BY <1>10, <3>1
      <4>2. \A name \in TokenNames : h.tokens[name] = Found(q, "ENDING_HEADER_LINE", z.o, j, name)
        BY <1>7, <3>1, <3>5 DEF TokenNames
      <4>3. ReadingOf(q, h, j)
        <5> HIDE DEF all
        <5> QED
        BY <1>10, <3>5, <3>9, <3>11, <4>1, <4>2 DEF ReadingOf
      <4>4. SeenOf(q, v, j)
        <5>1. \A k \in 1 .. 2 : NameOf(k) = NameOf(j) => k = j
          BY <3>1 DEF NameOf, ContentLength, ContentType
        <5>2. \A k \in 1 .. 2 : NameOf(k) \in y.seen \cup {NameOf(j)} => k \in all
          BY <1>11, <5>1
        <5> QED
          BY <3>6, <3>9, <4>1, <5>2 DEF SeenOf
      <4> QED
        BY <1>1, <1>6, <3>6, <3>7, <3>8, <3>9, <4>3, <4>4 DEF TurnOf
    <3> QED
      BY <3>6, <3>9, <3>10, <3>11
  <2> QED
    BY <2>1, <2>2
<1>13. IsThrough([reader |-> v.x.reader, o |-> v.x.readerPosition], x0.position)
  BY <1>1, <1>6, <1>12 DEF IsThrough
<1>14. SameButReading(x0, v.x) /\ v.x.position = x.position
  BY <1>1, <1>12 DEF TurnOf, SameButReading
<1>15. Left(z, x.position) = LeftOf(v.x) /\ Left(WayOf(x.reader, x.readerPosition), x.position) = LeftOf(x)
  BY <1>12, <1>14 DEF Left, LeftOf, WayOf
<1> QED
  BY <1>1, <1>6, <1>12, <1>13, <1>15 DEF v

\* A session that has read what there is of a request
AtRest(q, z, hi, i) ==
  /\ ReadingOf(q, z, i) /\ z.reader.state \notin Stops \ {"DONE"}
  /\ z.reader.state = "DONE" \/ z.readerPosition = hi

\* read_http has read what there is, or the request is refused.
RequestRead(q, x, z) ==
  /\ z \in Sessions /\ SameButReading(x, z) /\ z.readerPosition <= z.position
  /\ \/ z.parserError /\ IsRefused(q)
     \/ \E i \in 0 .. 3 : AtRest(q, z, z.position, i)

\* read_http, of a session in which a part of the request has been read
LEMMA HTTPReads ==
  ASSUME NEW q, IsRequest(q), NEW x \in Sessions, x.state # "Failed", Arrived(q, x.data, x.position),
         NEW i \in 0 .. 3, ReadingOf(q, x, i), x.readerPosition <= x.position,
         x.readerPosition < x.position \/ x.reader.state \notin Stops \ {"DONE"}
  PROVE  RequestRead(q, x, ReadHTTP(x))
<1> DEFINE begin == [x |-> x, seen |-> {}]
           first == ReadToken(begin)
           most == 5 * (x.position - x.readerPosition) + 5
           Rests(y) == /\ IsThrough([reader |-> y.x.reader, o |-> y.x.readerPosition], x.position)
                       /\ y.x.reader.state \in Stops \ {"DONE"} => y.x.readerPosition < x.position
           S == {y \in Turns : TurnOf(q, x, y) /\ Rests(y)}
           Ended == {y \in S : ~HasMore(y.x)}
<1>1. x.position \in Nat /\ x.readerPosition \in Nat
  BY DEF Sessions
<1>2. TurnOf(q, x, begin) /\ begin.x = x /\ ~begin.x.parserError
  <2>1. SameButReading(x, x)
    BY DEF SameButReading
  <2>2. SeenOf(q, begin, i)
    BY DEF SeenOf
  <2>3. begin \in Turns /\ begin.x = x
    BY DEF Turns
  <2>4. ~x.parserError
    BY DEF ReadingOf
  <2> HIDE DEF begin
  <2> QED
    BY <2>1, <2>2, <2>3, <2>4 DEF TurnOf
<1> HIDE DEF begin
<1>3. ASSUME NEW y, TurnOf(q, x, y) PROVE LeftOf(y.x) \in Nat /\ y.x.position = x.position /\ LeftOf(y.x) <= 5 * (x.position - y.x.readerPosition) + 4
  <2>1. y.x.position = x.position /\ y.x.readerPosition \in Nat /\ y.x.readerPosition <= x.position
    BY <1>3 DEF TurnOf, Turns, Sessions, SameButReading
  <2>2. Rank(y.x.reader) \in 0 .. 4
    BY Ranks
  <2> HIDE DEF most
  <2> QED
    BY <1>1, <2>1, <2>2 DEF LeftOf
<1>4. first \in S /\ LeftOf(first.x) <= most /\ most \in Nat
  <2>1. TurnOf(q, x, first) /\ Rests(first) /\ first.x.readerPosition >= x.readerPosition
    BY <1>2, TurnSteps
  <2>2. first.x.readerPosition \in Nat /\ LeftOf(first.x) <= 5 * (x.position - first.x.readerPosition) + 4 /\ LeftOf(first.x) \in Nat
    BY <1>3, <2>1 DEF TurnOf, Turns, Sessions
  <2>3. first \in S
    BY <2>1 DEF TurnOf
  <2> HIDE DEF first, S
  <2> QED
    BY <1>1, <2>1, <2>2, <2>3
<1>5. ASSUME NEW y \in S, y \notin Ended
      PROVE  Turned(y) \in S /\ LeftOf(Turned(y).x) < LeftOf(y.x)
  <2>1. HasMore(y.x) /\ TurnOf(q, x, y)
    BY <1>5
  <2>2. ~y.x.parserError /\ y.x.readerPosition < y.x.position /\ y.x.reader.state # "DONE"
    BY <2>1 DEF HasMore
  <2>3. TurnOf(q, x, ReadToken(y)) /\ Rests(ReadToken(y)) /\ LeftOf(ReadToken(y).x) < LeftOf(y.x)
    BY <2>1, <2>2, TurnSteps
  <2>4. Turned(y) = ReadToken(y) /\ ReadToken(y) \in Turns
    BY <2>1, <2>3 DEF Turned, TurnOf
  <2> QED
    BY <2>3, <2>4
<1>6. ASSUME NEW y \in Ended PROVE Turned(y) = y /\ y \in S
  BY <1>6 DEF Turned
<1> DEFINE Step == [y \in S |-> Turned(y)]
           Lefts == [y \in S |-> LeftOf(y.x)]
<1>7. Step \in [S -> S] /\ Lefts \in [S -> Nat] /\ Nearer(S, Step, Lefts, Ended)
  <2>1. \A y \in S : Turned(y) \in S /\ LeftOf(y.x) \in Nat
    <3> SUFFICES ASSUME NEW y \in S PROVE Turned(y) \in S /\ LeftOf(y.x) \in Nat
      OBVIOUS
    <3>1. LeftOf(y.x) \in Nat
      BY <1>3
    <3>2. CASE y \in Ended
      BY <1>6, <3>1, <3>2
    <3>3. CASE y \notin Ended
      BY <1>5, <3>1, <3>3
    <3> QED
      BY <3>2, <3>3
  <2>2. \A y \in S : y \notin Ended => LeftOf(Turned(y).x) < LeftOf(y.x)
    BY <1>5
  <2> HIDE DEF S, Ended
  <2> QED
    BY <2>1, <2>2 DEF Nearer
<1>8. Lefts[first] <= most /\ \A y \in S : Step[y] = Turned(y)
  BY <1>4
<1> HIDE DEF first, most, S, Ended, Step, Lefts
<1>9. HasLoop(first, Step, most) /\ EndsIn(S, first, Step, most, Ended)
  BY <1>4, <1>7, <1>8, Loop
<1> DEFINE IsRun(g) == g = [k \in 0 .. most |-> IF k = 0 THEN first ELSE Turned(g[k - 1])]
<1>10. ASSUME NEW g, IsRun(g) PROVE IsLoop(S, first, Step, most, g)
  <2>1. g[0] = first
    BY <1>4, <1>10
  <2>2. \A k \in 0 .. most - 1 : g[k + 1] = Turned(g[k])
    BY <1>4, <1>10
  <2> QED
    BY <1>8, <2>1, <2>2 DEF IsLoop
<1>11. \E g : IsRun(g)
  <2>1. PICK g : g = [k \in 0 .. most |-> IF k = 0 THEN first ELSE Step[g[k - 1]]]
    BY <1>9 DEF HasLoop
  <2>2. IsLoop(S, first, Step, most, g)
    BY <1>4, <2>1 DEF IsLoop
  <2>3. \A k \in 0 .. most : g[k] \in S
    BY <1>9, <2>2 DEF EndsIn
  <2>4. \A k \in 0 .. most : k # 0 => k - 1 \in 0 .. most
    BY <1>4
  <2>5. \A k \in 0 .. most : (IF k = 0 THEN first ELSE Step[g[k - 1]]) = (IF k = 0 THEN first ELSE Turned(g[k - 1]))
    BY <1>8, <2>3, <2>4
  <2>6. [k \in 0 .. most |-> IF k = 0 THEN first ELSE Step[g[k - 1]]] = [k \in 0 .. most |-> IF k = 0 THEN first ELSE Turned(g[k - 1])]
    BY <2>5, Zenon
  <2> QED
    BY <2>1, <2>6
<1> DEFINE run == CHOOSE g : IsRun(g)
           last == CHOOSE k \in 0 .. most : ~HasMore(run[k].x)
<1>12. IsRun(run)
  BY <1>11
<1>13. \A k \in 0 .. most : run[k] \in S
  BY <1>9, <1>10, <1>12 DEF EndsIn
<1>14. \E k \in 0 .. most : ~HasMore(run[k].x)
  BY <1>9, <1>10, <1>12 DEF EndsIn, Ended
<1>15. last \in 0 .. most /\ ~HasMore(run[last].x)
  BY <1>14
<1>16. run[last] \in S
  BY <1>13, <1>15
<1>17. ReadHTTP(x) = run[last].x
  BY DEF ReadHTTP, first, most, begin
<1> HIDE DEF run, last
<1> DEFINE y == run[last]
<1> HIDE DEF y
<1>18. TurnOf(q, x, y) /\ Rests(y) /\ ~HasMore(y.x) /\ ReadHTTP(x) = y.x
  BY <1>15, <1>16, <1>17 DEF S, y
<1>19. y.x \in Sessions /\ SameButReading(x, y.x) /\ y.x.readerPosition <= y.x.position /\ y.x.position = x.position /\ y.x.state # "Failed"
  BY <1>18 DEF TurnOf, Turns, SameButReading
<1>20. CASE y.x.parserError /\ IsRefused(q)
  BY <1>18, <1>19, <1>20 DEF RequestRead
<1>21. CASE ~(y.x.parserError /\ IsRefused(q))
  <2>1. PICK j \in 0 .. 3 : ReadingOf(q, y.x, j)
    BY <1>18, <1>21 DEF TurnOf
  <2>2. y.x.reader.state # "ERROR" /\ ~y.x.parserError
    BY <2>1, Places DEF ReadingOf
  <2>3. ~(y.x.readerPosition < y.x.position) \/ y.x.reader.state = "DONE"
    BY <1>18, <1>19, <2>2 DEF HasMore
  <2>4. y.x.readerPosition \in Nat /\ y.x.position \in Nat
    BY <1>19 DEF Sessions
  <2>5. AtRest(q, y.x, y.x.position, j)
    BY <1>18, <1>19, <2>1, <2>3, <2>4 DEF AtRest
  <2> QED
    BY <1>18, <1>19, <2>5 DEF RequestRead
<1> QED
  BY <1>20, <1>21

=============================================================================
