-------------------- MODULE CharacteristicRequestsProofs --------------------
(* Proofs about CharacteristicRequests, for any sessions, database and requests.  *)
EXTENDS CharacteristicRequests, SequenceTheorems, TLAPS

------------------------------------------------------------------------------
(* Lemmas about functions and sequences                                              *)

\* Appending to a sequence, whatever its elements are
LEMMA Appended ==
  ASSUME NEW q, IsSequence(q), NEW e
  PROVE  /\ IsSequence(Append(q, e))
         /\ Len(Append(q, e)) = Len(q) + 1
         /\ DOMAIN Append(q, e) = 1 .. Len(q) + 1
         /\ Append(q, e)[Len(q) + 1] = e
         /\ \A k \in 1 .. Len(q) : Append(q, e)[k] = q[k]
<1> DEFINE S == {q[k] : k \in 1 .. Len(q)} \cup {e}
<1>1. q \in [1 .. Len(q) -> S]
  BY DEF IsSequence
<1>2. q \in Seq(S) /\ e \in S /\ DOMAIN q = 1 .. Len(q)
  BY <1>1 DEF IsSequence
<1> HIDE DEF S
<1>3. Append(q, e) \in Seq(S)
  BY <1>2
<1>4. /\ Len(Append(q, e)) = Len(q) + 1 /\ Len(q) \in Nat
      /\ Append(q, e)[Len(q) + 1] = e
      /\ \A k \in 1 .. Len(q) : Append(q, e)[k] = q[k]
  BY <1>2, AppendProperties DEF IsSequence
<1>5. Append(q, e) \in [1 .. Len(Append(q, e)) -> S]
  BY <1>3, LenProperties
<1> DEFINE a == Append(q, e)
<1> HIDE DEF a
<1>6. Len(a) = Len(q) + 1 /\ Len(q) \in Nat /\ a \in [1 .. Len(a) -> S]
  BY <1>4, <1>5 DEF a
<1>7. IsSequence(a) /\ DOMAIN a = 1 .. Len(q) + 1
  BY <1>6 DEF IsSequence
<1> QED BY <1>4, <1>7 DEF a

LEMMA Replaced ==
  ASSUME NEW q, IsSequence(q), NEW i \in 1 .. Len(q), NEW e
  PROVE  LET r == [q EXCEPT ![i] = e]
         IN  /\ IsSequence(r) /\ Len(r) = Len(q) /\ DOMAIN r = 1 .. Len(q)
             /\ r[i] = e
             /\ \A k \in 1 .. Len(q) : k # i => r[k] = q[k]
<1> DEFINE r == [q EXCEPT ![i] = e]
           S == {q[k] : k \in 1 .. Len(q)} \cup {e}
<1>1. DOMAIN q = 1 .. Len(q) /\ Len(q) \in Nat
  BY DEF IsSequence
<1>2. r \in [1 .. Len(q) -> S]
  BY <1>1
<1>3. r \in Seq(S) /\ Len(r) = Len(q)
  BY <1>1, <1>2
<1>4. r = [k \in 1 .. Len(r) |-> r[k]]
  BY <1>2, <1>3
<1> QED BY <1>1, <1>2, <1>3, <1>4 DEF IsSequence

------------------------------------------------------------------------------
(* Reading and writing of one value                                                  *)

Refusals == {InsufficientPrivileges, WriteToReadOnlyCharacteristic, ResourceDoesNotExist,
             InvalidValueInWrite, InsufficientAuthorization}

TextLen(c, v) == IF c.format = "String" THEN Len(v) ELSE Encoded(Len(v))

LEMMA EncodedIsNat ==
  ASSUME NEW n \in Nat
  PROVE  Encoded(n) \in Nat
  BY DEF Encoded

\* What has been read fits the data buffer, and no read is answered with a refusal.
LEMMA ReadOutcomes ==
  ASSUME NEW id \in DOMAIN Db, NEW v \in Values[id], NEW p \in 0 .. DataBytes,
         NEW err \in Answers \ {"InvalidData", "NotAuthorized"}
  PROVE  LET o == ReadOutcome(Db[id], v, err, p)
         IN  /\ DOMAIN o \subseteq {"status", "value", "read", "position"}
             /\ {"status", "position"} \subseteq DOMAIN o
             /\ o.position \in p .. DataBytes
             /\ o.status \notin Refusals
             /\ "read" \in DOMAIN o => "value" \in DOMAIN o
             /\ "read" \in DOMAIN o /\ Db[id].format \in Texts =>
                  o.position = p + TextLen(Db[id], o.value) + 1 /\ TextLen(Db[id], o.value) \in Nat
<1> DEFINE c == Db[id]
           r == HandleRead(c, v, Room(p), err)
           o == ReadOutcome(c, v, err, p)
<1>1. err \in ReadErrors \cup {"None"}
  BY DbAssumption DEF WriteErrors
<1>2. r.err \in ReadErrors \cup {"None"}
  BY <1>1 DEF HandleRead, FloatHandleRead, StringHandleRead, DataHandleRead, TLV8HandleRead, NumberHandleRead,
     Answered, ReadErrors
<1>3. c.format \in Texts /\ r.err = "None" => r.value = v /\ Len(v) \in Nat
  BY <1>1, TypesAssumption DEF HandleRead, StringHandleRead, DataHandleRead, TLV8HandleRead, Answered, Texts, ReadErrors
<1>4. r.err # "None" => ToStatusCode(r.err) \notin Refusals
  BY <1>2 DEF ToStatusCode, ReadErrors, Refusals, InsufficientPrivileges, WriteToReadOnlyCharacteristic,
     ResourceDoesNotExist, InvalidValueInWrite, InsufficientAuthorization, UnableToPerformOperation,
     StatusOutOfResources, ResourceIsBusy
<1>5. Success \notin Refusals /\ StatusOutOfResources \notin Refusals
  BY DEF Refusals, Success, InsufficientPrivileges, WriteToReadOnlyCharacteristic,
     ResourceDoesNotExist, InvalidValueInWrite, InsufficientAuthorization, StatusOutOfResources
<1> HIDE DEF r
<1>6. CASE r.err # "None"
  <2>1. o = [status |-> ToStatusCode(r.err), position |-> p]
    BY <1>6 DEF ReadOutcome, r
  <2> QED BY <2>1, <1>4, <1>6, DbAssumption
<1>7. CASE r.err = "None" /\ c.format \notin Texts
  <2>1. o = [status |-> Success, value |-> r.value, read |-> TRUE, position |-> p]
    BY <1>7 DEF ReadOutcome, r
  <2> QED BY <2>1, <1>5, <1>7, DbAssumption
<1>8. CASE r.err = "None" /\ c.format \in Texts
  <2> DEFINE length == TextLen(c, r.value)
  <2>1. length \in Nat
    BY <1>3, <1>8, EncodedIsNat DEF TextLen
  <2>2. CASE length >= Room(p)
    <3>1. o = [status |-> StatusOutOfResources, position |-> p]
      BY <1>8, <2>2 DEF ReadOutcome, r, TextLen
    <3> QED BY <3>1, <1>5, DbAssumption
  <2>3. CASE ~(length >= Room(p))
    <3>1. o = [status |-> Success, value |-> r.value, read |-> TRUE, position |-> p + length + 1]
      BY <1>8, <2>3 DEF ReadOutcome, r, TextLen
    <3>2. p + length + 1 \in p .. DataBytes
      BY <2>1, <2>3, DbAssumption DEF Room
    <3> HIDE DEF length
    <3>3. o.position \in p .. DataBytes /\ o.value = r.value /\ o.position = p + length + 1
      BY <3>1, <3>2
    <3>4. DOMAIN o = {"status", "value", "read", "position"} /\ o.status = Success
      BY <3>1
    <3> QED BY <3>3, <3>4, <2>1, <1>5 DEF length
  <2> QED BY <2>2, <2>3
<1> QED BY <1>6, <1>7, <1>8
------------------------------------------------------------------------------
(* Steps and limits of numbers                                                       *)

LEMMA Division ==
  ASSUME NEW a \in Int, NEW s \in Nat \ {0}
  PROVE  /\ a \div s \in Int /\ a % s \in 0 .. s - 1
         /\ a = (a \div s) * s + (a % s)
         /\ a >= 0 => a \div s >= 0 /\ (a \div s) * s >= 0
  BY Z3

LEMMA MultiplesAreOnStep ==
  ASSUME NEW q \in Int, NEW s \in Nat \ {0}
  PROVE  (q * s) % s = 0
  BY Z3

LEMMA NextMultiple ==
  ASSUME NEW q \in Int, NEW r \in Int, NEW s \in Nat \ {0}, q * s < r * s
  PROVE  (q + 1) * s <= r * s /\ (q + 1) * s = q * s + s
  BY Z3

LEMMA SmallRemainder ==
  ASSUME NEW m \in Nat \ {0}, NEW x \in Nat, x < m
  PROVE  x % m = x
  BY Z3

\* The difference of an Int to its minimum does not wrap if it fits the type.
LEMMA WrappedIsSame ==
  ASSUME NEW n \in 0 .. MaxOf["Int"]
  PROVE  Magnitude(Wrapped(n)) = n
<1> DEFINE M == MaxOf["Int"]
<1>1. M \in Nat
  BY WidthsAssumption
<1> HIDE DEF M
<1>2. n \in 0 .. M
  BY DEF M
<1>3. 2 * (M + 1) \in Nat \ {0} /\ n + M + 1 \in Nat /\ n + M + 1 < 2 * (M + 1)
  BY <1>1, <1>2
<1>4. (n + M + 1) % (2 * (M + 1)) = n + M + 1
  BY <1>3, SmallRemainder
<1>5. Wrapped(n) = (n + M + 1) - M - 1
  BY <1>4 DEF Wrapped, M
<1> QED BY <1>1, <1>2, <1>5 DEF Magnitude

\* Rounding goes to a step, and not beyond a maximum that is on a step.
LEMMA Rounding ==
  ASSUME NEW lo \in Int, NEW hi \in Int, NEW v \in Int, NEW s \in Nat \ {0},
         lo <= v, v <= hi, (hi - lo) % s = 0
  PROVE  LET d == (v - lo) % s
             w == v - (IF 2 * d < s THEN d ELSE d - s)
         IN  lo <= w /\ w <= hi /\ (w - lo) % s = 0
<1>0. PICK n \in Int, m \in Int : n = v - lo /\ m = hi - lo /\ n >= 0 /\ m % s = 0
  OBVIOUS
<1>1. PICK q \in Int, d \in Int :
        d \in 0 .. s - 1 /\ v - lo = q * s + d /\ (v - lo) % s = d /\ q * s >= 0
  <2>1. n \div s \in Int /\ n % s \in 0 .. s - 1 /\ n = (n \div s) * s + (n % s) /\ (n \div s) * s >= 0
    BY <1>0, Division
  <2>2. n % s \in Int
    BY <2>1
  <2> QED BY <1>0, <2>1, <2>2
<1>2. PICK r \in Int : hi - lo = r * s
  <2>1. m \div s \in Int /\ m = (m \div s) * s + (m % s)
    BY Division
  <2>2. (m \div s) * s \in Int
    BY <2>1
  <2>3. m = (m \div s) * s
    BY <1>0, <2>1, <2>2
  <2> QED BY <1>0, <2>1, <2>3
<1>3. PICK a \in Int, b \in Int : a = q * s /\ b = r * s
  OBVIOUS
<1>4. CASE 2 * d < s
  <2>1. v - d = lo + a /\ a >= 0 /\ a <= b /\ hi = lo + b
    BY <1>1, <1>2, <1>3
  <2>2. (lo + a) - lo = q * s
    BY <1>3
  <2>3. (q * s) % s = 0
    BY MultiplesAreOnStep
  <2> QED BY <1>1, <1>4, <2>1, <2>2, <2>3
<1>5. CASE ~(2 * d < s)
  <2>1. a < b /\ a >= 0
    BY <1>1, <1>2, <1>3, <1>5
  <2>2. (q + 1) * s <= r * s /\ (q + 1) * s = q * s + s
    BY <2>1, <1>3, NextMultiple
  <2>3. PICK e \in Int : e = (q + 1) * s
    OBVIOUS
  <2>4. v - (d - s) = lo + e /\ e >= 0 /\ e <= b /\ hi = lo + b
    BY <1>1, <1>2, <1>3, <2>1, <2>2, <2>3
  <2>5. (lo + e) - lo = (q + 1) * s
    BY <2>3
  <2>6. ((q + 1) * s) % s = 0
    BY MultiplesAreOnStep, q + 1 \in Int
  <2> QED BY <1>1, <1>5, <2>4, <2>5, <2>6
<1> QED BY <1>4, <1>5

LEMMA RoundedInRange ==
  ASSUME NEW c, c.min \in Int, c.max \in Int, c.step \in Nat, NEW v \in Int,
         c.min <= v, v <= c.max, c.step # 0 => (c.max - c.min) % c.step = 0
  PROVE  InRange(RoundValueToStep(c, v), c)
<1>1. CASE c.step = 0
  BY <1>1 DEF InRange, RoundValueToStep
<1>2. CASE c.step # 0
  <2>1. /\ c.min <= v - OffStep(v, c) /\ v - OffStep(v, c) <= c.max
        /\ ((v - OffStep(v, c)) - c.min) % c.step = 0
    BY <1>2, Rounding DEF OffStep
  <2> QED BY <1>2, <2>1 DEF InRange, RoundValueToStep
<1> QED BY <1>1, <1>2

\* The application is called with a value that fulfills the constraints, or not at all.
LEMMA WritesAreGuarded ==
  ASSUME NEW id \in DOMAIN Db, NEW x, NEW err
  PROVE  LET c == Db[id]
             h == HandleWrite(c, x, err)
         IN  \/ h = Refused
             \/ /\ h = Called(h.value, err)
                /\ Numeric(c) /\ Regular(c) /\ x \in Int => InRange(h.value, c)
<1> DEFINE c == Db[id]
           h == HandleWrite(c, x, err)
<1>1. c.format \in Formats /\ (Numeric(c) => c.min \in Int /\ c.max \in Int /\ c.step \in Nat)
  BY TypesAssumption
<1> HIDE DEF c
<1>3. CASE c.format \in {"Data", "Bool", "String", "TLV8"}
  <2>1. h = Refused \/ h = Called(x, err)
    BY <1>3 DEF HandleWrite, DataHandleWrite, BoolHandleWrite, StringHandleWrite, TLV8HandleWrite, Guarded
  <2> QED BY <1>3, <2>1 DEF Numeric, Called, c
<1>4. CASE c.format \in {"UInt8", "UInt16", "UInt32", "UInt64"}
  <2>1. h = Refused \/ (h = Called(x, err) /\ InRange(x, c))
    BY <1>4 DEF HandleWrite, UInt8HandleWrite, UInt16HandleWrite, UInt32HandleWrite, UInt64HandleWrite, Guarded,
       UInt8Fulfills, UInt16Fulfills, UInt32Fulfills, UInt64Fulfills
  <2> QED BY <2>1 DEF Called, c
<1>5. CASE c.format = "Int"
  <2>1. h = Refused \/ (h = Called(x, err) /\ IntFulfills(c, x))
    BY <1>5 DEF HandleWrite, IntHandleWrite, Guarded
  <2>2. Numeric(c)
    BY <1>5 DEF Numeric
  <2>3. ASSUME Regular(c), x \in Int, IntFulfills(c, x)
        PROVE  InRange(x, c)
    <3>1. x - c.min \in 0 .. MaxOf["Int"]
      BY <1>1, <1>5, <2>2, <2>3, WidthsAssumption DEF Regular, IntFulfills
    <3>2. Magnitude(Wrapped(x - c.min)) = x - c.min
      BY <3>1, WrappedIsSame
    <3> QED BY <3>2, <2>3 DEF IntFulfills, InRange
  <2> QED BY <2>1, <2>3 DEF Called, c
<1>6. CASE c.format = "Float"
  <2>1. h = Refused \/ (h = Called(RoundValueToStep(c, x), err) /\ FloatFulfills(c, x))
    BY <1>6 DEF HandleWrite, FloatHandleWrite, Guarded
  <2>2. Numeric(c)
    BY <1>6 DEF Numeric
  <2>3. ASSUME Regular(c), x \in Int, FloatFulfills(c, x)
        PROVE  InRange(RoundValueToStep(c, x), c)
    BY <1>1, <1>6, <2>2, <2>3, RoundedInRange DEF FloatFulfills, Regular
  <2> QED BY <2>1, <2>3 DEF Called, c
<1> QED BY <1>1, <1>3, <1>4, <1>5, <1>6 DEF Formats

\* What a request passes to the handler: a number for a number, or an error, or nothing for a
\* TLV8 that is not a string.
LEMMA Arguments ==
  ASSUME NEW c, c.format \in Formats, NEW v, IsJSONValue(v), NEW room
  PROVE  LET a == Argument(c, v, room)
         IN  \/ /\ a = Passed(a.value)
                /\ Numeric(c) => a.value \in Int
                /\ c.format = "String" => Len(a.value) \in Nat
             \/ /\ a = NotPassed(a.status)
                /\ \/ a.status \in {InvalidValueInWrite, StatusOutOfResources}
                   \/ a.status = Success /\ c.format = "TLV8" /\ v.type # "String"
<1> DEFINE a == Argument(c, v, room)
           Found(x) == \/ /\ x = Passed(x.value)
                          /\ Numeric(c) => x.value \in Int
                          /\ c.format = "String" => Len(x.value) \in Nat
                       \/ /\ x = NotPassed(x.status)
                          /\ \/ x.status \in {InvalidValueInWrite, StatusOutOfResources}
                             \/ x.status = Success /\ c.format = "TLV8" /\ v.type # "String"
<1>1. ASSUME NEW status, status \in {InvalidValueInWrite, StatusOutOfResources}
      PROVE  Found(NotPassed(status))
  BY <1>1 DEF NotPassed
<1>2. ASSUME NEW value, Numeric(c) => value \in Int, c.format = "String" => Len(value) \in Nat
      PROVE  Found(Passed(value))
  BY <1>2 DEF Passed
<1>3. CASE c.format = "Bool"
  BY <1>3, <1>1, <1>2 DEF Argument, BoolArgument, Numeric
<1>4. CASE c.format \in {"UInt8", "UInt16", "UInt32", "UInt64"}
  BY <1>4, <1>1, <1>2 DEF Argument, UIntArgument, IsJSONValue
<1>5. CASE c.format = "Int"
  BY <1>5, <1>1, <1>2 DEF Argument, IntArgument, IsJSONValue
<1>6. CASE c.format = "Float"
  <2>1. v.type \in {"UInt", "Int"} => v.n * Grid \in Int
    BY WidthsAssumption DEF IsJSONValue
  <2> QED BY <1>6, <1>1, <1>2, <2>1 DEF Argument, FloatArgument, IsJSONValue
<1>7. CASE c.format = "String"
  BY <1>7, <1>1, <1>2 DEF Argument, StringArgument, Numeric, IsJSONValue
<1>8. CASE c.format = "Data"
  BY <1>8, <1>1, <1>2 DEF Argument, DataArgument, Numeric
<1>9. CASE c.format = "TLV8"
  <2>1. CASE v.type # "String"
    BY <1>9, <2>1 DEF Argument, TLV8Argument, NotPassed
  <2>2. CASE v.type = "String"
    BY <1>9, <2>2, <1>1, <1>2 DEF Argument, TLV8Argument, DataArgument, Numeric
  <2> QED BY <2>1, <2>2
<1> QED BY <1>3, <1>4, <1>5, <1>6, <1>7, <1>8, <1>9 DEF Formats

------------------------------------------------------------------------------
(* What the handling of one context does: the context gets an outcome, the list of calls    *)
(* possibly one more call.                                                                  *)

RequestFields == {"kind", "session", "contexts", "next", "calls", "at", "pid"}

RequestShaped ==
  \/ request = Idle
  \/ /\ request.kind \in {"read", "write"}
     /\ DOMAIN request = RequestFields
     /\ request.session \in Sessions /\ request.at \in Nat
     /\ IsSequence(request.contexts) /\ IsSequence(request.calls)
     /\ request.next \in 1 .. Len(request.contexts) + 1

Settles(outcome, calls) ==
  /\ request'.kind = request.kind /\ request'.session = request.session
  /\ request'.at = request.at /\ request'.pid = request.pid
  /\ DOMAIN request' = DOMAIN request
  /\ request'.next = request.next + 1
  /\ request'.contexts = [request.contexts EXCEPT ![request.next] = Upon(outcome, @)]
  /\ request'.calls = calls

LEMMA SettledSettles ==
  ASSUME RequestShaped, request # Idle, NEW outcome, Settled(request.next, outcome)
  PROVE  Settles(outcome, request.calls)
<1> DEFINE r1 == [request EXCEPT !.next = request.next + 1]
           contexts == [request.contexts EXCEPT ![request.next] = Upon(outcome, @)]
<1>1. DOMAIN request = RequestFields
  BY DEF RequestShaped
<1>2. request' = [[request EXCEPT !.next = request.next + 1] EXCEPT !.contexts = contexts]
  BY <1>1 DEF Settled, RequestFields
<1> HIDE DEF contexts
<1>3. request'.contexts = contexts
  BY <1>1, <1>2 DEF RequestFields
<1>4. /\ request'.kind = request.kind /\ request'.session = request.session
      /\ request'.at = request.at /\ request'.pid = request.pid
      /\ DOMAIN request' = DOMAIN request
      /\ request'.next = request.next + 1 /\ request'.calls = request.calls
  BY <1>1, <1>2 DEF RequestFields
<1> QED BY <1>3, <1>4 DEF Settles, contexts

\* Contexts that are not handled yet are as they were asked; the buffer is as large as ever.
ContextsFresh ==
  request # Idle =>
    \A i \in 1 .. Len(request.contexts) :
      LET x == request.contexts[i]
      IN  /\ {"aid", "iid"} \subseteq DOMAIN x
          /\ request.kind = "write" => "asked" \in DOMAIN x
          /\ i >= request.next => DOMAIN x \cap {"start", "read"} = {}
          /\ request.kind = "write" /\ i >= request.next => x.asked = x.value /\ IsJSONValue(x.value)

BufferShaped == position \in 0 .. DataBytes /\ DOMAIN owner = 1 .. DataBytes

OutcomeFields == {"status", "value", "read", "position", "start", "ev"}

\* A text that was read is in the part of the buffer that has come into use.
Placed(outcome, c, i) ==
  /\ position' \in position .. DataBytes
  /\ DOMAIN owner' = DOMAIN owner
  /\ \A b \in 1 .. position : owner'[b] = owner[b]
  /\ outcome.status = Success /\ {"start", "read"} \subseteq DOMAIN outcome /\ c.format \in Texts =>
       /\ outcome.start = position
       /\ TextLen(c, outcome.value) \in Nat
       /\ position' = position + TextLen(c, outcome.value) + 1
       /\ \A b \in position + 1 .. position' : owner'[b] = i

Handles(outcome, calls) ==
  LET i == request.next
      id == IDOf(i)
  IN  /\ i <= Len(request.contexts)
      /\ Settles(outcome, calls)
      /\ "status" \in DOMAIN outcome /\ DOMAIN outcome \subseteq OutcomeFields
      /\ "read" \in DOMAIN outcome =>
           /\ "value" \in DOMAIN outcome
           /\ id \in DOMAIN Db /\ (ReadRequiresAdmin(Db[id]) => admin[request.session])
      /\ Placed(outcome, Db[id], i)
      /\ UNCHANGED <<now, admin, timed>>

LEMMA NothingPlaced ==
  ASSUME BufferShaped, NEW outcome, "read" \notin DOMAIN outcome, UNCHANGED <<position, owner>>, NEW c, NEW i
  PROVE  Placed(outcome, c, i)
  BY DbAssumption DEF Placed, BufferShaped

\* What is written into the buffer goes behind what is in use.
LEMMA ScribbledBehind ==
  ASSUME BufferShaped, NEW n \in Nat, owner' = Scribbled(position, n)
  PROVE  /\ DOMAIN owner' = DOMAIN owner
         /\ \A b \in 1 .. position : owner'[b] = owner[b]
         /\ \A b \in position + 1 .. DataBytes : b <= position + n => owner'[b] = request.next
  BY DbAssumption DEF BufferShaped, Scribbled

\* A text that was read, with the rest of the buffer given to the application
LEMMA ReadPlaced ==
  ASSUME BufferShaped, NEW id \in DOMAIN Db, NEW v \in Values[id],
         NEW err \in Answers \ {"InvalidData", "NotAuthorized"}, NEW outcome,
         NEW o, o = ReadOutcome(Db[id], v, err, position),
         outcome.status = o.status,
         "read" \in DOMAIN outcome => "read" \in DOMAIN o /\ outcome.value = o.value,
         "start" \in DOMAIN outcome => outcome.start = position,
         position' = o.position,
         owner' = IF Db[id].format \in Texts THEN Scribbled(position, Room(position)) ELSE owner
  PROVE  Placed(outcome, Db[id], request.next)
<1> DEFINE length == TextLen(Db[id], outcome.value)
<1>1. /\ o.position \in position .. DataBytes
      /\ "read" \in DOMAIN o /\ Db[id].format \in Texts =>
           o.position = position + TextLen(Db[id], o.value) + 1 /\ TextLen(Db[id], o.value) \in Nat
  BY ReadOutcomes DEF BufferShaped
<1>2. Room(position) \in Nat /\ position + Room(position) = DataBytes
  BY DbAssumption DEF Room, BufferShaped
<1>3. CASE Db[id].format \in Texts
  <2>1. owner' = Scribbled(position, Room(position))
    BY <1>3
  <2>2. /\ DOMAIN owner' = DOMAIN owner
        /\ \A b \in 1 .. position : owner'[b] = owner[b]
        /\ \A b \in position + 1 .. DataBytes : owner'[b] = request.next
    BY <1>2, <2>1, ScribbledBehind, DbAssumption
  <2>3. position' \in position .. DataBytes
    BY <1>1
  <2>4. \A b \in position + 1 .. position' : owner'[b] = request.next
    BY <2>2, <2>3, DbAssumption DEF BufferShaped
  <2>5. {"start", "read"} \subseteq DOMAIN outcome =>
          /\ outcome.start = position /\ length \in Nat
          /\ position' = position + length + 1
    BY <1>1, <1>3
  <2> QED BY <2>2, <2>3, <2>4, <2>5 DEF Placed
<1>4. CASE Db[id].format \notin Texts
  BY <1>1, <1>4 DEF Placed
<1> QED BY <1>3, <1>4

\* The outcome of a read: what was read, the place of a text, and whether events are on
LEMMA ReadOutcomeExtended ==
  ASSUME NEW id \in DOMAIN Db, NEW v \in Values[id], NEW p \in 0 .. DataBytes,
         NEW err \in Answers \ {"InvalidData", "NotAuthorized"},
         NEW o, o = ReadOutcome(Db[id], v, err, p),
         NEW e, "start" \in DOMAIN e, DOMAIN e \subseteq {"start", "ev"}, e.start = p,
         NEW outcome, outcome = Upon(o, e)
  PROVE  /\ "status" \in DOMAIN outcome /\ DOMAIN outcome \subseteq OutcomeFields
         /\ outcome.status = o.status /\ outcome.start = p
         /\ "read" \in DOMAIN outcome =>
              "read" \in DOMAIN o /\ "value" \in DOMAIN outcome /\ outcome.value = o.value
<1>1. /\ DOMAIN o \subseteq {"status", "value", "read", "position"} /\ "status" \in DOMAIN o
      /\ "read" \in DOMAIN o => "value" \in DOMAIN o
  BY ReadOutcomes
<1>2. /\ DOMAIN outcome = DOMAIN o \cup DOMAIN e
      /\ \A x \in DOMAIN o : outcome[x] = o[x]
      /\ \A x \in DOMAIN e : x \notin DOMAIN o => outcome[x] = e[x]
  BY DEF Upon
<1>3. outcome["status"] = o["status"] /\ outcome["start"] = e["start"]
  BY <1>1, <1>2
<1>4. "value" \in DOMAIN o => outcome["value"] = o["value"]
  BY <1>2
<1>5. "read" \in DOMAIN outcome => "read" \in DOMAIN o
  BY <1>2
<1> QED BY <1>1, <1>2, <1>3, <1>4, <1>5 DEF OutcomeFields

LEMMA ReadNextHandles ==
  ASSUME RequestShaped, ContextsFresh, BufferShaped, ReadNext
  PROVE  /\ request.kind = "read" /\ UNCHANGED granted
         /\ \E outcome : Handles(outcome, request.calls)
<1> DEFINE s == request.session
           i == request.next
           id == IDOf(i)
           ev == [ev |-> id \in subs[s]]
<1>1. /\ request.kind = "read" /\ i <= Len(request.contexts) /\ request # Idle
      /\ UNCHANGED <<now, admin, timed, granted>>
  <2>1. request.kind = "read" /\ i <= Len(request.contexts) /\ UNCHANGED <<now, admin, timed, granted>>
    BY Zenon DEF ReadNext
  <2>2. request # Idle
    BY <2>1 DEF Idle
  <2> QED BY <2>1, <2>2
<1>2. ASSUME NEW outcome, Settled(i, outcome), UNCHANGED <<position, owner>>,
             DOMAIN outcome \subseteq {"status", "value", "ev"}, "status" \in DOMAIN outcome
      PROVE  Handles(outcome, request.calls)
  <2>1. Settles(outcome, request.calls)
    BY <1>1, <1>2, SettledSettles
  <2>2. "read" \notin DOMAIN outcome /\ DOMAIN outcome \subseteq OutcomeFields
    BY <1>2 DEF OutcomeFields
  <2>3. Placed(outcome, Db[id], i)
    BY <1>2, <2>2, NothingPlaced
  <2> QED BY <1>1, <1>2, <2>1, <2>2, <2>3 DEF Handles
<1>3. CASE /\ Readable(s, id) # Success
           /\ Settled(i, Upon([status |-> Readable(s, id)], ev))
           /\ UNCHANGED <<position, owner>>
  <2>1. PICK f, e : f = [status |-> Readable(s, id)] /\ e = ev
    OBVIOUS
  <2>2. DOMAIN Upon(f, e) = {"status", "ev"}
    BY <2>1 DEF Upon
  <2>3. Settled(i, Upon(f, e))
    BY <1>3, <2>1
  <2> HIDE DEF i
  <2> QED BY <1>1, <1>2, <1>3, <2>2, <2>3
<1>4. CASE /\ Readable(s, id) = Success /\ IsSwitchEvent(Db[id])
           /\ Settled(i, Upon([status |-> Success, value |-> 0], ev))
           /\ UNCHANGED <<position, owner>>
  <2>1. PICK f, e : f = [status |-> Success, value |-> 0] /\ e = ev
    OBVIOUS
  <2>2. DOMAIN Upon(f, e) = {"status", "value", "ev"}
    BY <2>1 DEF Upon
  <2>3. Settled(i, Upon(f, e))
    BY <1>4, <2>1
  <2> HIDE DEF i
  <2> QED BY <1>1, <1>2, <1>4, <2>2, <2>3
<1>5. ASSUME Readable(s, id) = Success, ~IsSwitchEvent(Db[id]),
             NEW err \in Answers \ {"InvalidData", "NotAuthorized"}, NEW v \in Values[id],
             NEW o, o = ReadOutcome(Db[id], v, err, position),
             Settled(i, Upon(o, [ev |-> id \in subs[s], start |-> position])),
             position' = o.position,
             owner' = IF Db[id].format \in Texts THEN Scribbled(position, Room(position)) ELSE owner
      PROVE  \E outcome : Handles(outcome, request.calls)
  <2>1. id \in DOMAIN Db /\ (ReadRequiresAdmin(Db[id]) => admin[s])
    BY <1>5 DEF Readable, Success, ResourceDoesNotExist, InsufficientPrivileges
  <2>2. PICK e : e = [ev |-> id \in subs[s], start |-> position]
    OBVIOUS
  <2>3. PICK outcome : outcome = Upon(o, e)
    OBVIOUS
  <2>4. "start" \in DOMAIN e /\ DOMAIN e \subseteq {"start", "ev"} /\ e.start = position
    BY <2>2
  <2>5. /\ "status" \in DOMAIN outcome /\ DOMAIN outcome \subseteq OutcomeFields
        /\ outcome.status = o.status /\ outcome.start = position
        /\ "read" \in DOMAIN outcome =>
             "read" \in DOMAIN o /\ "value" \in DOMAIN outcome /\ outcome.value = o.value
    BY <1>5, <2>1, <2>3, <2>4, ReadOutcomeExtended DEF BufferShaped
  <2>6. Placed(outcome, Db[id], i)
    BY <1>5, <2>1, <2>5, ReadPlaced
  <2>7. Settles(outcome, request.calls)
    BY <1>1, <1>5, <2>2, <2>3, SettledSettles
  <2> QED BY <1>1, <2>1, <2>5, <2>6, <2>7 DEF Handles
<1>6. \/ /\ Readable(s, id) # Success
         /\ Settled(i, Upon([status |-> Readable(s, id)], ev))
         /\ UNCHANGED <<position, owner>>
      \/ /\ Readable(s, id) = Success /\ IsSwitchEvent(Db[id])
         /\ Settled(i, Upon([status |-> Success, value |-> 0], ev))
         /\ UNCHANGED <<position, owner>>
      \/ /\ Readable(s, id) = Success /\ ~IsSwitchEvent(Db[id])
         /\ \E err \in Answers \ {"InvalidData", "NotAuthorized"}, v \in Values[id] :
              LET o == ReadOutcome(Db[id], v, err, position)
              IN  /\ Settled(i, Upon(o, [ev |-> id \in subs[s], start |-> position]))
                  /\ position' = o.position
                  /\ owner' = IF Db[id].format \in Texts THEN Scribbled(position, Room(position)) ELSE owner
  BY DEF ReadNext, IDOf
<1> HIDE DEF id, ev
<1> QED BY <1>1, <1>2, <1>3, <1>4, <1>5, <1>6

------------------------------------------------------------------------------
(* Writing                                                                                  *)

\* What may follow a write: the read of its response
LEMMA FollowUps ==
  ASSUME NEW id \in DOMAIN Db, NEW v \in Values[id], NEW p \in 0 .. DataBytes, NEW w,
         NEW err \in Answers \ {"InvalidData", "NotAuthorized"}
  PROVE  LET o == FollowUp(Db[id], w, v, err, p)
         IN  /\ DOMAIN o \subseteq {"status", "value", "read", "position"}
             /\ {"status", "position"} \subseteq DOMAIN o
             /\ o.position \in p .. DataBytes
             /\ o.status \notin Refusals
             /\ "read" \in DOMAIN o => "value" \in DOMAIN o /\ "wr" \in Db[id].props
             /\ "read" \in DOMAIN o /\ Db[id].format \in Texts =>
                  o.position = p + TextLen(Db[id], o.value) + 1 /\ TextLen(Db[id], o.value) \in Nat
<1> DEFINE o == FollowUp(Db[id], w, v, err, p)
           q == ReadOutcome(Db[id], v, err, p)
<1>1. p \in p .. DataBytes
  BY DbAssumption
<1>2. ASSUME NEW status, status \in {Success, ReadFromWriteOnlyCharacteristic},
             o = [status |-> status, position |-> p]
      PROVE  /\ DOMAIN o = {"status", "position"}
             /\ o.position = p
             /\ o.status \notin Refusals
  <2>1. status \notin Refusals
    BY <1>2 DEF Refusals, Success, InsufficientPrivileges, WriteToReadOnlyCharacteristic,
       ResourceDoesNotExist, InvalidValueInWrite, InsufficientAuthorization, ReadFromWriteOnlyCharacteristic
  <2> HIDE DEF o
  <2> QED BY <1>2, <2>1
<1>3. CASE "wr" \in Db[id].props /\ ~(q.status = Success /\ ~w.response)
  <2>1. o = q
    BY <1>3 DEF FollowUp
  <2> QED BY <1>3, <2>1, ReadOutcomes
<1>4. CASE "wr" \in Db[id].props /\ q.status = Success /\ ~w.response
  <2>1. o = [status |-> Success, position |-> p]
    BY <1>4 DEF FollowUp
  <2>2. DOMAIN o = {"status", "position"} /\ o.position = p /\ o.status \notin Refusals
    BY <1>2, <2>1
  <2> QED BY <1>1, <2>2
<1>5. CASE "wr" \notin Db[id].props
  <2>1. PICK status : /\ status \in {Success, ReadFromWriteOnlyCharacteristic}
                      /\ o = [status |-> status, position |-> p]
    BY <1>5 DEF FollowUp
  <2>2. DOMAIN o = {"status", "position"} /\ o.position = p /\ o.status \notin Refusals
    BY <1>2, <2>1
  <2> QED BY <1>1, <2>2
<1> QED BY <1>3, <1>4, <1>5

\* What the code of a status means for the call it is the status of
LEMMA StatusCodes ==
  ASSUME NEW err \in WriteErrors \cup {"None"}
  PROVE  /\ ToStatusCode(err) = Success => err = "None"
         /\ err = "None" => ToStatusCode(err) = Success
  BY DEF ToStatusCode, WriteErrors, ReadErrors, Success, UnableToPerformOperation,
     InvalidValueInWrite, StatusOutOfResources, InsufficientAuthorization, ResourceIsBusy

\* One call of the application for the context being handled
TimedCalls == {k \in DOMAIN request.calls : "tw" \in Db[request.calls[k].id].props}

Makes(outcome, call) ==
  LET s == request.session
      c == Db[call.id]
  IN  /\ call.of = request.next /\ call.id = IDOf(request.next) /\ call.id \in DOMAIN Db
      /\ call.err = "None" => outcome.status \notin Refusals
      /\ call.err # "None" => outcome.status # Success
      /\ WriteRequiresAdmin(c) => admin[s]
      /\ Numeric(c) /\ Regular(c) => InRange(call.value, c)
      /\ "tw" \in c.props => request.pid # "none"
      /\ granted' = IF "tw" \notin c.props \/ TimedCalls # {} THEN granted
                    ELSE [granted EXCEPT ![s].executed = @ + 1]

\* No call, and no success but that of a TLV8
Quiet(outcome) ==
  LET x == request.contexts[request.next]
  IN  /\ outcome.status = Success /\ x.value # NoValue =>
           Db[IDOf(request.next)].format = "TLV8" /\ x.value.type # "String"
      /\ UNCHANGED granted

\* How a context is settled with a call or without one
LEMMA CalledSettles ==
  ASSUME RequestShaped, request # Idle, NEW outcome, NEW called, NEW call,
         request' = [request EXCEPT !.next = request.next + 1,
                       !.contexts[request.next] = Upon(outcome, @),
                       !.calls = IF called THEN Append(@, call) ELSE @]
  PROVE  Settles(outcome, IF called THEN Append(request.calls, call) ELSE request.calls)
<1> DEFINE contexts == [request.contexts EXCEPT ![request.next] = Upon(outcome, @)]
           calls == IF called THEN Append(request.calls, call) ELSE request.calls
<1>1. DOMAIN request = RequestFields
  BY DEF RequestShaped
<1>2. request' = [[[request EXCEPT !.next = request.next + 1] EXCEPT !.contexts = contexts] EXCEPT !.calls = calls]
  BY <1>1 DEF RequestFields
<1> HIDE DEF contexts, calls
<1>3. /\ request'.kind = request.kind /\ request'.session = request.session
      /\ request'.at = request.at /\ request'.pid = request.pid
      /\ DOMAIN request' = DOMAIN request
      /\ request'.next = request.next + 1 /\ request'.contexts = contexts /\ request'.calls = calls
  BY <1>1, <1>2 DEF RequestFields
<1> QED BY <1>3 DEF Settles, contexts, calls

LEMMA WriteValueHandles ==
  ASSUME RequestShaped, ContextsFresh, BufferShaped,
         request.kind = "write", request.next <= Len(request.contexts),
         NEW id \in DOMAIN Db, id = IDOf(request.next),
         NEW w, w = request.contexts[request.next], w.value # NoValue,
         Writable(request.session, Db[id], w) = Success, ~TimedWriteMissing(id, w),
         WriteValue(request.session, request.next, id, w),
         UNCHANGED <<now, admin, timed>>
  PROVE  \E outcome :
           \/ Handles(outcome, request.calls) /\ Quiet(outcome)
           \/ \E call : Handles(outcome, Append(request.calls, call)) /\ Makes(outcome, call)
<1> DEFINE s == request.session
           i == request.next
           c == Db[id]
           a == Argument(c, w.value, Room(position))
           copied == IF c.format = "String" /\ "value" \in DOMAIN a THEN Len(a.value) + 1 ELSE 0
<1>1. PICK err \in Answers, readErr \in Answers \ {"InvalidData", "NotAuthorized"}, v \in Values[id] :
        LET h == HandleWrite(c, a.value, err)
            called == "value" \in DOMAIN a /\ h.called
            status == IF "value" \in DOMAIN a THEN ToStatusCode(h.err) ELSE a.status
            o == FollowUp(c, w, v, readErr, position)
        IN  /\ request' = [request EXCEPT !.next = i + 1,
                 !.contexts[i] = Upon(IF status = Success THEN Upon(o, [start |-> position])
                                       ELSE [status |-> status], @),
                 !.calls = IF called THEN Append(@, [of |-> i, id |-> id,
                                                     err |-> h.err, value |-> h.value]) ELSE @]
            /\ position' = IF status = Success THEN o.position ELSE position
            /\ owner' = IF status = Success /\ "wr" \in c.props /\ c.format \in Texts
                        THEN Scribbled(position, Room(position)) ELSE Scribbled(position, copied)
            /\ granted' = IF ~called \/ "tw" \notin c.props \/ TimedCalls # {}
                          THEN granted ELSE [granted EXCEPT ![s].executed = @ + 1]
  BY DEF WriteValue, TimedCalls
<1> DEFINE h == HandleWrite(c, a.value, err)
           called == "value" \in DOMAIN a /\ h.called
           status == IF "value" \in DOMAIN a THEN ToStatusCode(h.err) ELSE a.status
           o == FollowUp(c, w, v, readErr, position)
           outcome == IF status = Success THEN Upon(o, [start |-> position]) ELSE [status |-> status]
           call == [of |-> i, id |-> id, err |-> h.err, value |-> h.value]
<1>2. request # Idle /\ IsJSONValue(w.value) /\ c.format \in Formats
  BY TypesAssumption DEF Idle, ContextsFresh, RequestShaped
<1>3. \/ /\ a = Passed(a.value)
         /\ Numeric(c) => a.value \in Int
         /\ c.format = "String" => Len(a.value) \in Nat
      \/ /\ a = NotPassed(a.status)
         /\ \/ a.status \in {InvalidValueInWrite, StatusOutOfResources}
            \/ a.status = Success /\ c.format = "TLV8" /\ w.value.type # "String"
  BY <1>2, Arguments
<1>4. \/ h = Refused
      \/ /\ h = Called(h.value, err)
         /\ Numeric(c) /\ Regular(c) /\ a.value \in Int => InRange(h.value, c)
  BY WritesAreGuarded
<1>5. /\ DOMAIN o \subseteq {"status", "value", "read", "position"}
      /\ {"status", "position"} \subseteq DOMAIN o
      /\ o.position \in position .. DataBytes
      /\ o.status \notin Refusals
      /\ "read" \in DOMAIN o => "value" \in DOMAIN o /\ "wr" \in c.props
      /\ "read" \in DOMAIN o /\ c.format \in Texts =>
           o.position = position + TextLen(c, o.value) + 1 /\ TextLen(c, o.value) \in Nat
  BY FollowUps DEF BufferShaped
<1>6. /\ "value" \in DOMAIN a <=> a = Passed(a.value)
      /\ "value" \notin DOMAIN a =>
           \/ a.status \in {InvalidValueInWrite, StatusOutOfResources}
           \/ a.status = Success /\ c.format = "TLV8" /\ w.value.type # "String"
      /\ "value" \in DOMAIN a => /\ Numeric(c) => a.value \in Int
                                 /\ c.format = "String" => Len(a.value) \in Nat
  <2> HIDE DEF a
  <2> QED BY <1>3 DEF Passed, NotPassed
<1>7. /\ Settles(outcome, IF called THEN Append(request.calls, call) ELSE request.calls)
  <2>1. request' = [request EXCEPT !.next = request.next + 1,
                      !.contexts[request.next] = Upon(outcome, @),
                      !.calls = IF called THEN Append(@, call) ELSE @]
    BY <1>1
  <2> HIDE DEF outcome, called, call
  <2> QED BY <1>2, <2>1, CalledSettles
<1>8. /\ position' = IF status = Success THEN o.position ELSE position
      /\ owner' = IF status = Success /\ "wr" \in c.props /\ c.format \in Texts
                  THEN Scribbled(position, Room(position)) ELSE Scribbled(position, copied)
      /\ granted' = IF ~called \/ "tw" \notin c.props \/ TimedCalls # {}
                    THEN granted ELSE [granted EXCEPT ![s].executed = @ + 1]
  BY <1>1
<1>9. /\ called => h = Called(h.value, err) /\ h.err = err
      /\ "value" \in DOMAIN a /\ ~called => h.err = "InvalidData"
      /\ called /\ Numeric(c) /\ Regular(c) => InRange(h.value, c)
  <2> HIDE DEF h, a
  <2>1. CASE h = Refused
    <3>1. ~h.called /\ h.err = "InvalidData"
      BY <2>1 DEF Refused
    <3> QED BY <3>1
  <2>2. CASE h = Called(h.value, err)
    <3>1. PICK y : y = h.value
      OBVIOUS
    <3>2. h = [called |-> TRUE, value |-> y, err |-> err]
      BY <2>2, <3>1 DEF Called
    <3>3. h.called /\ h.err = err
      BY <3>2
    <3>4. h # Refused
      BY <3>3 DEF Refused
    <3>5. Numeric(c) /\ Regular(c) /\ a.value \in Int => InRange(h.value, c)
      BY <1>4, <3>4, Zenon
    <3>6. called /\ Numeric(c) => a.value \in Int
      BY <1>6, Zenon
    <3> QED BY <2>2, <3>3, <3>5, <3>6, Zenon
  <2> QED BY <1>4, <2>1, <2>2
<1>10. copied \in Nat
  <2> HIDE DEF a
  <2> QED BY <1>6
<1> HIDE DEF a, h, called, copied, o
<1>11. /\ status = Success => /\ DOMAIN outcome = DOMAIN o \cup {"start"}
                              /\ outcome.status = o.status /\ outcome.start = position
                              /\ "value" \in DOMAIN o => outcome.value = o.value
       /\ status # Success => DOMAIN outcome = {"status"} /\ outcome.status = status
  <2>1. CASE status = Success
    <3>1. PICK e : e = [start |-> position]
      OBVIOUS
    <3>2. PICK u : u = Upon(o, e)
      OBVIOUS
    <3>3. /\ DOMAIN u = DOMAIN o \cup {"start"}
          /\ u["status"] = o["status"] /\ u["start"] = position
          /\ "value" \in DOMAIN o => u["value"] = o["value"]
      BY <3>1, <3>2, <1>5 DEF Upon
    <3>4. outcome = u
      BY <2>1, <3>1, <3>2
    <3> QED BY <2>1, <3>3, <3>4
  <2>2. CASE status # Success
    <3>1. outcome = [status |-> status]
      BY <2>2
    <3> HIDE DEF outcome, status
    <3> QED BY <2>2, <3>1
  <2> QED BY <2>1, <2>2
<1>12. /\ called => (status = Success <=> h.err = "None")
       /\ ~called /\ "value" \in DOMAIN a => status # Success
       /\ ~called /\ status = Success => c.format = "TLV8" /\ w.value.type # "String"
  <2>1. err \in WriteErrors \cup {"None"} /\ "InvalidData" \in WriteErrors
    BY DbAssumption DEF WriteErrors
  <2>2. "value" \in DOMAIN a => /\ called => h.err \in WriteErrors \cup {"None"}
                                /\ ~called => h.err \in WriteErrors /\ h.err # "None"
    BY <1>9, <2>1
  <2>3. called => "value" \in DOMAIN a
    BY DEF called
  <2>4. "value" \in DOMAIN a => status = ToStatusCode(h.err)
    OBVIOUS
  <2>5. "value" \notin DOMAIN a => status = a.status
    OBVIOUS
  <2>6. Success \notin {InvalidValueInWrite, StatusOutOfResources}
    BY DEF Success, InvalidValueInWrite, StatusOutOfResources
  <2>7. h.err \in WriteErrors \cup {"None"} => (ToStatusCode(h.err) = Success <=> h.err = "None")
    BY StatusCodes
  <2> HIDE DEF status
  <2>8. called => (status = Success <=> h.err = "None")
    BY <2>2, <2>3, <2>4, <2>7, Zenon
  <2>9. ~called /\ "value" \in DOMAIN a => status # Success
    BY <2>2, <2>4, <2>7
  <2>10. "value" \notin DOMAIN a /\ status = Success => c.format = "TLV8" /\ w.value.type # "String"
    BY <1>6, <2>5, <2>6
  <2> QED BY <2>8, <2>9, <2>10
<1> HIDE DEF outcome, status
<1>13. "status" \in DOMAIN outcome /\ DOMAIN outcome \subseteq OutcomeFields
  BY <1>5, <1>11 DEF OutcomeFields
<1>14. "read" \in DOMAIN outcome =>
         "value" \in DOMAIN outcome /\ (ReadRequiresAdmin(c) => admin[s])
  <2>1. "read" \in DOMAIN outcome => "wr" \in c.props /\ "value" \in DOMAIN outcome
    BY <1>5, <1>11
  <2> QED BY <2>1 DEF Writable, Success, InsufficientPrivileges
<1>15. Placed(outcome, c, i)
  <2>1. position' \in position .. DataBytes
    BY <1>5, <1>8, DbAssumption DEF BufferShaped
  <2>2. PICK n \in Nat : /\ owner' = Scribbled(position, n)
                         /\ status = Success /\ "wr" \in c.props /\ c.format \in Texts => n = Room(position)
    BY <1>8, <1>10, DbAssumption DEF Room, BufferShaped
  <2>3. {"start", "read"} \subseteq DOMAIN outcome /\ c.format \in Texts =>
           /\ n = Room(position) /\ outcome.start = position
           /\ TextLen(c, outcome.value) \in Nat
           /\ position' = position + TextLen(c, outcome.value) + 1
    <3>1. SUFFICES ASSUME "start" \in DOMAIN outcome, "read" \in DOMAIN outcome, c.format \in Texts
                   PROVE  /\ n = Room(position) /\ outcome.start = position
                          /\ TextLen(c, outcome.value) \in Nat
                          /\ position' = position + TextLen(c, outcome.value) + 1
      OBVIOUS
    <3>2. status = Success /\ "read" \in DOMAIN o
      BY <3>1, <1>11
    <3>3. /\ "wr" \in c.props /\ outcome.value = o.value /\ outcome.start = position
          /\ position' = o.position
      BY <3>2, <1>5, <1>8, <1>11
    <3> QED BY <3>1, <3>2, <3>3, <2>2, <1>5, Zenon
  <2>4. /\ DOMAIN owner' = DOMAIN owner
        /\ \A b \in 1 .. position : owner'[b] = owner[b]
        /\ \A b \in position + 1 .. DataBytes : b <= position + n => owner'[b] = i
    <3>1. owner' = Scribbled(position, n)
      BY <2>2
    <3> HIDE DEF c
    <3> QED BY <3>1, ScribbledBehind
  <2>5. n = Room(position) => \A b \in position + 1 .. position' : owner'[b] = i
    BY <2>1, <2>4, DbAssumption DEF Room, BufferShaped
  <2> HIDE DEF c, i
  <2> QED BY <2>1, <2>3, <2>4, <2>5 DEF Placed
<1>16. Handles(outcome, IF called THEN Append(request.calls, call) ELSE request.calls)
  <2> HIDE DEF call
  <2> QED BY <1>7, <1>13, <1>14, <1>15 DEF Handles
<1>17. CASE ~called
  <2>1. outcome.status = Success => status = Success
    BY <1>11
  <2>2. Quiet(outcome)
    BY <1>8, <1>12, <1>17, <2>1 DEF Quiet
  <2> QED BY <1>16, <1>17, <2>2
<1>18. CASE called
  <2>1. /\ h.err = "None" => outcome.status \notin Refusals
        /\ h.err # "None" => outcome.status # Success
    BY <1>5, <1>11, <1>12, <1>18
  <2>2. WriteRequiresAdmin(c) => admin[s]
    BY DEF Writable, Success, InsufficientPrivileges
  <2>3. "tw" \in c.props => request.pid # "none"
    BY DEF TimedWriteMissing
  <2>4. /\ call.of = i /\ call.id = id /\ call.err = h.err /\ call.value = h.value
    OBVIOUS
  <2>5. granted' = IF "tw" \notin c.props \/ TimedCalls # {} THEN granted
                   ELSE [granted EXCEPT ![s].executed = @ + 1]
    BY <1>8, <1>18
  <2>6. Numeric(c) /\ Regular(c) => InRange(h.value, c)
    BY <1>9, <1>18
  <2> HIDE DEF call
  <2>7. Makes(outcome, call)
    BY <2>1, <2>2, <2>3, <2>4, <2>5, <2>6 DEF Makes
  <2> QED BY <1>16, <1>18, <2>7
<1> QED BY <1>17, <1>18

LEMMA WriteNextHandles ==
  ASSUME RequestShaped, ContextsFresh, BufferShaped, WriteNext
  PROVE  /\ request.kind = "write"
         /\ \E outcome :
              \/ Handles(outcome, request.calls) /\ Quiet(outcome)
              \/ \E call : Handles(outcome, Append(request.calls, call)) /\ Makes(outcome, call)
<1> DEFINE s == request.session
           i == request.next
           w == request.contexts[i]
           id == IDOf(i)
<1>1. /\ request.kind = "write" /\ i <= Len(request.contexts) /\ request # Idle
      /\ UNCHANGED <<now, admin, timed>>
  BY DEF WriteNext, Idle
<1>2. ASSUME NEW status, Settled(i, [status |-> status]), UNCHANGED <<position, owner, granted>>,
             status # Success \/ w.value = NoValue
      PROVE  \E outcome : Handles(outcome, request.calls) /\ Quiet(outcome)
  <2>1. PICK outcome : outcome = [status |-> status]
    OBVIOUS
  <2>2. DOMAIN outcome = {"status"} /\ outcome.status = status /\ Settled(i, outcome)
    BY <1>2, <2>1
  <2>3. Settles(outcome, request.calls)
    BY <1>1, <2>2, SettledSettles
  <2>4. "read" \notin DOMAIN outcome /\ "status" \in DOMAIN outcome /\ DOMAIN outcome \subseteq OutcomeFields
    BY <2>2 DEF OutcomeFields
  <2>5. Placed(outcome, Db[id], i)
    BY <1>2, <2>4, NothingPlaced
  <2>6. Quiet(outcome)
    BY <1>2, <2>2 DEF Quiet
  <2> HIDE DEF i
  <2>7. Handles(outcome, request.calls)
    BY <1>1, <2>3, <2>4, <2>5 DEF Handles, i
  <2> QED BY <2>6, <2>7
<1>3. CASE /\ id \notin DOMAIN Db
           /\ Settled(i, [status |-> ResourceDoesNotExist])
           /\ UNCHANGED <<subs, position, owner, granted>>
  <2>1. ResourceDoesNotExist # Success
    BY DEF ResourceDoesNotExist, Success
  <2> QED BY <1>1, <1>2, <1>3, <2>1
<1>4. CASE /\ id \in DOMAIN Db /\ TimedWriteMissing(id, w)
           /\ Settled(i, [status |-> InvalidValueInWrite])
           /\ UNCHANGED <<subs, position, owner, granted>>
  <2>1. InvalidValueInWrite # Success
    BY DEF InvalidValueInWrite, Success
  <2> QED BY <1>1, <1>2, <1>4, <2>1
<1>5. CASE /\ w.value = NoValue
           /\ Settled(i, [status |-> IF w.ev = "undefined" THEN InvalidValueInWrite
                                     ELSE EventStatus(s, id, w)])
           /\ UNCHANGED <<position, owner, granted>>
  BY <1>1, <1>2, <1>5
<1>6. CASE /\ id \in DOMAIN Db /\ ~TimedWriteMissing(id, w) /\ w.value # NoValue
           /\ IF Writable(s, Db[id], w) # Success
              THEN Settled(i, [status |-> Writable(s, Db[id], w)]) /\ UNCHANGED <<position, owner, granted>>
              ELSE WriteValue(s, i, id, w)
  <2>1. CASE Writable(s, Db[id], w) # Success
    BY <1>1, <1>2, <1>6, <2>1
  <2>2. CASE Writable(s, Db[id], w) = Success
    <3>1. PICK d \in DOMAIN Db : d = id
      BY <1>6
    <3>2. PICK x : x = w
      OBVIOUS
    <3>3. /\ x.value # NoValue /\ Writable(s, Db[d], x) = Success /\ ~TimedWriteMissing(d, x)
          /\ WriteValue(s, i, d, x) /\ d = IDOf(i) /\ x = request.contexts[i]
      BY <1>6, <2>2, <3>1, <3>2
    <3> QED BY <1>1, <3>3, WriteValueHandles
  <2> QED BY <2>1, <2>2
<1> QED
  <2>1. \/ /\ id \notin DOMAIN Db
           /\ Settled(i, [status |-> ResourceDoesNotExist])
           /\ UNCHANGED <<subs, position, owner, granted>>
        \/ /\ id \in DOMAIN Db /\ TimedWriteMissing(id, w)
           /\ Settled(i, [status |-> InvalidValueInWrite])
           /\ UNCHANGED <<subs, position, owner, granted>>
        \/ /\ w.value = NoValue
           /\ Settled(i, [status |-> IF w.ev = "undefined" THEN InvalidValueInWrite
                                     ELSE EventStatus(s, id, w)])
           /\ UNCHANGED <<position, owner, granted>>
        \/ /\ id \in DOMAIN Db /\ ~TimedWriteMissing(id, w) /\ w.value # NoValue
           /\ IF Writable(s, Db[id], w) # Success
              THEN Settled(i, [status |-> Writable(s, Db[id], w)]) /\ UNCHANGED <<position, owner, granted>>
              ELSE WriteValue(s, i, id, w)
    BY DEF WriteNext, IDOf
  <2> HIDE DEF id, w
  <2> QED BY <1>3, <1>4, <1>5, <1>6, <2>1
------------------------------------------------------------------------------
(* The invariant                                                                            *)

Pids == {"none"} \cup {WritePreparation(body).pid : body \in Preparations}
TimesShaped ==
  /\ now \in Nat \ {0}
  /\ timed \in [Sessions -> [expires : Nat, pid : Pids]]
  /\ granted \in [Sessions -> [pid : Pids, until : Nat, executed : Nat]]

\* A preparation that counts is the last one granted, and not executed yet but by the request
\* under way ...
PreparationKept ==
  \A s \in Sessions :
    timed[s].expires # 0 =>
      /\ granted[s].pid = timed[s].pid /\ timed[s].expires <= granted[s].until
      /\ granted[s].executed = 0
         \/ (request.kind = "write" /\ request.session = s /\ request.pid # "none")

\* ... which has found it in time, if it names one, and else writes nothing that needs it.
PreparationInUse ==
  request.kind = "write" =>
    LET s == request.session
    IN  IF request.pid = "none" THEN TimedCalls = {}
        ELSE /\ timed[s].expires # 0 /\ timed[s].pid = request.pid /\ request.at <= timed[s].expires
             /\ granted[s].executed = IF TimedCalls = {} THEN 0 ELSE 1

CallsShaped ==
  /\ request.kind = "read" => request.calls = <<>>
  /\ request.kind = "write" =>
       \A k \in DOMAIN request.calls :
         LET call == request.calls[k]
         IN  call.of \in 1 .. request.next - 1 /\ call.id = IDOf(call.of) /\ call.id \in DOMAIN Db

\* The texts read so far lie one behind the other in the part of the buffer in use.
TextsKept ==
  \A i \in Handled :
    LET x == request.contexts[i]
        c == Db[IDOf(i)]
    IN  x.status = Success /\ {"start", "read"} \subseteq DOMAIN x /\ c.format \in Texts =>
          /\ x.start \in Nat /\ TextLen(c, x.value) \in Nat
          /\ x.start + TextLen(c, x.value) < position
          /\ \A b \in x.start + 1 .. x.start + TextLen(c, x.value) : owner[b] = i

Shaped == RequestShaped /\ ContextsFresh /\ BufferShaped /\ CallsShaped /\ TimesShaped
IInv == /\ Shaped /\ PreparationKept /\ PreparationInUse
        /\ TextsKept /\ StatusTruthful /\ HandlersGuarded

\* The invariant says of timed writes and of texts what the properties say.
THEOREM InvariantSuffices ==
  ASSUME IInv
  PROVE  TimedWriteGranted /\ ResponsesIntact
<1>1. TimedWriteGranted
  <2> SUFFICES ASSUME NEW i \in Handled, NEW k \in WritesOf(i), "tw" \in Db[request.calls[k].id].props
               PROVE  LET g == granted[request.session]
                      IN  g.pid = request.pid /\ request.at <= g.until /\ g.executed = 1
    BY DEF TimedWriteGranted
  <2>1. k \in TimedCalls /\ k \in DOMAIN request.calls
    BY DEF WritesOf, TimedCalls
  <2>2. request.kind = "write" /\ request.session \in Sessions /\ request.at \in Nat
    <3>1. request # Idle
      BY DEF Handled, Idle
    <3>2. request.kind # "read"
      BY <2>1 DEF IInv, Shaped, CallsShaped
    <3> QED BY <3>1, <3>2 DEF IInv, Shaped, RequestShaped
  <2>3. request.pid # "none"
    BY <2>1, <2>2 DEF IInv, PreparationInUse
  <2> DEFINE s == request.session
  <2>4. /\ timed[s].expires # 0 /\ timed[s].pid = request.pid /\ request.at <= timed[s].expires
        /\ granted[s].executed = 1
    BY <2>1, <2>2, <2>3 DEF IInv, PreparationInUse
  <2>5. granted[s].pid = timed[s].pid /\ timed[s].expires <= granted[s].until
    BY <2>2, <2>4 DEF IInv, PreparationKept
  <2>6. timed[s].expires \in Nat /\ granted[s].until \in Nat
    BY <2>2 DEF IInv, Shaped, TimesShaped
  <2> QED BY <2>2, <2>4, <2>5, <2>6
<1>2. ResponsesIntact
  <2> SUFFICES ASSUME NEW i \in Handled,
                      request.contexts[i].status = Success, "start" \in DOMAIN request.contexts[i],
                      "read" \in DOMAIN request.contexts[i], Db[IDOf(i)].format \in Texts
               PROVE  LET x == request.contexts[i]
                          length == TextLen(Db[IDOf(i)], x.value)
                      IN  /\ x.start + length < DataBytes
                          /\ \A b \in x.start + 1 .. x.start + length : owner[b] = i
    BY DEF ResponsesIntact, TextLen
  <2> QED BY DbAssumption DEF IInv, Shaped, BufferShaped, TextsKept
<1> QED BY <1>1, <1>2

\* It holds before the first request ...
THEOREM InitInvariant == Init => IInv
<1> SUFFICES ASSUME Init PROVE IInv
  OBVIOUS
<1>1. request = Idle /\ request.kind = "none" /\ Handled = {}
  BY DEF Init, Idle, Handled
<1>2. Shaped
  BY <1>1, DbAssumption DEF Init, Shaped, RequestShaped, ContextsFresh, BufferShaped, CallsShaped, TimesShaped,
     NotPrepared, NotGranted, Pids
<1>3. PreparationKept /\ PreparationInUse
  BY <1>1 DEF Init, PreparationKept, PreparationInUse, NotPrepared
<1>4. TextsKept /\ StatusTruthful /\ HandlersGuarded
  BY <1>1 DEF TextsKept, StatusTruthful, HandlersGuarded
<1> QED BY <1>2, <1>3, <1>4 DEF IInv

------------------------------------------------------------------------------
(* Steps between requests                                                                   *)

LEMMA IdleInvariant ==
  ASSUME request' = Idle, BufferShaped', TimesShaped', PreparationKept'
  PROVE  IInv'
<1>1. request'.kind = "none" /\ Handled' = {}
  BY DEF Idle, Handled
<1>2. Shaped'
  BY <1>1 DEF Shaped, RequestShaped, ContextsFresh, CallsShaped
<1>3. PreparationInUse' /\ TextsKept' /\ StatusTruthful' /\ HandlersGuarded'
  BY <1>1 DEF PreparationInUse, TextsKept, StatusTruthful, HandlersGuarded
<1> QED BY <1>2, <1>3 DEF IInv

LEMMA WhenIdle ==
  ASSUME IInv, request.kind = "none"
  PROVE  /\ request = Idle
         /\ \A s \in Sessions : timed[s].expires # 0 =>
              /\ granted[s].pid = timed[s].pid /\ timed[s].expires <= granted[s].until
              /\ granted[s].executed = 0
  BY DEF IInv, Shaped, RequestShaped, PreparationKept

LEMMA PrepareInvariant ==
  ASSUME IInv, NEW s \in Sessions, PutPrepare(s)
  PROVE  IInv'
<1>1. /\ request = Idle /\ request' = Idle /\ request.kind = "none"
      /\ UNCHANGED <<now, position, owner>>
  BY WhenIdle DEF PutPrepare
<1>2. BufferShaped'
  BY <1>1 DEF IInv, Shaped, BufferShaped
<1>3. CASE UNCHANGED <<timed, granted>>
  <2>1. TimesShaped'
    BY <1>1, <1>3 DEF IInv, Shaped, TimesShaped
  <2>2. PreparationKept'
    BY <1>1, <1>3 DEF IInv, PreparationKept
  <2> QED BY <1>1, <1>2, <2>1, <2>2, IdleInvariant
<1>4. ASSUME NEW body \in Preparations, WritePreparation(body).err = "none",
             NEW p, p = WritePreparation(body), NEW until, until = now + Number[p.ttl],
             NEW t, t = [expires |-> IF until > MaxTime THEN MaxTime ELSE until, pid |-> p.pid],
             NEW g, g = [pid |-> p.pid, until |-> until, executed |-> 0],
             timed' = [timed EXCEPT ![s] = t], granted' = [granted EXCEPT ![s] = g]
      PROVE  IInv'
  <2>1. p.pid \in Pids
    BY <1>4 DEF Pids
  <2>2. until \in Nat /\ now \in Nat
    <3>1. Number[p.ttl] \in Nat /\ now \in Nat
      BY <1>4, TypesAssumption DEF IInv, Shaped, TimesShaped
    <3> QED BY <1>4, <3>1
  <2>3. /\ t \in [expires : Nat, pid : Pids] /\ t.expires <= until /\ t.pid = p.pid
    BY <1>4, <2>1, <2>2, DbAssumption
  <2>4. /\ g \in [pid : Pids, until : Nat, executed : Nat]
        /\ g.pid = p.pid /\ g.until = until /\ g.executed = 0
    BY <1>4, <2>1, <2>2
  <2>5. TimesShaped'
    BY <1>1, <1>4, <2>3, <2>4 DEF IInv, Shaped, TimesShaped
  <2>6. /\ timed'[s] = t /\ granted'[s] = g
        /\ \A u \in Sessions : u # s => timed'[u] = timed[u] /\ granted'[u] = granted[u]
    BY <1>4 DEF IInv, Shaped, TimesShaped
  <2>7. PreparationKept'
    BY <1>1, <2>3, <2>4, <2>6, WhenIdle DEF PreparationKept
  <2> QED BY <1>1, <1>2, <2>5, <2>7, IdleInvariant
<1>5. PICK body \in Preparations :
        LET p == WritePreparation(body)
            until == now + Number[p.ttl]
        IN  IF p.err # "none"
            THEN UNCHANGED <<timed, granted>>
            ELSE /\ timed' = [timed EXCEPT ![s] =
                      [expires |-> IF until > MaxTime THEN MaxTime ELSE until, pid |-> p.pid]]
                 /\ granted' = [granted EXCEPT ![s] = [pid |-> p.pid, until |-> until, executed |-> 0]]
  BY DEF PutPrepare
<1>6. CASE WritePreparation(body).err = "none"
  <2>1. PICK p, until : p = WritePreparation(body) /\ until = now + Number[p.ttl]
    OBVIOUS
  <2>2. PICK t, g : /\ t = [expires |-> IF until > MaxTime THEN MaxTime ELSE until, pid |-> p.pid]
                    /\ g = [pid |-> p.pid, until |-> until, executed |-> 0]
    OBVIOUS
  <2>3. timed' = [timed EXCEPT ![s] = t] /\ granted' = [granted EXCEPT ![s] = g]
    BY <1>5, <1>6, <2>1, <2>2
  <2> QED BY <1>4, <1>6, <2>1, <2>2, <2>3
<1> QED BY <1>3, <1>5, <1>6

\* A request that begins has nothing handled yet.
LEMMA RequestBegins ==
  ASSUME IInv, request.kind = "none", NEW kind \in {"read", "write"}, NEW s \in Sessions,
         NEW contexts, IsSequence(contexts), NEW pid,
         request' = [kind |-> kind, session |-> s, contexts |-> contexts, next |-> 1, calls |-> <<>>,
                     at |-> now, pid |-> pid],
         \A i \in 1 .. Len(contexts) :
           LET x == contexts[i]
           IN  /\ {"aid", "iid"} \subseteq DOMAIN x
               /\ DOMAIN x \cap {"start", "read"} = {}
               /\ kind = "write" => "asked" \in DOMAIN x /\ x.asked = x.value /\ IsJSONValue(x.value),
         kind = "write" /\ pid # "none" => MayExecute(s, pid),
         ClearBuffer, UNCHANGED <<now, admin, timed, granted>>
  PROVE  IInv'
<1>1. /\ request'.kind = kind /\ request'.session = s /\ request'.contexts = contexts /\ request'.next = 1
      /\ request'.calls = <<>> /\ request'.at = now /\ request'.pid = pid /\ DOMAIN request' = RequestFields
  BY DEF RequestFields
<1>2. Handled' = {} /\ request'.kind # "none" /\ request' # Idle
  BY <1>1 DEF Handled, Idle
<1>3. IsSequence(<<>>) /\ DOMAIN <<>> = {}
  BY DEF IsSequence
<1>4. RequestShaped'
  <2>1. now \in Nat
    BY DEF IInv, Shaped, TimesShaped
  <2>2. 1 \in 1 .. Len(contexts) + 1
    BY DEF IsSequence
  <2> QED BY <1>1, <1>3, <2>1, <2>2 DEF RequestShaped
<1>5. ContextsFresh'
  BY <1>1 DEF ContextsFresh
<1>6. BufferShaped'
  BY DbAssumption DEF ClearBuffer, BufferShaped
<1>7. CallsShaped'
  BY <1>1, <1>3 DEF CallsShaped
<1>8. TimesShaped'
  BY DEF IInv, Shaped, TimesShaped
<1>9. \A u \in Sessions : timed[u].expires # 0 =>
        /\ granted[u].pid = timed[u].pid /\ timed[u].expires <= granted[u].until
        /\ granted[u].executed = 0
  BY WhenIdle
<1>10. PreparationKept'
  BY <1>9 DEF PreparationKept
<1>11. PreparationInUse'
  <2>1. TimedCalls' = {}
    BY <1>1, <1>3 DEF TimedCalls
  <2>2. now <= timed[s].expires <=> timed[s].expires >= now
    BY DEF IInv, Shaped, TimesShaped
  <2> QED BY <1>1, <1>9, <2>1, <2>2 DEF PreparationInUse, MayExecute
<1>12. TextsKept' /\ StatusTruthful' /\ HandlersGuarded'
  BY <1>2 DEF TextsKept, StatusTruthful, HandlersGuarded
<1> QED BY <1>4, <1>5, <1>6, <1>7, <1>8, <1>10, <1>11, <1>12 DEF IInv, Shaped

LEMMA WriteRequestInvariant ==
  ASSUME IInv, NEW s \in Sessions, PutCharacteristics(s)
  PROVE  IInv'
<1>1. PICK body \in Writes :
        LET r == WriteRequests(body, MaxContexts)
        IN  /\ request.kind = "none"
            /\ \/ UNCHANGED <<timed, request, position, owner>>
               \/ ResetTimedWrite(s, r.pid) /\ UNCHANGED <<request, position, owner>>
               \/ /\ r.err = "none" /\ (r.pid # "none" => MayExecute(s, r.pid)) /\ r.writes # <<>>
                  /\ request' = [Handling("write", s, [i \in DOMAIN r.writes |->
                                   Upon([asked |-> r.writes[i].value], r.writes[i])]) EXCEPT !.pid = r.pid]
                  /\ ClearBuffer
                  /\ UNCHANGED timed
            /\ UNCHANGED <<now, admin, subs, granted>>
  BY DEF PutCharacteristics
<1> DEFINE r == WriteRequests(body, MaxContexts)
<1>2. request = Idle
  BY <1>1, WhenIdle
<1>3. CASE UNCHANGED <<timed, request, position, owner>>
  <2>1. BufferShaped' /\ TimesShaped' /\ PreparationKept'
    BY <1>1, <1>3 DEF IInv, Shaped, BufferShaped, TimesShaped, PreparationKept
  <2> QED BY <1>2, <1>3, <2>1, IdleInvariant
<1>4. CASE ResetTimedWrite(s, r.pid) /\ UNCHANGED <<request, position, owner>>
  <2> HIDE DEF r
  <2>1. timed' = timed \/ timed' = [timed EXCEPT ![s] = NotPrepared]
    BY <1>4 DEF ResetTimedWrite
  <2>2. BufferShaped'
    BY <1>4 DEF IInv, Shaped, BufferShaped
  <2>3. NotPrepared \in [expires : Nat, pid : Pids] /\ NotPrepared.expires = 0
    BY DEF NotPrepared, Pids
  <2>4. /\ TimesShaped'
        /\ \A u \in Sessions : timed'[u] = timed[u] \/ timed'[u].expires = 0
    BY <1>1, <2>1, <2>3 DEF IInv, Shaped, TimesShaped
  <2>5. PreparationKept'
    BY <1>1, <1>4, <2>4 DEF IInv, PreparationKept
  <2> QED BY <1>2, <1>4, <2>2, <2>4, <2>5, IdleInvariant
<1>5. CASE /\ r.err = "none" /\ (r.pid # "none" => MayExecute(s, r.pid)) /\ r.writes # <<>>
           /\ request' = [Handling("write", s, [i \in DOMAIN r.writes |->
                            Upon([asked |-> r.writes[i].value], r.writes[i])]) EXCEPT !.pid = r.pid]
           /\ ClearBuffer
           /\ UNCHANGED timed
  <2>1. PICK writes, pid : writes = r.writes /\ pid = r.pid
    OBVIOUS
  <2>2. /\ IsSequence(writes)
        /\ \A i \in DOMAIN writes : /\ DOMAIN writes[i] = DOMAIN EmptyWrite
                                    /\ IsJSONValue(writes[i].value)
    BY <1>5, <2>1, TypesAssumption
  <2>3. PICK contexts : contexts = [i \in DOMAIN writes |-> Upon([asked |-> writes[i].value], writes[i])]
    OBVIOUS
  <2>4. request' = [Handling("write", s, contexts) EXCEPT !.pid = pid]
    BY <1>5, <2>1, <2>3
  <2> HIDE DEF r
  <2>5. request' = [kind |-> "write", session |-> s, contexts |-> contexts, next |-> 1, calls |-> <<>>,
                    at |-> now, pid |-> pid]
    BY <2>4 DEF Handling
  <2>6. DOMAIN writes = 1 .. Len(writes) /\ Len(writes) \in Nat
    BY <2>2 DEF IsSequence
  <2>7. contexts \in [1 .. Len(writes) -> {contexts[i] : i \in 1 .. Len(writes)}]
    BY <2>3, <2>6
  <2>8. Len(contexts) = Len(writes) /\ IsSequence(contexts)
    BY <2>6, <2>7 DEF IsSequence
  <2>9. ASSUME NEW i \in 1 .. Len(contexts)
        PROVE  LET x == contexts[i]
               IN  /\ {"aid", "iid"} \subseteq DOMAIN x
                   /\ DOMAIN x \cap {"start", "read"} = {}
                   /\ "asked" \in DOMAIN x /\ x.asked = x.value /\ IsJSONValue(x.value)
    <3>1. PICK w, e : w = writes[i] /\ e = [asked |-> w.value]
      OBVIOUS
    <3>2. contexts[i] = Upon(e, w)
      BY <2>3, <2>6, <2>8, <3>1
    <3>3. /\ DOMAIN w = {"err", "aid", "iid", "value", "ev", "auth", "remote", "response"}
          /\ IsJSONValue(w.value)
      BY <2>2, <2>6, <2>8, <3>1 DEF EmptyWrite
    <3>4. /\ DOMAIN contexts[i] = DOMAIN w \cup {"asked"}
          /\ contexts[i]["asked"] = w.value /\ contexts[i]["value"] = w["value"]
      BY <3>1, <3>2, <3>3 DEF Upon
    <3> QED BY <3>3, <3>4
  <2>10. pid # "none" => MayExecute(s, pid)
    BY <1>5, <2>1
  <2> QED BY <1>1, <1>5, <2>5, <2>8, <2>9, <2>10, RequestBegins
<1> HIDE DEF r
<1> QED BY <1>1, <1>3, <1>4, <1>5 DEF r

LEMMA ReadRequestInvariant ==
  ASSUME IInv, NEW s \in Sessions, GetCharacteristics(s)
  PROVE  IInv'
<1>1. PICK query \in Reads :
        LET r == ReadRequests(query, MaxContexts)
            contexts == [i \in DOMAIN r.ids |-> [aid |-> r.ids[i][1], iid |-> r.ids[i][2]]]
        IN  /\ request.kind = "none"
            /\ \/ UNCHANGED <<request, position, owner>>
               \/ /\ r.err = "none"
                  /\ request' = Handling("read", s, contexts)
                  /\ ClearBuffer
            /\ UNCHANGED <<now, admin, timed, subs, granted>>
  BY DEF GetCharacteristics
<1> DEFINE r == ReadRequests(query, MaxContexts)
<1>2. request = Idle
  BY <1>1, WhenIdle
<1>3. CASE UNCHANGED <<request, position, owner>>
  <2>1. BufferShaped' /\ TimesShaped' /\ PreparationKept'
    BY <1>1, <1>3 DEF IInv, Shaped, BufferShaped, TimesShaped, PreparationKept
  <2> QED BY <1>2, <1>3, <2>1, IdleInvariant
<1>4. CASE /\ r.err = "none"
           /\ request' = Handling("read", s, [i \in DOMAIN r.ids |-> [aid |-> r.ids[i][1], iid |-> r.ids[i][2]]])
           /\ ClearBuffer
  <2>1. PICK ids : ids = r.ids
    OBVIOUS
  <2>2. IsSequence(ids)
    BY <1>4, <2>1, TypesAssumption
  <2>3. PICK contexts : contexts = [i \in DOMAIN ids |-> [aid |-> ids[i][1], iid |-> ids[i][2]]]
    OBVIOUS
  <2>4. request' = Handling("read", s, contexts)
    BY <1>4, <2>1, <2>3
  <2> HIDE DEF r
  <2>5. request' = [kind |-> "read", session |-> s, contexts |-> contexts, next |-> 1, calls |-> <<>>,
                    at |-> now, pid |-> "none"]
    BY <2>4 DEF Handling
  <2>6. DOMAIN ids = 1 .. Len(ids) /\ Len(ids) \in Nat
    BY <2>2 DEF IsSequence
  <2>7. contexts \in [1 .. Len(ids) -> {contexts[i] : i \in 1 .. Len(ids)}]
    BY <2>3, <2>6
  <2>8. Len(contexts) = Len(ids) /\ IsSequence(contexts)
    BY <2>6, <2>7 DEF IsSequence
  <2>9. ASSUME NEW i \in 1 .. Len(contexts)
        PROVE  DOMAIN contexts[i] = {"aid", "iid"}
    BY <2>3, <2>6, <2>8
  <2> QED BY <1>1, <1>4, <2>5, <2>8, <2>9, RequestBegins
<1> HIDE DEF r
<1> QED BY <1>1, <1>3, <1>4 DEF r

------------------------------------------------------------------------------
(* Steps within a request: the next context gets an outcome, and with it at most one call.  *)

\* calls are those so far and, at the indices new, those of this step
Extends(outcome, calls, new) ==
  /\ request # Idle /\ Handles(outcome, calls)
  /\ IsSequence(calls)
  /\ DOMAIN calls = DOMAIN request.calls \cup new /\ new \cap DOMAIN request.calls = {}
  /\ \E k : new \subseteq {k}
  /\ \A k \in DOMAIN request.calls : calls[k] = request.calls[k]
  /\ \A k \in new : request.kind = "write" /\ Makes(outcome, calls[k])
  /\ new = {} => UNCHANGED granted /\ (request.kind = "write" => Quiet(outcome))

LEMMA ContextExtends ==
  ASSUME IInv, ReadNext \/ WriteNext
  PROVE  \E outcome, calls, new : Extends(outcome, calls, new)
<1>1. RequestShaped /\ ContextsFresh /\ BufferShaped
  BY DEF IInv, Shaped
<1>0. request # Idle
  <2>1. ReadNext => request.kind = "read"
    BY DEF ReadNext
  <2>2. WriteNext => request.kind = "write"
    BY DEF WriteNext
  <2> QED BY <2>1, <2>2 DEF Idle
<1>2. IsSequence(request.calls) /\ DOMAIN request.calls = 1 .. Len(request.calls) /\ Len(request.calls) \in Nat
  BY <1>0, <1>1 DEF RequestShaped, IsSequence
<1>3. ASSUME NEW outcome, Handles(outcome, request.calls),
             UNCHANGED granted /\ (request.kind = "write" => Quiet(outcome))
      PROVE  Extends(outcome, request.calls, {})
  BY <1>0, <1>2, <1>3 DEF Extends
<1>4. ASSUME ReadNext
      PROVE  \E outcome, calls, new : Extends(outcome, calls, new)
  <2>1. PICK outcome : /\ request.kind = "read" /\ UNCHANGED granted
                       /\ Handles(outcome, request.calls)
    BY <1>1, <1>4, ReadNextHandles
  <2>2. Extends(outcome, request.calls, {})
    BY <1>3, <2>1
  <2> QED BY <2>2
<1>5. ASSUME WriteNext
      PROVE  \E outcome, calls, new : Extends(outcome, calls, new)
  <2>1. PICK outcome :
          /\ request.kind = "write"
          /\ \/ Handles(outcome, request.calls) /\ Quiet(outcome)
             \/ \E call : Handles(outcome, Append(request.calls, call)) /\ Makes(outcome, call)
    BY <1>1, <1>5, WriteNextHandles
  <2>2. CASE Handles(outcome, request.calls) /\ Quiet(outcome)
    <3>1. UNCHANGED granted
      BY <2>2 DEF Quiet
    <3>2. Extends(outcome, request.calls, {})
      BY <1>3, <2>2, <3>1
    <3> QED BY <3>2
  <2>3. ASSUME NEW call, Handles(outcome, Append(request.calls, call)), Makes(outcome, call)
        PROVE  \E calls, new : Extends(outcome, calls, new)
    <3>1. PICK calls : calls = Append(request.calls, call)
      OBVIOUS
    <3>2. PICK n \in Nat : n = Len(request.calls)
      BY <1>2
    <3>3. /\ IsSequence(calls) /\ DOMAIN calls = 1 .. n + 1 /\ calls[n + 1] = call
          /\ \A k \in 1 .. n : calls[k] = request.calls[k]
      BY <1>2, <3>1, <3>2, Appended
    <3>4. DOMAIN request.calls = 1 .. n /\ 1 .. n + 1 = 1 .. n \cup {n + 1} /\ {n + 1} \cap 1 .. n = {}
      BY <1>2, <3>2
    <3>5. Handles(outcome, calls)
      BY <2>3, <3>1
    <3>6. Extends(outcome, calls, {n + 1})
      BY <1>0, <2>1, <2>3, <3>3, <3>4, <3>5 DEF Extends
    <3> QED BY <3>6
  <2> QED BY <2>1, <2>2, <2>3
<1> QED BY <1>4, <1>5

\* What becomes of the contexts of the request
LEMMA ContextsAfter ==
  ASSUME IInv, request # Idle, NEW outcome, NEW calls, IsSequence(calls), Handles(outcome, calls)
  PROVE  LET i == request.next
             x == request.contexts[i]
             y == request'.contexts[i]
         IN  /\ RequestShaped' /\ request # Idle /\ request' # Idle
             /\ request'.kind = request.kind /\ request'.session = request.session
             /\ request'.at = request.at /\ request'.pid = request.pid
             /\ request'.next = i + 1 /\ request'.calls = calls
             /\ i \in Nat \ {0} /\ i <= Len(request.contexts)
             /\ Len(request.contexts) \in Nat /\ Len(request'.contexts) = Len(request.contexts)
             /\ \A j \in 1 .. Len(request.contexts) : j # i => request'.contexts[j] = request.contexts[j]
             /\ DOMAIN y = DOMAIN outcome \cup DOMAIN x
             /\ \A f \in DOMAIN outcome : y[f] = outcome[f]
             /\ \A f \in DOMAIN x \ DOMAIN outcome : y[f] = x[f]
             /\ {"aid", "iid", "asked"} \cap DOMAIN outcome = {}
<1> DEFINE i == request.next
           x == request.contexts[i]
<1>1. /\ request # Idle /\ request.kind \in {"read", "write"} /\ DOMAIN request = RequestFields
      /\ request.session \in Sessions /\ request.at \in Nat
      /\ IsSequence(request.contexts) /\ i \in 1 .. Len(request.contexts) + 1 /\ i <= Len(request.contexts)
  BY DEF IInv, Shaped, RequestShaped, Handles
<1>2. /\ Settles(outcome, calls) /\ DOMAIN outcome \subseteq OutcomeFields
  BY DEF Handles
<1>3. /\ request'.kind = request.kind /\ request'.session = request.session
      /\ request'.at = request.at /\ request'.pid = request.pid
      /\ request'.next = i + 1 /\ request'.calls = calls /\ DOMAIN request' = RequestFields
  BY <1>1, <1>2 DEF Settles
<1>4. PICK contexts, e, n :
        contexts = request.contexts /\ e = Upon(outcome, x) /\ n = Len(request.contexts)
  OBVIOUS
<1>5. IsSequence(contexts) /\ n = Len(contexts) /\ i \in 1 .. n /\ n \in Nat
  BY <1>1, <1>4 DEF IsSequence
<1>6. request'.contexts = [contexts EXCEPT ![i] = e]
  BY <1>2, <1>4 DEF Settles
<1> HIDE DEF i
<1>7. /\ IsSequence(request'.contexts) /\ Len(request'.contexts) = n
      /\ request'.contexts[i] = e
      /\ \A j \in 1 .. n : j # i => request'.contexts[j] = contexts[j]
  <2>1. i \in 1 .. Len(contexts)
    BY <1>5
  <2>2. LET q == [contexts EXCEPT ![i] = e]
        IN  /\ IsSequence(q) /\ Len(q) = Len(contexts)
            /\ q[i] = e
            /\ \A j \in 1 .. Len(contexts) : j # i => q[j] = contexts[j]
    BY <1>5, <2>1, Replaced
  <2> QED BY <1>5, <1>6, <2>2
<1>8. request' # Idle
  BY <1>1, <1>3 DEF Idle
<1>9. RequestShaped'
  <2>1. i + 1 \in 1 .. n + 1
    BY <1>5
  <2> QED BY <1>1, <1>3, <1>7, <2>1 DEF RequestShaped
<1>10. /\ DOMAIN e = DOMAIN outcome \cup DOMAIN x
       /\ \A f \in DOMAIN outcome : e[f] = outcome[f]
       /\ \A f \in DOMAIN x \ DOMAIN outcome : e[f] = x[f]
  BY <1>4 DEF Upon
<1>11. {"aid", "iid", "asked"} \cap DOMAIN outcome = {}
  BY <1>2 DEF OutcomeFields
<1>12. i \in Nat \ {0} /\ i <= n
  BY <1>5
<1> HIDE DEF x
<1> QED BY <1>3, <1>4, <1>5, <1>7, <1>8, <1>9, <1>10, <1>11, <1>12 DEF i, x

LEMMA ContextInvariant ==
  ASSUME IInv, NEW outcome, NEW calls, NEW new, Extends(outcome, calls, new)
  PROVE  IInv'
<1> DEFINE i == request.next
           x == request.contexts[i]
           y == request'.contexts[i]
           id == IDOf(i)
           s == request.session
<1> PICK n : n = Len(request.contexts)
  OBVIOUS
<1>1. /\ request # Idle /\ Handles(outcome, calls)
      /\ IsSequence(calls)
      /\ DOMAIN calls = DOMAIN request.calls \cup new /\ new \cap DOMAIN request.calls = {}
      /\ \E k : new \subseteq {k}
      /\ \A k \in DOMAIN request.calls : calls[k] = request.calls[k]
      /\ \A k \in new : request.kind = "write" /\ Makes(outcome, calls[k])
      /\ new = {} => UNCHANGED granted /\ (request.kind = "write" => Quiet(outcome))
  BY DEF Extends
<1>2. /\ RequestShaped' /\ request' # Idle
      /\ request'.kind = request.kind /\ request'.session = s
      /\ request'.at = request.at /\ request'.pid = request.pid
      /\ request'.next = i + 1 /\ request'.calls = calls
      /\ i \in Nat \ {0} /\ i <= n /\ n \in Nat /\ Len(request'.contexts) = n
      /\ \A j \in 1 .. n : j # i => request'.contexts[j] = request.contexts[j]
      /\ DOMAIN y = DOMAIN outcome \cup DOMAIN x
      /\ \A f \in DOMAIN outcome : y[f] = outcome[f]
      /\ \A f \in DOMAIN x \ DOMAIN outcome : y[f] = x[f]
      /\ {"aid", "iid", "asked"} \cap DOMAIN outcome = {}
  BY <1>1, ContextsAfter
<1>3. /\ "status" \in DOMAIN outcome
      /\ "read" \in DOMAIN outcome =>
           /\ "value" \in DOMAIN outcome
           /\ id \in DOMAIN Db /\ (ReadRequiresAdmin(Db[id]) => admin[s])
      /\ Placed(outcome, Db[id], i)
      /\ UNCHANGED <<now, admin, timed>>
  BY <1>1 DEF Handles
<1>4. /\ \A j \in 1 .. n :
           LET z == request.contexts[j]
           IN  /\ {"aid", "iid"} \subseteq DOMAIN z
               /\ request.kind = "write" => "asked" \in DOMAIN z
               /\ j >= i => DOMAIN z \cap {"start", "read"} = {}
               /\ request.kind = "write" /\ j >= i => z.asked = z.value /\ IsJSONValue(z.value)
      /\ i \in 1 .. n
  BY <1>1, <1>2 DEF IInv, Shaped, ContextsFresh
<1>5. /\ {"aid", "iid"} \subseteq DOMAIN y /\ y.aid = x.aid /\ y.iid = x.iid
      /\ request.kind = "write" => "asked" \in DOMAIN y /\ y.asked = x.asked /\ y.asked = x.value
  <2>1. y["aid"] = x["aid"] /\ y["iid"] = x["iid"]
    BY <1>2, <1>4
  <2>2. request.kind = "write" => "asked" \in DOMAIN y /\ y["asked"] = x["asked"]
    BY <1>2, <1>4
  <2>3. request.kind = "write" => x.asked = x.value
    BY <1>2, <1>4
  <2> QED BY <1>2, <1>4, <2>1, <2>2, <2>3
<1>6. \A j \in 1 .. n : IDOf(j)' = IDOf(j)
  BY <1>2, <1>5 DEF IDOf
<1>7. /\ Handled = 1 .. i - 1 /\ Handled' = 1 .. i
      /\ request.kind \in {"read", "write"}
  <2>1. request.kind \in {"read", "write"}
    BY <1>1 DEF IInv, Shaped, RequestShaped
  <2> QED BY <2>1, <1>2 DEF Handled
<1>8. \A j \in Handled' : /\ j \in 1 .. n
                          /\ j = i \/ (j \in Handled /\ request'.contexts[j] = request.contexts[j])
  BY <1>2, <1>7
<1> HIDE DEF i, x, y, id, s
<1>9. ContextsFresh'
  <2> SUFFICES ASSUME NEW j \in 1 .. n
               PROVE  LET z == request'.contexts[j]
                      IN  /\ {"aid", "iid"} \subseteq DOMAIN z
                          /\ request.kind = "write" => "asked" \in DOMAIN z
                          /\ j >= i + 1 => DOMAIN z \cap {"start", "read"} = {}
                          /\ request.kind = "write" /\ j >= i + 1 => z.asked = z.value /\ IsJSONValue(z.value)
    BY <1>2 DEF ContextsFresh
  <2>1. CASE j = i
    BY <2>1, <1>2, <1>5 DEF y
  <2>2. CASE j # i
    BY <2>2, <1>2, <1>4
  <2> QED BY <2>1, <2>2
<1>10. BufferShaped'
  BY <1>3, DbAssumption DEF IInv, Shaped, BufferShaped, Placed
<1>11. CallsShaped'
  <2>1. request.kind = "read" => new = {} /\ request.calls = <<>>
    BY <1>1 DEF IInv, Shaped, CallsShaped
  <2>2. request.kind = "read" => calls = <<>>
    <3>1. SUFFICES ASSUME request.kind = "read" PROVE calls = <<>>
      OBVIOUS
    <3>2. DOMAIN calls = {}
      BY <1>1, <2>1, <3>1
    <3>3. Len(calls) \in Nat /\ calls = [k \in 1 .. Len(calls) |-> calls[k]]
      BY <1>1 DEF IsSequence
    <3> QED BY <3>2, <3>3
  <2>3. ASSUME request.kind = "write", NEW k \in DOMAIN calls
        PROVE  calls[k].of \in 1 .. i /\ calls[k].id = IDOf(calls[k].of)' /\ calls[k].id \in DOMAIN Db
    <3>1. CASE k \in DOMAIN request.calls
      <4>1. /\ request.calls[k].of \in 1 .. i - 1 /\ request.calls[k].id = IDOf(request.calls[k].of)
            /\ request.calls[k].id \in DOMAIN Db
        BY <2>3, <3>1 DEF IInv, Shaped, CallsShaped, i
      <4> QED BY <1>1, <1>2, <1>6, <3>1, <4>1
    <3>2. CASE k \in new
      BY <1>1, <1>2, <1>4, <1>6, <3>2 DEF Makes, i
    <3> QED BY <1>1, <2>3, <3>1, <3>2
  <2> QED BY <1>2, <2>2, <2>3 DEF CallsShaped
<1>12. \/ new = {} /\ TimedCalls' = TimedCalls /\ UNCHANGED granted /\ (request.kind = "write" => Quiet(outcome))
       \/ \E k : /\ new = {k} /\ request.kind = "write" /\ Makes(outcome, calls[k])
                 /\ TimedCalls' = TimedCalls \cup {l \in {k} : "tw" \in Db[calls[k].id].props}
  <2>1. TimedCalls' = {k \in DOMAIN request.calls \cup new : "tw" \in Db[calls[k].id].props}
    BY <1>1, <1>2 DEF TimedCalls
  <2>2. {k \in DOMAIN request.calls : "tw" \in Db[calls[k].id].props} = TimedCalls
    BY <1>1 DEF TimedCalls
  <2>3. CASE new = {}
    BY <1>1, <2>1, <2>2, <2>3
  <2>4. CASE new # {}
    <3>1. PICK k : new = {k}
      BY <1>1, <2>4, ZenonT(60)
    <3>2. TimedCalls' = TimedCalls \cup {l \in {k} : "tw" \in Db[calls[k].id].props}
      BY <2>1, <2>2, <3>1
    <3> QED BY <1>1, <3>1, <3>2
  <2> QED BY <2>3, <2>4
<1>13. s \in Sessions
  BY <1>1 DEF IInv, Shaped, RequestShaped, s
\* The first timed call of a request marks what it was granted as executed.
<1>14. \/ UNCHANGED granted /\ (TimedCalls' = TimedCalls \/ TimedCalls # {})
          /\ (TimedCalls' = TimedCalls \/ request.pid # "none") /\ (TimedCalls # {} => TimedCalls' # {})
       \/ /\ request.kind = "write" /\ request.pid # "none" /\ TimedCalls = {} /\ TimedCalls' # {}
          /\ granted' = [granted EXCEPT ![s].executed = @ + 1]
  <2>1. CASE new = {}
    BY <1>12, <2>1
  <2>2. CASE new # {}
    <3>1. PICK k : /\ request.kind = "write" /\ Makes(outcome, calls[k])
                   /\ TimedCalls' = TimedCalls \cup {l \in {k} : "tw" \in Db[calls[k].id].props}
      BY <1>12, <2>2
    <3>2. /\ "tw" \in Db[calls[k].id].props => request.pid # "none"
          /\ granted' = IF "tw" \notin Db[calls[k].id].props \/ TimedCalls # {} THEN granted
                        ELSE [granted EXCEPT ![s].executed = @ + 1]
      BY <3>1 DEF Makes, s
    <3>3. CASE "tw" \in Db[calls[k].id].props
      BY <3>1, <3>2, <3>3
    <3>4. CASE "tw" \notin Db[calls[k].id].props
      BY <3>1, <3>2, <3>4
    <3> QED BY <3>3, <3>4
  <2> QED BY <2>1, <2>2
<1>15. /\ now \in Nat \ {0} /\ timed \in [Sessions -> [expires : Nat, pid : Pids]]
       /\ granted \in [Sessions -> [pid : Pids, until : Nat, executed : Nat]]
  BY DEF IInv, Shaped, TimesShaped
<1>16. /\ TimesShaped'
       /\ \A u \in Sessions :
            /\ granted'[u].pid = granted[u].pid /\ granted'[u].until = granted[u].until
            /\ u # s => granted'[u].executed = granted[u].executed
  <2>1. CASE UNCHANGED granted
    BY <1>3, <1>15, <2>1 DEF TimesShaped
  <2>2. CASE granted' = [granted EXCEPT ![s].executed = @ + 1]
    <3>1. PICK g : g = [granted[s] EXCEPT !.executed = @ + 1]
      OBVIOUS
    <3>2. granted' = [granted EXCEPT ![s] = g]
      BY <2>2, <3>1
    <3>3. g \in [pid : Pids, until : Nat, executed : Nat] /\ g.pid = granted[s].pid /\ g.until = granted[s].until
      BY <1>13, <1>15, <3>1
    <3> QED BY <1>3, <1>13, <1>15, <3>2, <3>3 DEF TimesShaped
  <2> QED BY <1>14, <2>1, <2>2
<1>17. request.kind = "write" =>
         IF request.pid = "none" THEN TimedCalls = {}
         ELSE /\ timed[s].expires # 0 /\ timed[s].pid = request.pid /\ request.at <= timed[s].expires
              /\ granted[s].executed = IF TimedCalls = {} THEN 0 ELSE 1
  BY DEF IInv, PreparationInUse, s
<1>18. PreparationKept'
  <2> SUFFICES ASSUME NEW u \in Sessions, timed[u].expires # 0
               PROVE  /\ granted'[u].pid = timed[u].pid /\ timed[u].expires <= granted'[u].until
                      /\ granted'[u].executed = 0
                         \/ (request.kind = "write" /\ s = u /\ request.pid # "none")
    BY <1>2, <1>3 DEF PreparationKept
  <2>1. /\ granted[u].pid = timed[u].pid /\ timed[u].expires <= granted[u].until
        /\ granted[u].executed = 0
           \/ (request.kind = "write" /\ s = u /\ request.pid # "none")
    BY DEF IInv, PreparationKept, s
  <2>2. u = s => granted'[u].executed = granted[u].executed \/ (request.kind = "write" /\ request.pid # "none")
    BY <1>14
  <2> QED BY <1>16, <2>1, <2>2
<1>19. PreparationInUse'
  <2> SUFFICES ASSUME request.kind = "write"
               PROVE  IF request.pid = "none" THEN TimedCalls' = {}
                      ELSE /\ timed[s].expires # 0 /\ timed[s].pid = request.pid
                           /\ request.at <= timed[s].expires
                           /\ granted'[s].executed = IF TimedCalls' = {} THEN 0 ELSE 1
    BY <1>2, <1>3 DEF PreparationInUse
  <2>1. CASE UNCHANGED granted
    BY <1>13, <1>14, <1>15, <1>17, <2>1
  <2>2. CASE /\ request.pid # "none" /\ TimedCalls = {} /\ TimedCalls' # {}
             /\ granted' = [granted EXCEPT ![s].executed = @ + 1]
    <3>1. granted[s].executed = 0 /\ granted'[s].executed = granted[s].executed + 1
      BY <1>13, <1>15, <1>17, <2>2
    <3> QED BY <1>17, <2>2, <3>1
  <2> QED BY <1>14, <2>1, <2>2
<1>20. TextsKept'
  <2> SUFFICES ASSUME NEW j \in Handled', NEW z, z = request'.contexts[j], NEW c, c = Db[IDOf(j)],
                      z.status = Success, {"start", "read"} \subseteq DOMAIN z, c.format \in Texts
               PROVE  /\ z.start \in Nat /\ TextLen(c, z.value) \in Nat
                      /\ z.start + TextLen(c, z.value) < position'
                      /\ \A b \in z.start + 1 .. z.start + TextLen(c, z.value) : owner'[b] = j
    BY <1>6, <1>8 DEF TextsKept
  <2>1. position \in Nat /\ position' \in Nat /\ position <= position'
    BY <1>3, DbAssumption DEF Placed, IInv, Shaped, BufferShaped
  <2>2. CASE j \in Handled /\ z = request.contexts[j]
    <3>1. PICK m : m = TextLen(c, z.value)
      OBVIOUS
    <3>2. /\ z.start \in Nat /\ m \in Nat /\ z.start + m < position
          /\ \A b \in z.start + 1 .. z.start + m : owner[b] = j
      BY <2>2, <3>1 DEF IInv, TextsKept
    <3>3. \A b \in z.start + 1 .. z.start + m : b \in 1 .. position
      BY <2>1, <3>2
    <3>4. \A b \in 1 .. position : owner'[b] = owner[b]
      BY <1>3 DEF Placed
    <3> QED BY <2>1, <3>1, <3>2, <3>3, <3>4
  <2>3. CASE j = i
    <3>1. {"start", "read"} \subseteq DOMAIN outcome
      BY <1>2, <1>4, <2>3 DEF x, y
    <3>2. /\ z["status"] = outcome["status"] /\ z["start"] = outcome["start"]
          /\ z["value"] = outcome["value"]
      BY <1>2, <1>3, <2>3, <3>1 DEF y
    <3>3. PICK m : m = TextLen(c, z.value)
      OBVIOUS
    <3>4. /\ z.start = position /\ m \in Nat /\ position' = position + m + 1
          /\ \A b \in position + 1 .. position' : owner'[b] = i
      BY <1>3, <2>3, <3>1, <3>2, <3>3 DEF Placed, id
    <3>5. \A b \in position + 1 .. position + m : b \in position + 1 .. position'
      BY <2>1, <3>4
    <3> QED BY <2>1, <2>3, <3>3, <3>4, <3>5
  <2> QED BY <1>8, <2>2, <2>3
\* The calls for a context handled earlier are those there were; the last one has none but new.
<1> PICK last : last = i
  OBVIOUS
<1>21. /\ \A j \in Handled : /\ WritesOf(j)' = WritesOf(j)
                             /\ \A k \in WritesOf(j) : request'.calls[k] = request.calls[k]
                             /\ Taken(j)' = Taken(j)
       /\ WritesOf(last)' = new
  <2>1. \A k \in DOMAIN request.calls : request.calls[k].of \in 1 .. i - 1
    <3>1. request.kind = "read" => DOMAIN request.calls = {}
      BY DEF IInv, Shaped, CallsShaped
    <3>2. request.kind = "write" => \A k \in DOMAIN request.calls : request.calls[k].of \in 1 .. i - 1
      BY DEF IInv, Shaped, CallsShaped, i
    <3> QED BY <1>7, <3>1, <3>2
  <2>2. \A k \in new : calls[k].of = i
    BY <1>1 DEF Makes, i
  <2>3. i \notin 1 .. i - 1
    BY <1>2
  <2>4. WritesOf(last)' = new
    BY <1>1, <1>2, <2>1, <2>2, <2>3 DEF WritesOf
  <2>5. ASSUME NEW j \in Handled
        PROVE  /\ WritesOf(j)' = WritesOf(j)
               /\ \A k \in WritesOf(j) : request'.calls[k] = request.calls[k]
    BY <1>1, <1>2, <1>7, <2>2, <2>3 DEF WritesOf
  <2>6. ASSUME NEW j \in Handled
        PROVE  Taken(j)' = Taken(j)
    BY <2>5 DEF Taken
  <2> QED BY <2>4, <2>5, <2>6
<1>22. StatusTruthful'
  <2> SUFFICES ASSUME request.kind = "write", NEW j \in Handled', NEW z, z = request'.contexts[j]
               PROVE  /\ z.status = Success /\ z.asked # NoValue
                         /\ ~(Db[IDOf(j)].format = "TLV8" /\ z.asked.type # "String") => Taken(j)'
                      /\ z.status \in Refusals => ~Taken(j)'
    BY <1>2, <1>6, <1>8 DEF StatusTruthful, Refusals
  <2>1. CASE j \in Handled /\ z = request.contexts[j]
    BY <1>21, <2>1 DEF IInv, StatusTruthful, Refusals
  <2>2. CASE j = i
    <3>1. z["status"] = outcome["status"] /\ z["asked"] = x["value"]
      BY <1>2, <1>3, <1>5, <2>2 DEF y
    <3>2. Taken(last)' <=> \E k \in new : calls[k].err = "None"
      BY <1>2, <1>21 DEF Taken
    <3>3. CASE new = {}
      <4>1. outcome.status = Success /\ x.value # NoValue => Db[id].format = "TLV8" /\ x.value.type # "String"
        BY <1>12, <3>3 DEF Quiet, i, x, id
      <4> QED BY <2>2, <3>1, <3>2, <3>3, <4>1 DEF id
    <3>4. CASE new # {}
      <4>1. PICK k : new = {k} /\ Makes(outcome, calls[k])
        BY <1>12, <3>4
      <4>2. /\ calls[k].err = "None" => outcome.status \notin Refusals
            /\ calls[k].err # "None" => outcome.status # Success
        BY <4>1 DEF Makes
      <4> QED BY <2>2, <3>1, <3>2, <4>1, <4>2
    <3> QED BY <3>3, <3>4
  <2> QED BY <1>8, <2>1, <2>2
<1>23. HandlersGuarded'
  <2> SUFFICES ASSUME NEW j \in Handled', NEW c, c = Db[IDOf(j)]
               PROVE  /\ \A k \in WritesOf(j)' :
                           /\ WriteRequiresAdmin(c) => admin[s]
                           /\ Numeric(c) /\ Regular(c) => InRange(calls[k].value, c)
                      /\ "read" \in DOMAIN request'.contexts[j] /\ ReadRequiresAdmin(c) => admin[s]
    BY <1>2, <1>3, <1>6, <1>8 DEF HandlersGuarded
  <2>1. CASE j \in Handled /\ request'.contexts[j] = request.contexts[j]
    <3>1. /\ \A k \in WritesOf(j) : /\ WriteRequiresAdmin(c) => admin[s]
                                    /\ Numeric(c) /\ Regular(c) => InRange(request.calls[k].value, c)
          /\ "read" \in DOMAIN request.contexts[j] /\ ReadRequiresAdmin(c) => admin[s]
      BY <2>1 DEF IInv, HandlersGuarded, s
    <3> QED BY <1>2, <1>21, <2>1, <3>1
  <2>2. CASE j = i
    <3>1. ASSUME NEW k \in new
          PROVE  /\ WriteRequiresAdmin(c) => admin[s]
                 /\ Numeric(c) /\ Regular(c) => InRange(calls[k].value, c)
      BY <1>1, <2>2 DEF Makes, i, s
    <3>2. "read" \in DOMAIN request'.contexts[j] => "read" \in DOMAIN outcome
      BY <1>2, <1>4, <2>2 DEF x, y
    <3>3. "read" \in DOMAIN outcome /\ ReadRequiresAdmin(c) => admin[s]
      BY <1>3, <2>2 DEF id
    <3> QED BY <1>21, <2>2, <3>1, <3>2, <3>3
  <2> QED BY <1>8, <2>1, <2>2
<1> QED
  BY <1>2, <1>9, <1>10, <1>11, <1>16, <1>18, <1>19, <1>20, <1>22, <1>23 DEF IInv, Shaped

LEMMA RespondInvariant ==
  ASSUME IInv, Respond
  PROVE  IInv'
<1> DEFINE s == request.session
<1>1. /\ request.kind # "none" /\ request' = Idle /\ ClearBuffer
      /\ IF request.kind = "write" THEN ResetTimedWrite(s, request.pid) ELSE UNCHANGED timed
      /\ UNCHANGED <<now, admin, subs, granted>>
  BY DEF Respond
<1>2. request.kind \in {"read", "write"} /\ s \in Sessions
  BY <1>1 DEF Idle, IInv, Shaped, RequestShaped
<1>3. BufferShaped'
  BY <1>1, DbAssumption DEF ClearBuffer, BufferShaped
<1>4. NotPrepared \in [expires : Nat, pid : Pids] /\ NotPrepared.expires = 0
  BY DEF NotPrepared, Pids
<1>5. timed' = timed \/ timed' = [timed EXCEPT ![s] = NotPrepared]
  BY <1>1 DEF ResetTimedWrite
<1>6. TimesShaped'
  BY <1>1, <1>4, <1>5 DEF IInv, Shaped, TimesShaped
\* The transaction of a request that has named a PID is over.
<1>7. \A u \in Sessions :
        /\ timed'[u] = timed[u] \/ timed'[u].expires = 0
        /\ request.kind = "write" /\ s = u /\ request.pid # "none" => timed'[u].expires = 0
  <2>1. timed \in [Sessions -> [expires : Nat, pid : Pids]]
    BY DEF IInv, Shaped, TimesShaped
  <2> QED BY <1>1, <1>2, <1>4, <1>5, <2>1 DEF ResetTimedWrite
<1>8. PreparationKept'
  BY <1>1, <1>7 DEF IInv, PreparationKept
<1> QED BY <1>1, <1>3, <1>6, <1>8, IdleInvariant

LEMMA BetweenInvariant ==
  ASSUME IInv, Tick \/ (\E s \in Sessions : Permit(s) \/ Reconnect(s))
  PROVE  IInv'
<1>1. request.kind = "none" /\ UNCHANGED <<request, position, owner>>
  BY DEF Tick, Permit, Reconnect
<1>2. request = Idle /\ request' = Idle
  BY <1>1, WhenIdle
<1>3. BufferShaped'
  BY <1>1 DEF IInv, Shaped, BufferShaped
<1>4. TimesShaped' /\ PreparationKept'
  <2>1. CASE Tick \/ \E s \in Sessions : Permit(s)
    <3>1. UNCHANGED <<timed, granted>> /\ now' \in Nat \ {0}
      BY <2>1 DEF Tick, Permit, IInv, Shaped, TimesShaped
    <3> QED BY <1>1, <3>1 DEF IInv, Shaped, TimesShaped, PreparationKept
  <2>2. ASSUME NEW s \in Sessions, Reconnect(s)
        PROVE  TimesShaped' /\ PreparationKept'
    <3>1. /\ timed' = [timed EXCEPT ![s] = NotPrepared] /\ granted' = [granted EXCEPT ![s] = NotGranted]
          /\ now' = now
      BY <2>2 DEF Reconnect
    <3>2. /\ NotPrepared \in [expires : Nat, pid : Pids] /\ NotPrepared.expires = 0
          /\ NotGranted \in [pid : Pids, until : Nat, executed : Nat]
      BY DEF NotPrepared, NotGranted, Pids
    <3>3. TimesShaped'
      BY <3>1, <3>2 DEF IInv, Shaped, TimesShaped
    <3>4. \A u \in Sessions : timed'[u].expires = 0 \/ (timed'[u] = timed[u] /\ granted'[u] = granted[u])
      BY <3>1, <3>2 DEF IInv, Shaped, TimesShaped
    <3> QED BY <1>1, <3>3, <3>4 DEF IInv, PreparationKept
  <2> QED BY <2>1, <2>2
<1> QED BY <1>2, <1>3, <1>4, IdleInvariant

------------------------------------------------------------------------------
(* The theorems                                                                             *)

\* It is kept by the handlers of requests, by the handling of each context, and by whatever
\* happens between requests ...
THEOREM NextInvariant == IInv /\ [Next]_vars => IInv'
<1> SUFFICES ASSUME IInv, [Next]_vars PROVE IInv'
  OBVIOUS
<1>1. CASE UNCHANGED vars
  <2>1. Shaped'
    BY <1>1, Zenon DEF vars, IInv, Shaped, RequestShaped, ContextsFresh, BufferShaped, CallsShaped, TimesShaped, IDOf
  <2>2. PreparationKept' /\ PreparationInUse'
    BY <1>1, Zenon DEF vars, IInv, PreparationKept, PreparationInUse, TimedCalls
  <2>3. /\ request' = request /\ admin' = admin /\ position' = position /\ owner' = owner
        /\ Handled' = Handled
    BY <1>1 DEF vars, Handled
  <2>4. TextsKept'
    BY <2>3, Zenon DEF IInv, TextsKept, IDOf
  <2>5. StatusTruthful'
    <3>1. \A i : Taken(i)' = Taken(i) /\ IDOf(i)' = IDOf(i)
      BY <2>3, Zenon DEF Taken, WritesOf, IDOf
    <3> QED BY <2>3, <3>1 DEF IInv, StatusTruthful
  <2>6. HandlersGuarded'
    BY <2>3, Zenon DEF IInv, HandlersGuarded, WritesOf, IDOf
  <2> QED BY <2>1, <2>2, <2>4, <2>5, <2>6 DEF IInv
<1>2. ASSUME NEW s \in Sessions, PutPrepare(s) \/ PutCharacteristics(s) \/ GetCharacteristics(s)
      PROVE  IInv'
  BY <1>2, PrepareInvariant, WriteRequestInvariant, ReadRequestInvariant
<1>3. CASE ReadNext \/ WriteNext
  BY <1>3, ContextExtends, ContextInvariant
<1>4. CASE Respond
  BY <1>4, RespondInvariant
<1>5. CASE Tick \/ (\E s \in Sessions : Permit(s) \/ Reconnect(s))
  BY <1>5, BetweenInvariant
<1> QED BY <1>1, <1>2, <1>3, <1>4, <1>5 DEF Next

\* ... and so it always holds.
THEOREM InvariantHolds == Spec => []IInv
<1>1. Init => IInv
  BY InitInvariant
<1>2. IInv /\ [Next]_vars => IInv'
  BY NextInvariant
<1> QED BY <1>1, <1>2, PTL DEF Spec

\* A characteristic that requires timed writes is written only by a session whose own last
\* preparation named the PID of the request and had not expired, and once per preparation
\* (handle_characteristic_write_requests, put_prepare and put_characteristics).
THEOREM TimedWritesAreGranted == Spec => []TimedWriteGranted
<1>1. IInv => TimedWriteGranted
  BY InvariantSuffices
<1> QED BY <1>1, InvariantHolds, PTL

\* A response says success of a write only if the handler took the value, and refuses only
\* what no handler took, but for a TLV8 written with something other than a string.
THEOREM StatusesAreTruthful == Spec => []StatusTruthful
<1>1. IInv => StatusTruthful
  BY DEF IInv
<1> QED BY <1>1, InvariantHolds, PTL

\* What a response quotes is still in the data buffer when the response is composed: the
\* text of one context is never overwritten by the handler of a later one.
THEOREM ResponsesAreIntact == Spec => []ResponsesIntact
<1>1. IInv => ResponsesIntact
  BY InvariantSuffices
<1> QED BY <1>1, InvariantHolds, PTL

\* A handler is called for an admin where the characteristic asks for one, and with a number
\* within the limits and on the steps of its characteristic.
THEOREM HandlersAreGuarded == Spec => []HandlersGuarded
<1>1. IInv => HandlersGuarded
  BY DEF IInv
<1> QED BY <1>1, InvariantHolds, PTL
=============================================================================
