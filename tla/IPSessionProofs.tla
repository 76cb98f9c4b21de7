--------------------------- MODULE IPSessionProofs ---------------------------
(***************************************************************************)
(* The requests of a session of the IP server are handled as they were     *)
(* sent (IPSessionInput), for any scripts, sizes of frames and of the      *)
(* buffer, and pieces they arrive in. What is in the buffer and what is on *)
(* the way follow two tapes, the plaintext of the script and the           *)
(* ciphertext that has been sent. The requests that have been handled end  *)
(* where the buffer begins, the frames that have been decrypted end where  *)
(* mark is, and the reader is in a place of the next request.              *)
(***************************************************************************)
EXTENDS HTTPReaderProofs

-----------------------------------------------------------------------------
(* Sequences that are put together: a script in plaintext, and a message   *)
(* in frames                                                               *)

\* Sequences that are put together one after the other
IsJoin(W, n, g) == g = [k \in 0 .. n |-> IF k = 0 THEN <<>> ELSE g[k - 1] \o W[k]]
HasJoin(W, n) == \E g : IsJoin(W, n, g)

\* The first k of them, and where they are in all of them
Joined(S, W, n, g) ==
  /\ g \in [0 .. n -> Seq(S)] /\ g[0] = <<>>
  /\ \A k \in 0 .. n - 1 : g[k + 1] = g[k] \o W[k + 1] /\ Len(g[k + 1]) = Len(g[k]) + Len(W[k + 1])
  /\ \A k \in 0 .. n - 1 : Has(g[n], Len(g[k]), W[k + 1])
AreJoined(S, W, n) == HasJoin(W, n) /\ \A g : IsJoin(W, n, g) => Joined(S, W, n, g)

\* They exist, and each is found where the ones before it end.
LEMMA Joins ==
  ASSUME NEW S, NEW n \in Nat, NEW W \in [1 .. n -> Seq(S)]
  PROVE  AreJoined(S, W, n)
<1> DEFINE step == [p \in Nat \X Seq(S) |-> IF p[1] + 1 \in 1 .. n THEN p[2] \o W[p[1] + 1] ELSE <<>>]
<1>1. step \in [Nat \X Seq(S) -> Seq(S)] /\ <<>> \in Seq(S)
  <2>1. \A a \in Seq(S) : \A k \in 1 .. n : a \o W[k] \in Seq(S)
    OBVIOUS
  <2> QED
    BY <2>1
<1>2. \A k \in 0 .. n - 1 : \A a \in Seq(S) : step[<<k, a>>] = a \o W[k + 1]
  <2> SUFFICES ASSUME NEW k \in 0 .. n - 1, NEW a \in Seq(S) PROVE step[<<k, a>>] = a \o W[k + 1]
    OBVIOUS
  <2>1. <<k, a>> \in Nat \X Seq(S) /\ k + 1 \in 1 .. n
    OBVIOUS
  <2> QED
    BY <2>1
<1> HIDE DEF step
<1>3. HasStates(Seq(S), <<>>, step, n)
  BY <1>1, FirstStates
<1>4. PICK g \in [0 .. n -> Seq(S)] : g[0] = <<>> /\ \A k \in 0 .. n - 1 : g[k + 1] = step[<<k, g[k]>>]
  BY <1>3, Zenon DEF HasStates
<1>5. IsJoin(W, n, g)
  <2>1. ASSUME NEW k \in 0 .. n PROVE g[k] = IF k = 0 THEN <<>> ELSE g[k - 1] \o W[k]
    <3>1. CASE k = 0
      BY <1>4, <3>1
    <3>2. CASE k # 0
      <4>1. k - 1 \in 0 .. n - 1 /\ (k - 1) + 1 = k /\ k - 1 \in 0 .. n
        BY <3>2
      <4>2. g[(k - 1) + 1] = step[<<k - 1, g[k - 1]>>] /\ g[k - 1] \in Seq(S)
        BY <1>4, <4>1
      <4>3. step[<<k - 1, g[k - 1]>>] = g[k - 1] \o W[(k - 1) + 1]
        BY <1>2, <4>1, <4>2
      <4> QED
        BY <3>2, <4>1, <4>2, <4>3
    <3> QED
      BY <3>1, <3>2
  <2>2. g = [k \in 0 .. n |-> g[k]]
    OBVIOUS
  <2> QED
    BY <2>1, <2>2 DEF IsJoin
<1>6. ASSUME NEW f, IsJoin(W, n, f) PROVE Joined(S, W, n, f)
  <2>1. f[0] = <<>> /\ DOMAIN f = 0 .. n /\ f = [k \in 0 .. n |-> f[k]]
    BY <1>6 DEF IsJoin
  <2>2. ASSUME NEW k \in 0 .. n - 1 PROVE f[k + 1] = f[k] \o W[k + 1]
    <3>1. k + 1 \in 0 .. n /\ k + 1 # 0 /\ (k + 1) - 1 = k
      OBVIOUS
    <3> QED
      BY <1>6, <3>1 DEF IsJoin
  <2> DEFINE T == {k \in Nat : k <= n => f[k] \in Seq(S)}
  <2>3. 0 \in T
    BY <2>1, SMTT(40)
  <2>4. ASSUME NEW k \in Nat, k \in T PROVE k + 1 \in T
    <3> SUFFICES ASSUME k + 1 <= n PROVE f[k + 1] \in Seq(S)
      OBVIOUS
    <3>1. k \in 0 .. n - 1 /\ k + 1 \in 1 .. n /\ f[k] \in Seq(S)
      BY <2>4
    <3>2. W[k + 1] \in Seq(S)
      BY <3>1
    <3>3. f[k] \o W[k + 1] \in Seq(S)
      BY <3>1, <3>2, Concat
    <3> QED
      BY <2>2, <3>1, <3>3
  <2>5. \A k \in Nat : k \in T
    <3> HIDE DEF T
    <3> QED
      BY <2>3, <2>4, NatInduct
  <2>6. \A k \in 0 .. n : f[k] \in Seq(S)
    BY <2>5
  <2>7. f \in [0 .. n -> Seq(S)]
    BY <2>1, <2>6
  <2>8. ASSUME NEW k \in 0 .. n - 1
        PROVE  f[k + 1] = f[k] \o W[k + 1] /\ Len(f[k + 1]) = Len(f[k]) + Len(W[k + 1]) /\ Has(f[k + 1], Len(f[k]), W[k + 1])
               /\ Len(f[k]) \in Nat /\ Len(W[k + 1]) \in Nat
    <3>1. k \in 0 .. n /\ k + 1 \in 1 .. n
      OBVIOUS
    <3>2. f[k] \in Seq(S) /\ W[k + 1] \in Seq(S)
      BY <2>6, <3>1
    <3> DEFINE a == f[k]
               b == W[k + 1]
    <3>3. f[k + 1] = a \o b /\ a \in Seq(S) /\ b \in Seq(S)
      BY <2>2, <3>2
    <3> HIDE DEF a, b
    <3>4. /\ Len(a \o b) = Len(a) + Len(b) /\ Len(a) \in Nat /\ Len(b) \in Nat
          /\ Has(a \o b, Len(a), b)
      BY <3>3, HasConcat
    <3>5. f[k + 1] = a \o b /\ Len(f[k + 1]) = Len(a) + Len(b) /\ Has(f[k + 1], Len(a), b)
      BY <3>3, <3>4
    <3> QED
      BY <3>4, <3>5 DEF a, b
  <2>9. ASSUME NEW k \in 0 .. n - 1 PROVE Has(f[n], Len(f[k]), W[k + 1])
    <3> DEFINE U == {m \in Nat : k + 1 + m <= n => Has(f[k + 1 + m], Len(f[k]), W[k + 1]) /\ Len(f[k + 1 + m]) >= Len(f[k + 1])}
    <3>1. 0 \in U
      <4>1. k + 1 + 0 = k + 1 /\ k + 1 \in 0 .. n
        OBVIOUS
      <4>2. f[k + 1] \in Seq(S)
        BY <2>6, <4>1
      <4>3. Len(f[k + 1]) \in Nat
        BY <4>2
      <4>4. f[k + 1 + 0] = f[k + 1]
        BY <4>1
      <4>5. Has(f[k + 1 + 0], Len(f[k]), W[k + 1])
        BY <2>8, <4>4
      <4>6. Len(f[k + 1 + 0]) >= Len(f[k + 1])
        BY <4>3, <4>4
      <4> QED
        BY <4>5, <4>6
    <3>2. ASSUME NEW m \in Nat, m \in U PROVE m + 1 \in U
      <4> SUFFICES ASSUME k + 1 + (m + 1) <= n
                   PROVE  Has(f[k + 1 + (m + 1)], Len(f[k]), W[k + 1]) /\ Len(f[k + 1 + (m + 1)]) >= Len(f[k + 1])
        OBVIOUS
      <4> DEFINE j == k + 1 + m
      <4>1. j \in 0 .. n - 1 /\ k + 1 + (m + 1) = j + 1 /\ k + 1 \in 0 .. n
        OBVIOUS
      <4>2. Has(f[j], Len(f[k]), W[k + 1]) /\ Len(f[j]) >= Len(f[k + 1])
        BY <3>2, <4>1
      <4>3. f[j] \in Seq(S) /\ W[j + 1] \in Seq(S) /\ f[j + 1] = f[j] \o W[j + 1] /\ Len(f[j + 1]) = Len(f[j]) + Len(W[j + 1])
            /\ Len(f[j]) \in Nat /\ Len(W[j + 1]) \in Nat /\ Len(f[k + 1]) \in Nat
        <5>1. j \in 0 .. n /\ j + 1 \in 1 .. n /\ k + 1 \in 0 .. n
          BY <4>1
        <5> HIDE DEF j
        <5>2. f[j] \in Seq(S) /\ W[j + 1] \in Seq(S) /\ f[k + 1] \in Seq(S)
          BY <2>6, <5>1
        <5>3. Len(f[k + 1]) \in Nat
          BY <5>2
        <5> QED
          BY <2>8, <4>1, <5>2, <5>3
      <4>4. Len(f[k]) \in Nat /\ Len(W[k + 1]) \in Nat /\ Len(f[k]) + Len(W[k + 1]) <= Len(f[j])
        BY <2>8, <4>2
      <4> HIDE DEF j
      <4> DEFINE a == f[j]
                 b == W[j + 1]
                 g2 == W[k + 1]
                 at == Len(f[k])
      <4>5. a \in Seq(S) /\ b \in Seq(S) /\ at \in Nat /\ Len(g2) \in Nat /\ at + Len(g2) <= Len(a) /\ Has(a, at, g2)
        BY <4>2, <4>3, <4>4
      <4> HIDE DEF a, b, g2, at
      <4>6. Has(a \o b, at, g2)
        BY <4>5, HasFirst
      <4>7. Has(f[j + 1], Len(f[k]), W[k + 1])
        BY <4>3, <4>6 DEF a, b, g2, at
      <4>8. Len(f[j + 1]) >= Len(f[k + 1])
        <5> DEFINE p == Len(f[j])
                   r == Len(W[j + 1])
                   c == Len(f[k + 1])
        <5>1. Len(f[j + 1]) = p + r /\ p \in Nat /\ r \in Nat /\ c \in Nat /\ p >= c
          BY <4>2, <4>3
        <5> HIDE DEF p, r, c
        <5>2. p + r >= c
          BY <5>1
        <5> QED
          BY <5>1, <5>2 DEF c
      <4>9. f[k + 1 + (m + 1)] = f[j + 1]
        BY <4>1
      <4> QED
        BY <4>7, <4>8, <4>9
    <3>3. \A m \in Nat : m \in U
      <4> HIDE DEF U
      <4> QED
        BY <3>1, <3>2, NatInduct
    <3>4. n - (k + 1) \in Nat /\ k + 1 + (n - (k + 1)) = n
      OBVIOUS
    <3>5. n - (k + 1) \in U
      BY <3>3, <3>4
    <3> QED
      BY <3>4, <3>5
  <2> HIDE DEF T
  <2> QED
    BY <2>1, <2>7, <2>8, <2>9 DEF Joined
<1> QED
  BY <1>5, <1>6 DEF AreJoined, HasJoin

\* The plaintext of a script, and where in it the requests end
Totals(script) ==
  LET total[k \in 0 .. Len(SentOf(script))] ==
        IF k = 0 THEN <<>> ELSE total[k - 1] \o Written(SentOf(script)[k])
  IN  total

\* Where request j ends, and all of the plaintext
At(script, j) == Len(Totals(script)[j])
Stream(script) == Totals(script)[Len(SentOf(script))]

\* What a script has: requests, Pair Verify being the last one in plaintext
LEMMA ScriptFacts ==
  ASSUME NEW script \in Scripts
  PROVE  /\ SentOf(script) \in Seq(Requests) /\ Len(script.plain) \in Nat /\ Len(script.secure) \in Nat
         /\ Len(SentOf(script)) = Len(script.plain) + Len(script.secure)
         /\ \A k \in 1 .. Len(SentOf(script)) : IsRequest(SentOf(script)[k])
         /\ \A k \in 1 .. Len(script.plain) : SentOf(script)[k].uri = PairVerify => k = Len(script.plain)
         /\ Len(script.secure) # 0 => Len(script.plain) # 0 /\ SentOf(script)[Len(script.plain)].uri = PairVerify
<1> DEFINE a == script.plain
           b == script.secure
<1>1. IsScript(script)
  BY IPSessionInputAssumption
<1>2. /\ a \in Seq(Requests) /\ b \in Seq(Requests) /\ (b # <<>> => a # <<>> /\ a[Len(a)].uri = PairVerify)
      /\ (\A k \in DOMAIN a : IsRequest(a[k])) /\ (\A k \in DOMAIN b : IsRequest(b[k]))
      /\ (\A k \in DOMAIN a : a[k].uri = PairVerify => k = Len(a))
  BY <1>1 DEF IsScript
<1>3. SentOf(script) = a \o b
  BY DEF SentOf
<1> HIDE DEF a, b
<1>4. /\ a \o b \in Seq(Requests) /\ Len(a \o b) = Len(a) + Len(b) /\ Len(a) \in Nat /\ Len(b) \in Nat
      /\ \A k \in 1 .. Len(a) : (a \o b)[k] = a[k]
      /\ \A k \in Len(a) + 1 .. Len(a) + Len(b) : (a \o b)[k] = b[k - Len(a)]
  BY <1>2, Concat
<1>5. DOMAIN a = 1 .. Len(a) /\ DOMAIN b = 1 .. Len(b) /\ (Len(b) # 0 => b # <<>>) /\ (a # <<>> => Len(a) # 0)
  BY <1>2
<1>6. ASSUME NEW k \in 1 .. Len(a \o b) PROVE IsRequest((a \o b)[k])
  <2>1. CASE k <= Len(a)
    BY <1>2, <1>4, <1>5, <2>1
  <2>2. CASE k > Len(a)
    <3>1. k \in Len(a) + 1 .. Len(a) + Len(b) /\ k - Len(a) \in 1 .. Len(b)
      BY <1>4, <2>2
    <3> QED
      BY <1>2, <1>4, <1>5, <3>1, SMTT(40)
  <2> QED
    BY <1>4, <2>1, <2>2
<1>7. \A k \in 1 .. Len(a) : (a \o b)[k].uri = PairVerify => k = Len(a)
  BY <1>2, <1>4, <1>5, ZenonT(40)
<1>8. Len(b) # 0 => Len(a) # 0 /\ (a \o b)[Len(a)].uri = PairVerify
  <2> SUFFICES ASSUME Len(b) # 0 PROVE Len(a) # 0 /\ (a \o b)[Len(a)].uri = PairVerify
    OBVIOUS
  <2>1. Len(a) # 0 /\ a[Len(a)].uri = PairVerify
    BY <1>2, <1>5
  <2>2. (a \o b)[Len(a)] = a[Len(a)]
    BY <1>4, <2>1
  <2> QED
    BY <2>1, <2>2
<1> QED
  BY <1>3, <1>4, <1>6, <1>7, <1>8 DEF a, b

\* A request is its heading and its body.
LEMMA WrittenFacts ==
  ASSUME NEW q, IsRequest(q)
  PROVE  /\ Written(q) \in Seq(Octets) /\ Len(Written(q)) = Len(Heading(q)) + Len(q.body)
         /\ Len(Heading(q)) \in Nat \ {0} /\ Len(q.body) \in Nat
         /\ Has(Written(q), 0, Heading(q)) /\ Has(Written(q), Len(Heading(q)), q.body)
<1>1. Heading(q) \in Seq(Octets) /\ q.body \in Seq(Octets)
  BY HeadingPieces, RequestTypes
<1>2. Len(Heading(q)) \in Nat \ {0}
  <2>1. Len(Heading(q)) = LineAt(q, 3) + 2 /\ LineAt(q, 3) \in Nat
    BY HeadingPieces, LineAts
  <2> QED
    BY <2>1
<1> QED
  BY <1>1, <1>2, HasConcat DEF Written

\* The stream of a script has one request behind the other.
LEMMA StreamFacts ==
  ASSUME NEW script \in Scripts
  PROVE  LET sent == SentOf(script)
         IN  /\ At(script, 0) = 0 /\ \A j \in 0 .. Len(sent) : At(script, j) \in Nat
             /\ \A j \in 0 .. Len(sent) - 1 : /\ At(script, j + 1) = At(script, j) + Len(Written(sent[j + 1]))
                                              /\ Has(Stream(script), At(script, j), Written(sent[j + 1]))
             /\ Stream(script) \in Seq(Octets) /\ At(script, Len(sent)) = Len(Stream(script))
<1> DEFINE sent == SentOf(script)
           n == Len(sent)
           W == [k \in 1 .. n |-> Written(sent[k])]
           IsTotal(g) == g = [k \in 0 .. n |-> IF k = 0 THEN <<>> ELSE g[k - 1] \o Written(sent[k])]
           f == CHOOSE g : IsTotal(g)
<1>1. n \in Nat /\ \A k \in 1 .. n : IsRequest(sent[k])
  <2>1. n \in Nat
    BY ScriptFacts
  <2>2. \A k \in 1 .. Len(SentOf(script)) : IsRequest(SentOf(script)[k])
    BY ScriptFacts
  <2> QED
    BY <2>1, <2>2
<1>2. Totals(script) = f
  BY DEF Totals
<1> HIDE DEF n, sent
<1>3. W \in [1 .. n -> Seq(Octets)]
  BY <1>1, WrittenFacts
<1>4. AreJoined(Octets, W, n)
  <2> HIDE DEF W
  <2> QED
    BY <1>1, <1>3, Joins
<1>5. ASSUME NEW g PROVE IsTotal(g) <=> IsJoin(W, n, g)
  <2>1. \A k \in 0 .. n : (IF k = 0 THEN <<>> ELSE g[k - 1] \o Written(sent[k])) = (IF k = 0 THEN <<>> ELSE g[k - 1] \o W[k])
    <3>1. \A k \in 0 .. n : k # 0 => W[k] = Written(sent[k])
      BY <1>1
    <3> HIDE DEF W
    <3> QED
      BY <3>1
  <2> HIDE DEF W
  <2>2. [k \in 0 .. n |-> IF k = 0 THEN <<>> ELSE g[k - 1] \o Written(sent[k])] = [k \in 0 .. n |-> IF k = 0 THEN <<>> ELSE g[k - 1] \o W[k]]
    BY <2>1, Zenon
  <2> QED
    BY <2>2 DEF IsJoin
<1>6. \E g : IsTotal(g)
  BY <1>4, <1>5, ZenonT(40) DEF AreJoined, HasJoin
<1>7. IsTotal(f)
  BY <1>6, ZenonT(40)
<1>8. Joined(Octets, W, n, f)
  BY <1>4, <1>5, <1>7, ZenonT(40) DEF AreJoined
<1>9. \A k \in 0 .. n - 1 : W[k + 1] = Written(sent[k + 1])
  BY <1>1
<1> HIDE DEF f, W
<1>10. f[0] = <<>> /\ \A k \in 0 .. n : f[k] \in Seq(Octets)
  BY <1>8 DEF Joined
<1>11. \A k \in 0 .. n : Len(f[k]) \in Nat
  BY <1>10
<1>12. \A k \in 0 .. n - 1 : Len(f[k + 1]) = Len(f[k]) + Len(Written(sent[k + 1])) /\ Has(f[n], Len(f[k]), Written(sent[k + 1]))
  BY <1>8, <1>9 DEF Joined
<1>13. Len(f[0]) = 0
  BY <1>10
<1>14. Stream(script) = f[n] /\ \A k : At(script, k) = Len(f[k])
  BY <1>2 DEF Stream, At, n, sent
<1>15. Stream(script) \in Seq(Octets) /\ At(script, n) = Len(Stream(script))
  BY <1>1, <1>10, <1>14
<1> HIDE DEF IsTotal
<1> QED
  BY <1>11, <1>12, <1>13, <1>14, <1>15 DEF n, sent

\* The requests follow each other.
LEMMA AtOrder ==
  ASSUME NEW script \in Scripts, NEW i \in 0 .. Len(SentOf(script)), NEW j \in 0 .. Len(SentOf(script))
  PROVE  /\ i <= j => At(script, i) <= At(script, j)
         /\ i < j => At(script, i) < At(script, j)
         /\ At(script, i) \in Nat /\ At(script, j) \in Nat
<1> DEFINE n == Len(SentOf(script))
<1>1. n \in Nat
  BY ScriptFacts
<1>2. \A k \in 0 .. n : At(script, k) \in Nat
  BY StreamFacts
<1>3. ASSUME NEW k \in 0 .. n - 1 PROVE At(script, k) < At(script, k + 1)
  <2>1. k + 1 \in 1 .. n
    BY <1>1
  <2>2. IsRequest(SentOf(script)[k + 1])
    BY <2>1, ScriptFacts
  <2>3. Len(Written(SentOf(script)[k + 1])) \in Nat \ {0}
    BY <2>2, WrittenFacts
  <2>4. At(script, k + 1) = At(script, k) + Len(Written(SentOf(script)[k + 1]))
    BY StreamFacts
  <2>5. At(script, k) \in Nat
    BY <1>1, <1>2
  <2> QED
    BY <2>3, <2>4, <2>5
<1> HIDE DEF n
<1> DEFINE T == {m \in Nat : i + m <= n => At(script, i) <= At(script, i + m) /\ (m > 0 => At(script, i) < At(script, i + m))}
<1>4. i \in 0 .. n /\ j \in 0 .. n
  BY DEF n
<1>5. 0 \in T
  <2>1. i + 0 = i
    BY <1>4
  <2> QED
    BY <1>2, <1>4, <2>1
<1>6. ASSUME NEW m \in Nat, m \in T PROVE m + 1 \in T
  <2> SUFFICES ASSUME i + (m + 1) <= n PROVE At(script, i) < At(script, i + (m + 1))
    BY <1>2, <1>4
  <2>1. i + m \in 0 .. n - 1 /\ i + (m + 1) = (i + m) + 1 /\ i + (m + 1) \in 0 .. n /\ i + m \in 0 .. n
    BY <1>1, <1>4
  <2>2. At(script, i) <= At(script, i + m) /\ At(script, i + m) < At(script, (i + m) + 1)
    BY <1>1, <1>3, <1>4, <1>6, <2>1
  <2>3. At(script, i) \in Nat /\ At(script, i + m) \in Nat /\ At(script, (i + m) + 1) \in Nat
    BY <1>2, <1>4, <2>1
  <2>4. At(script, i) < At(script, (i + m) + 1)
    BY <2>2, <2>3
  <2> QED
    BY <2>1, <2>4
<1>7. \A m \in Nat : m \in T
  <2> HIDE DEF T
  <2> QED
    BY <1>5, <1>6, NatInduct
<1>8. CASE i <= j
  <2>1. j - i \in Nat /\ i + (j - i) = j /\ (i < j => j - i > 0)
    BY <1>4, <1>8
  <2>2. j - i \in T
    BY <1>7, <2>1
  <2> QED
    BY <1>2, <1>4, <2>1, <2>2
<1> QED
  BY <1>2, <1>4, <1>8

-----------------------------------------------------------------------------
(* The buffer and the wire follow two tapes: the plaintext of the script   *)
(* (Stream), and the ciphertext that has been sent (cipher), which the     *)
(* frames cut into pieces (cuts).                                          *)

\* How many requests have been handled, and where in the plaintext the next one begins
NumHandled(x) == Len(x.handled)
Base(x) == At(x.script, NumHandled(x))

\* bytes[from + 1 .. to] is what the tape has after the first at
Follows(tape, at, bytes, from, to) == \A k \in from + 1 .. to : bytes[k] = tape[at + k - from]

\* The frames that have been sent: where in the plaintext they end, and the ciphertext
FrameAt(cuts, i) == cuts[i] - cuts[0] + 3 * i

\* cipher has, behind the first f, the frame with these bytes from + 1 .. to.
IsPiece(bytes, nonce, from, to, cipher, f) ==
  LET n == to - from
  IN  /\ cipher[f + 1] = n % 256 /\ cipher[f + 2] = n \div 256
      /\ \A k \in 1 .. n : cipher[f + 2 + k] = Cipher(nonce, bytes[from + k])
      /\ cipher[f + n + 3] = Tag(nonce)

\* Frame i is there, and it is a part of one request.
IsFrame(script, cuts, cipher, i) ==
  /\ cuts[i + 1] - cuts[i] \in 1 .. MaxFrameBytes
  /\ FrameAt(cuts, i) \in Nat /\ FrameAt(cuts, i + 1) <= Len(cipher)
  /\ IsPiece(Stream(script), i, cuts[i], cuts[i + 1], cipher, FrameAt(cuts, i))

IsWithin(script, cuts, numSent, i) ==
  \E j \in 1 .. numSent : At(script, j - 1) <= cuts[i] /\ cuts[i + 1] <= At(script, j)

\* The frames of the requests that have been sent after the ones in plaintext
AreFrames(script, cuts, cipher, numSent, num) ==
  /\ cuts \in [0 .. num -> Nat] /\ cipher \in Seq(Int)
  /\ cuts[0] = At(script, Len(script.plain)) /\ cuts[num] = At(script, numSent)
  /\ Len(cipher) = FrameAt(cuts, num)
  /\ \A i \in 0 .. num - 1 : IsFrame(script, cuts, cipher, i) /\ IsWithin(script, cuts, numSent, i)

\* What is in the buffer before the position has been decrypted, what is after it has not.
Deciphers(x, cuts, cipher) ==
  /\ AreFrames(x.script, cuts, cipher, x.numSent, x.sentNonce)
  /\ x.nonce <= x.sentNonce /\ NumHandled(x) <= x.numSent /\ x.numSent <= Len(SentOf(x.script))
  /\ x.position <= x.limit /\ x.limit <= Capacity /\ x.state # "Failed"
  /\ Base(x) + x.position = cuts[x.nonce]
  /\ Follows(Stream(x.script), Base(x), x.data, 0, x.position)
  /\ Follows(cipher, FrameAt(cuts, x.nonce), x.data, x.position, x.limit)
  /\ Follows(cipher, FrameAt(cuts, x.nonce) + x.limit - x.position, x.wire, 0, Len(x.wire))
  /\ FrameAt(cuts, x.nonce) + x.limit - x.position + Len(x.wire) = Len(cipher)

\* The next frame is not complete.
IsShort(x, cuts) ==
  x.nonce < x.sentNonce => x.limit - x.position < cuts[x.nonce + 1] - cuts[x.nonce] + 3

\* What decrypting leaves alone
SameButDecrypting(x, y) ==
  /\ y.script = x.script /\ y.numSent = x.numSent /\ y.wire = x.wire /\ y.sentNonce = x.sentNonce
  /\ y.numAnswered = x.numAnswered /\ y.state = x.state /\ y.hasKeys = x.hasKeys /\ y.isSecured = x.isSecured
  /\ y.mark = x.mark /\ y.reader = x.reader /\ y.readerPosition = x.readerPosition /\ y.parserError = x.parserError
  /\ y.tokens = x.tokens /\ y.contentLength = x.contentLength /\ y.contentType = x.contentType
  /\ y.handled = x.handled /\ y.sealed = x.sealed

\* What decrypting does
Decrypts(x, y, cuts, cipher) == y \in Sessions /\ Deciphers(y, cuts, cipher) /\ SameButDecrypting(x, y) /\ y.position >= x.position

\* A frame is decrypted into the plaintext it is of, unless it is not complete.
LEMMA FrameSteps ==
  ASSUME NEW x \in Sessions, NEW cuts, NEW cipher, Deciphers(x, cuts, cipher)
  PROVE  /\ Decrypts(x, DecryptFrame(x), cuts, cipher)
         /\ DecryptFrame(x).limit < x.limit \/ (DecryptFrame(x) = x /\ IsShort(x, cuts))
<1> DEFINE at == x.position
           i == x.nonce
           f == FrameAt(cuts, i)
           m == x.data[at + 1] + 256 * x.data[at + 2]
           y == DecryptFrame(x)
<1>1. /\ at \in Nat /\ i \in Nat /\ x.limit \in Nat /\ x.sentNonce \in Nat /\ at <= x.limit /\ i <= x.sentNonce
      /\ x.limit <= Capacity /\ Capacity \in Nat /\ x.state # "Failed" /\ x.data \in [1 .. Capacity -> Int]
      /\ x.script \in Scripts /\ x.wire \in Seq(Int)
  BY IPSessionInputAssumption DEF Sessions, Deciphers
<1>0. at \in Nat /\ i \in Nat /\ x.limit \in Nat /\ at <= x.limit /\ x.limit <= Capacity /\ Capacity \in Nat
  BY <1>1
<1>2. cuts \in [0 .. x.sentNonce -> Nat] /\ cipher \in Seq(Int) /\ Len(cipher) = FrameAt(cuts, x.sentNonce)
  BY DEF Deciphers, AreFrames
<1>3. Base(x) + at = cuts[i] /\ f + x.limit - at + Len(x.wire) = Len(cipher) /\ Len(x.wire) \in Nat
  BY <1>1 DEF Deciphers
<1>4. f \in Int /\ cuts[i] \in Nat /\ cuts[0] \in Nat
  <2>1. cuts[i] \in Nat /\ cuts[0] \in Nat
    <3> HIDE DEF i
    <3>1. i \in 0 .. x.sentNonce /\ 0 \in 0 .. x.sentNonce
      BY <1>1
    <3> QED
      BY <1>2, <3>1
  <2> QED
    BY <1>0, <2>1 DEF FrameAt
<1> HIDE DEF f
<1>5. SameButDecrypting(x, x) /\ Decrypts(x, x, cuts, cipher)
  BY <1>1 DEF SameButDecrypting, Decrypts
<1>6. CASE x.limit - at < 2
  <2>1. y = x
    BY <1>6 DEF DecryptFrame, NumAADBytes
  <2>2. IsShort(x, cuts)
    <3> SUFFICES ASSUME i < x.sentNonce PROVE x.limit - at < cuts[i + 1] - cuts[i] + 3
      BY DEF IsShort
    <3>1. IsFrame(x.script, cuts, cipher, i)
      BY <1>1 DEF Deciphers, AreFrames
    <3>2. cuts[i + 1] - cuts[i] >= 1 /\ cuts[i + 1] - cuts[i] \in Int
      BY <3>1, IPSessionInputAssumption DEF IsFrame
    <3> QED
      BY <1>1, <1>6, <3>2
  <2> QED
    BY <1>5, <2>1, <2>2
<1>7. CASE ~(x.limit - at < 2)
  <2>1. i < x.sentNonce
    BY <1>1, <1>2, <1>3, <1>4, <1>7, SMTT(40) DEF f
  <2> DEFINE n == cuts[i + 1] - cuts[i]
             end == at + n + 3
  <2>2. IsFrame(x.script, cuts, cipher, i) /\ IsWithin(x.script, cuts, x.numSent, i)
    BY <1>1, <2>1 DEF Deciphers, AreFrames
  <2>3. n \in Nat /\ n >= 1 /\ n <= MaxFrameBytes
    BY <2>2, IPSessionInputAssumption DEF IsFrame
  <2>4. /\ cipher[f + 1] = n % 256 /\ cipher[f + 2] = n \div 256 /\ cipher[f + n + 3] = Tag(i)
        /\ \A k \in 1 .. n : cipher[f + 2 + k] = Cipher(i, Stream(x.script)[cuts[i] + k])
    BY <2>2 DEF IsFrame, IsPiece, f
  <2>5. \A k \in at + 1 .. x.limit : x.data[k] = cipher[f + k - at]
    BY DEF Deciphers, Follows, f
  <2>6. \A k \in 1 .. n : Stream(x.script)[cuts[i] + k] \in Octets
    <3>1. PICK j \in 1 .. x.numSent : cuts[i + 1] <= At(x.script, j)
      BY <2>2 DEF IsWithin
    <3>2. Stream(x.script) \in Seq(Octets) /\ At(x.script, Len(SentOf(x.script))) = Len(Stream(x.script))
      BY <1>1, StreamFacts
    <3>3. x.numSent \in Nat /\ x.numSent <= Len(SentOf(x.script)) /\ Len(SentOf(x.script)) \in Nat
      BY <1>1, ScriptFacts DEF Sessions, Deciphers
    <3>4. At(x.script, j) <= At(x.script, Len(SentOf(x.script))) /\ At(x.script, j) \in Nat
      <4>1. j \in 0 .. Len(SentOf(x.script)) /\ Len(SentOf(x.script)) \in 0 .. Len(SentOf(x.script)) /\ j <= Len(SentOf(x.script))
        BY <3>3
      <4> QED
        BY <1>1, <4>1, AtOrder
    <3>5. Len(Stream(x.script)) \in Nat
      BY <3>2
    <3>6. cuts[i + 1] = cuts[i] + n /\ cuts[i] \in Nat
      BY <1>1, <1>2, <1>4, <2>1, SMTT(40)
    <3> HIDE DEF n
    <3>7. \A k \in 1 .. n : cuts[i] + k \in 1 .. Len(Stream(x.script))
      BY <2>3, <3>1, <3>2, <3>4, <3>5, <3>6
    <3> QED
      BY <3>2, <3>7
  <2>7. f + n + 3 = FrameAt(cuts, i + 1) /\ cuts[i + 1] = cuts[i] + n
    <3>1. cuts[i + 1] \in Nat
      BY <1>1, <1>2, <2>1
    <3>2. n = cuts[i + 1] - cuts[i] /\ f = cuts[i] - cuts[0] + 3 * i /\ FrameAt(cuts, i + 1) = cuts[i + 1] - cuts[0] + 3 * (i + 1)
      BY DEF FrameAt, f
    <3> HIDE DEF n, i
    <3> QED
      BY <1>0, <1>4, <3>1, <3>2
  <2>8. m = n
    <3>1. x.data[at + 1] = cipher[f + 1] /\ x.data[at + 2] = cipher[f + 2]
      <4> HIDE DEF at
      <4>1. at + 1 \in at + 1 .. x.limit /\ at + 2 \in at + 1 .. x.limit /\ f + (at + 1) - at = f + 1 /\ f + (at + 2) - at = f + 2
        BY <1>1, <1>4, <1>7, SMTT(40)
      <4> QED
        BY <2>5, <4>1
    <3>2. n = (n % 256) + 256 * (n \div 256)
      <4> HIDE DEF n
      <4> QED
        BY <2>3
    <3> QED
      BY <2>4, <3>1, <3>2
  <2> HIDE DEF n
  <2>9. end = at + NumAADBytes + m + TagBytes /\ ~(m > MaxFrameBytes) /\ ~(x.limit - at < NumAADBytes)
    BY <1>1, <1>7, <2>3, <2>8, IPSessionInputAssumption, SMTT(40) DEF NumAADBytes, TagBytes
  <2> HIDE DEF m, end
  <2>10. CASE x.limit < end
    <3>1. y = x
      BY <1>1, <2>9, <2>10 DEF DecryptFrame, m
    <3>2. IsShort(x, cuts)
      BY <1>1, <2>3, <2>10, SMTT(40) DEF IsShort, n, end
    <3> QED
      BY <1>5, <3>1, <3>2
  <2>11. CASE ~(x.limit < end)
    <3> DEFINE isAuthentic == /\ x.data[end] = Tag(i)
                              /\ \A k \in at + NumAADBytes + 1 .. end - TagBytes : x.data[k] - Cipher(i, 0) \in 0 .. 98
               plain == [k \in DOMAIN x.data |->
                           IF k \in at + 1 .. at + m THEN x.data[k + NumAADBytes] - Cipher(i, 0) ELSE x.data[k]]
               data == ClosedUp(plain, at, m, x.limit)
    <3>1. end \in Nat /\ end <= x.limit /\ end = at + n + 3
      BY <1>1, <2>3, <2>11, SMTT(40) DEF end
    <3>2. \A k \in 1 .. n : x.data[at + 2 + k] - Cipher(i, 0) = Stream(x.script)[cuts[i] + k]
      <4> SUFFICES ASSUME NEW k \in 1 .. n PROVE x.data[at + 2 + k] - Cipher(i, 0) = Stream(x.script)[cuts[i] + k]
        OBVIOUS
      <4>1. at + 2 + k \in at + 1 .. x.limit /\ f + (at + 2 + k) - at = f + 2 + k
        <5> HIDE DEF at, plain, data
        <5> QED
          BY <1>0, <1>4, <2>3, <3>1
      <4>2. x.data[at + 2 + k] = Cipher(i, Stream(x.script)[cuts[i] + k])
        BY <2>4, <2>5, <4>1
      <4>3. Stream(x.script)[cuts[i] + k] \in Octets
        BY <2>6
      <4> DEFINE c == Stream(x.script)[cuts[i] + k]
      <4>4. c \in 0 .. 98
        BY <4>3 DEF Octets
      <4> HIDE DEF c
      <4>5. Cipher(i, c) - Cipher(i, 0) = c
        <5> HIDE DEF i
        <5> QED
          BY <1>0, <4>4 DEF Cipher
      <4> QED
        BY <4>2, <4>5 DEF c
    <3>3. isAuthentic
      <4>1. x.data[end] = Tag(i)
        <5>1. end \in at + 1 .. x.limit /\ f + end - at = f + n + 3
          <6> HIDE DEF at, plain, data
          <6> QED
            BY <1>0, <1>4, <2>3, <3>1
        <5> QED
          BY <2>4, <2>5, <5>1
      <4>2. ASSUME NEW k \in at + NumAADBytes + 1 .. end - TagBytes PROVE x.data[k] - Cipher(i, 0) \in 0 .. 98
        <5>1. k - at - 2 \in 1 .. n /\ at + 2 + (k - at - 2) = k
          <6> HIDE DEF at
          <6> QED
            BY <1>0, <2>3, <3>1 DEF NumAADBytes, TagBytes
        <5>2. Stream(x.script)[cuts[i] + (k - at - 2)] \in 0 .. 98
          BY <2>6, <5>1 DEF Octets
        <5>3. x.data[at + 2 + (k - at - 2)] - Cipher(i, 0) = Stream(x.script)[cuts[i] + (k - at - 2)]
          BY <3>2, <5>1
        <5> QED
          BY <5>1, <5>2, <5>3
      <4> QED
        BY <4>1, <4>2
    <3>4. y = [x EXCEPT !.data = data, !.position = at + m, !.limit = x.limit - NumAADBytes - TagBytes, !.nonce = @ + 1]
      BY <1>1, <2>9, <2>11, <3>3, Zenon DEF DecryptFrame, m
    <3>5. /\ DOMAIN data = 1 .. Capacity /\ data = [k \in 1 .. Capacity |-> data[k]]
          /\ \A k \in 1 .. Capacity :
               data[k] = IF k \in at + n + 1 .. x.limit - 3 THEN plain[k + 3] ELSE plain[k]
      <4>1. at + n + NumAADBytes + TagBytes = at + n + 3 /\ at + n + (x.limit - (at + n + 3)) = x.limit - 3
            /\ \A k \in Int : (at + n + 3) + k - (at + n) = k + 3
        <5> HIDE DEF at
        <5> QED
          BY <1>0, <2>3 DEF NumAADBytes, TagBytes
      <4>2. DOMAIN plain = 1 .. Capacity
        BY <1>1
      <4> HIDE DEF plain
      <4>3. data = CopyBytes(plain, at + n, at + n + 3, x.limit - (at + n + 3))
        BY <2>8, <4>1 DEF ClosedUp
      <4>4. data = [k \in 1 .. Capacity |-> IF k \in at + n + 1 .. at + n + (x.limit - (at + n + 3))
                                            THEN plain[(at + n + 3) + k - (at + n)] ELSE plain[k]]
        BY <4>2, <4>3 DEF CopyBytes
      <4> HIDE DEF data
      <4>5. DOMAIN data = 1 .. Capacity /\ data = [k \in 1 .. Capacity |-> data[k]]
        BY <4>4
      <4>6. \A k \in 1 .. Capacity : k \in Int /\ (at + n + 3) + k - (at + n) = k + 3
        BY <1>0, <4>1
      <4>7. ASSUME NEW k \in 1 .. Capacity PROVE data[k] = IF k \in at + n + 1 .. x.limit - 3 THEN plain[k + 3] ELSE plain[k]
        BY <4>1, <4>4, <4>6
      <4> QED
        BY <4>5, <4>7
    <3>6. \A k \in 1 .. Capacity : plain[k] = IF k \in at + 1 .. at + n THEN x.data[k + 2] - Cipher(i, 0) ELSE x.data[k]
      BY <1>1, <2>8 DEF NumAADBytes
    <3> HIDE DEF plain, data
    <3>7. \A k \in 1 .. at : data[k] = x.data[k]
      <4> SUFFICES ASSUME NEW k \in 1 .. at PROVE data[k] = x.data[k]
        OBVIOUS
      <4>1. k \in 1 .. Capacity /\ k \notin at + n + 1 .. x.limit - 3 /\ k \notin at + 1 .. at + n
        BY <1>0, <2>3
      <4> QED
        BY <3>5, <3>6, <4>1
    <3>8. \A k \in 1 .. n : data[at + k] = Stream(x.script)[cuts[i] + k]
      <4> SUFFICES ASSUME NEW k \in 1 .. n PROVE data[at + k] = Stream(x.script)[cuts[i] + k]
        OBVIOUS
      <4>1. at + k \in 1 .. Capacity /\ at + k \notin at + n + 1 .. x.limit - 3 /\ at + k \in at + 1 .. at + n /\ at + k + 2 = at + 2 + k
        BY <1>0, <2>3, <3>1
      <4>2. data[at + k] = x.data[at + k + 2] - Cipher(i, 0)
        BY <3>5, <3>6, <4>1
      <4> QED
        BY <3>2, <4>1, <4>2
    <3>9. \A k \in at + n + 1 .. x.limit - 3 : data[k] = x.data[k + 3]
      <4> SUFFICES ASSUME NEW k \in at + n + 1 .. x.limit - 3 PROVE data[k] = x.data[k + 3]
        OBVIOUS
      <4>1. k \in 1 .. Capacity /\ k + 3 \in 1 .. Capacity /\ k + 3 \notin at + 1 .. at + n
        BY <1>0, <2>3, <3>1
      <4> QED
        BY <3>5, <3>6, <4>1
    <3>10. data \in [1 .. Capacity -> Int]
      <4>1. ASSUME NEW k \in 1 .. Capacity PROVE plain[k] \in Int
        <5>1. CASE k \in at + 1 .. at + n
          <6>1. k + 2 \in 1 .. Capacity
            BY <1>0, <2>3, <3>1, <5>1
          <6>2. x.data[k + 2] \in Int /\ Cipher(i, 0) \in Int
            BY <1>1, <6>1 DEF Cipher
          <6> QED
            BY <3>6, <5>1, <6>2
        <5>2. CASE k \notin at + 1 .. at + n
          BY <1>1, <3>6, <5>2
        <5> QED
          BY <5>1, <5>2
      <4>2. \A k \in at + n + 1 .. x.limit - 3 : k + 3 \in 1 .. Capacity
        BY <1>0, <2>3, <3>1
      <4>3. \A k \in 1 .. Capacity : data[k] \in Int
        BY <3>5, <4>1, <4>2
      <4> QED
        BY <3>5, <4>3
    <3>11. y = [x EXCEPT !.data = data, !.position = at + n, !.limit = x.limit - 3, !.nonce = i + 1]
      <4>1. x.limit - NumAADBytes - TagBytes = x.limit - 3
        BY <1>0 DEF NumAADBytes, TagBytes
      <4> QED
        BY <2>8, <3>4, <4>1 DEF data, plain
    <3>12. at + n \in Nat /\ x.limit - 3 \in Nat /\ i + 1 \in Nat /\ at + n <= x.limit - 3 /\ x.limit - 3 <= Capacity
      BY <1>0, <2>3, <3>1
    <3> HIDE DEF y
    <3>13. /\ y \in Sessions /\ SameButDecrypting(x, y) /\ y.data = data
           /\ y.position = at + n /\ y.limit = x.limit - 3 /\ y.nonce = i + 1
      <4> HIDE DEF at, i
      <4> QED
        BY <3>10, <3>11, <3>12 DEF Sessions, SameButDecrypting
    <3>14. y.script = x.script /\ NumHandled(y) = NumHandled(x) /\ Base(y) = Base(x) /\ y.wire = x.wire /\ y.sentNonce = x.sentNonce /\ y.numSent = x.numSent /\ y.state = x.state
      BY <3>13 DEF SameButDecrypting, Base, NumHandled
    <3>15. Base(x) \in Int /\ Base(x) + at = cuts[i]
      <4>1. NumHandled(x) \in 0 .. Len(SentOf(x.script))
        BY <1>1, ScriptFacts, SMTT(40) DEF Sessions, Deciphers, NumHandled
      <4> QED
        BY <1>1, <1>3, <4>1, StreamFacts DEF Base
    <3>16. Follows(Stream(x.script), Base(x), data, 0, at + n)
      <4> SUFFICES ASSUME NEW k \in 1 .. at + n PROVE data[k] = Stream(x.script)[Base(x) + k]
        BY <1>0, <2>3, <3>15 DEF Follows
      <4>1. CASE k <= at
        <5>1. k \in 1 .. at /\ Base(x) + k - 0 = Base(x) + k /\ k \in 0 + 1 .. at
          BY <1>0, <3>15, <4>1
        <5>2. x.data[k] = Stream(x.script)[Base(x) + k - 0]
          BY <5>1 DEF Deciphers, Follows
        <5> QED
          BY <3>7, <5>1, <5>2
      <4>2. CASE k > at
        <5>1. k - at \in 1 .. n /\ at + (k - at) = k /\ cuts[i] + (k - at) = Base(x) + k
          BY <1>0, <2>3, <3>15, <4>2
        <5> QED
          BY <3>8, <5>1
      <4> QED
        BY <1>0, <2>3, <4>1, <4>2
    <3>17. Follows(cipher, FrameAt(cuts, i + 1), data, at + n, x.limit - 3)
      <4> SUFFICES ASSUME NEW k \in at + n + 1 .. x.limit - 3 PROVE data[k] = cipher[FrameAt(cuts, i + 1) + k - (at + n)]
        BY DEF Follows
      <4>1. k + 3 \in at + 1 .. x.limit /\ f + (k + 3) - at = FrameAt(cuts, i + 1) + k - (at + n)
        <5>1. FrameAt(cuts, i + 1) = f + n + 3
          BY <2>7
        <5> HIDE DEF at
        <5> QED
          BY <1>0, <1>4, <2>3, <5>1
      <4> QED
        BY <2>5, <3>9, <4>1
    <3>18. FrameAt(cuts, i + 1) + (x.limit - 3) - (at + n) = f + x.limit - at
      <4>1. FrameAt(cuts, i + 1) = f + n + 3
        BY <2>7
      <4> HIDE DEF at
      <4> QED
        BY <1>0, <1>4, <2>3, <4>1
    <3>19. Base(x) + (at + n) = cuts[i + 1] /\ i + 1 <= x.sentNonce
      BY <1>0, <1>1, <2>1, <2>3, <2>7, <3>15, SMTT(40)
    <3>20. Deciphers(y, cuts, cipher)
      <4>1. AreFrames(x.script, cuts, cipher, x.numSent, x.sentNonce) /\ x.numSent <= Len(SentOf(x.script)) /\ NumHandled(x) <= x.numSent
        BY DEF Deciphers
      <4>2. Follows(cipher, f + x.limit - at, x.wire, 0, Len(x.wire)) /\ f + x.limit - at + Len(x.wire) = Len(cipher)
        BY DEF Deciphers, f
      <4> QED
        BY <1>1, <3>12, <3>13, <3>14, <3>16, <3>17, <3>18, <3>19, <4>1, <4>2 DEF Deciphers
    <3>21. y.limit < x.limit /\ y.position >= x.position
      BY <1>0, <2>3, <3>13
    <3> QED
      BY <3>13, <3>20, <3>21 DEF Decrypts, y
  <2> QED
    BY <2>10, <2>11
<1> QED
  BY <1>6, <1>7

\* HAPIPSecurityProtocolDecryptData, to the last frame that is complete
LEMMA DataDecrypts ==
  ASSUME NEW x \in Sessions, NEW cuts, NEW cipher, Deciphers(x, cuts, cipher)
  PROVE  Decrypts(x, DecryptData(x), cuts, cipher) /\ IsShort(DecryptData(x), cuts)
<1> DEFINE n == x.limit
           S == {z \in Sessions : Decrypts(x, z, cuts, cipher)}
           Ended == {z \in S : DecryptFrame(z) = z}
           Step == [z \in S |-> DecryptFrame(z)]
           Limits == [z \in S |-> z.limit]
<1>1. n \in Nat /\ n + 1 \in Nat /\ n <= n + 1
  BY SMTT(40) DEF Sessions
<1>2. x \in S
  BY DEF Decrypts, SameButDecrypting, Sessions
<1>3. ASSUME NEW z \in S
      PROVE  /\ DecryptFrame(z) \in S /\ z.limit \in Nat
             /\ DecryptFrame(z).limit < z.limit \/ (DecryptFrame(z) = z /\ IsShort(z, cuts))
  <2> DEFINE y == DecryptFrame(z)
  <2>1. z \in Sessions /\ Deciphers(z, cuts, cipher) /\ SameButDecrypting(x, z) /\ z.position >= x.position
    BY DEF Decrypts
  <2>2. Decrypts(z, y, cuts, cipher) /\ (y.limit < z.limit \/ (y = z /\ IsShort(z, cuts)))
    BY <2>1, FrameSteps
  <2> HIDE DEF y
  <2>3. y \in Sessions /\ Deciphers(y, cuts, cipher) /\ SameButDecrypting(z, y) /\ y.position >= z.position
    BY <2>2 DEF Decrypts
  <2>4. SameButDecrypting(x, y)
    BY <2>1, <2>3 DEF SameButDecrypting
  <2>5. y.position >= x.position
    <3>1. y.position \in Nat /\ z.position \in Nat /\ x.position \in Nat
      BY <2>1, <2>3 DEF Sessions
    <3> QED
      BY <2>1, <2>3, <3>1
  <2>6. z.limit \in Nat
    BY <2>1 DEF Sessions
  <2> QED
    BY <2>2, <2>3, <2>4, <2>5, <2>6 DEF Decrypts, y
<1>4. Step \in [S -> S] /\ Limits \in [S -> Nat] /\ \A z \in S : Step[z] = DecryptFrame(z) /\ Limits[z] = z.limit
  <2>1. \A z \in S : DecryptFrame(z) \in S /\ z.limit \in Nat
    BY <1>3
  <2> HIDE DEF S
  <2> QED
    BY <2>1
<1>5. Nearer(S, Step, Limits, Ended)
  <2>1. \A z \in S : z \notin Ended => DecryptFrame(z).limit < z.limit
    BY <1>3
  <2> HIDE DEF S, Ended, Step, Limits
  <2>2. \A z \in S : Step[z] \in S
    BY <1>4
  <2> QED
    BY <1>4, <2>1, <2>2 DEF Nearer
<1>6. Limits[x] = n
  BY <1>2, <1>4
<1>7. \A z \in Ended : z \in S /\ DecryptFrame(z) = z /\ IsShort(z, cuts)
  <2> SUFFICES ASSUME NEW z \in Ended PROVE IsShort(z, cuts)
    OBVIOUS
  <2>1. z \in S /\ DecryptFrame(z) = z /\ z.limit \in Nat
    BY <1>3
  <2> QED
    BY <1>3, <2>1
<1> HIDE DEF n, S, Ended, Step, Limits
<1>8. EndsIn(S, x, Step, n, Ended)
  BY <1>1, <1>2, <1>4, <1>5, <1>6, Loop
<1>9. HasLoop(x, Step, n + 1) /\ EndsIn(S, x, Step, n + 1, Ended)
  BY <1>1, <1>2, <1>4, <1>5, <1>6, Loop
<1> DEFINE IsRun(g) == g = [k \in 0 .. n + 1 |-> IF k = 0 THEN x ELSE DecryptFrame(g[k - 1])]
<1>10. ASSUME NEW g, IsRun(g) PROVE IsLoop(S, x, Step, n, g) /\ IsLoop(S, x, Step, n + 1, g)
  <2>1. g[0] = x
    BY <1>1, <1>10
  <2>2. \A k \in 0 .. n : g[k + 1] = DecryptFrame(g[k])
    BY <1>1, <1>10
  <2>3. \A k \in 0 .. n : g[k] \in S => g[k + 1] = Step[g[k]]
    BY <1>4, <2>2
  <2>4. \A k \in 0 .. (n + 1) - 1 : k \in 0 .. n
    BY <1>1
  <2> QED
    BY <1>1, <2>1, <2>3, <2>4 DEF IsLoop
<1>11. \E g : IsRun(g)
  <2>1. PICK g : g = [k \in 0 .. n + 1 |-> IF k = 0 THEN x ELSE Step[g[k - 1]]]
    BY <1>9 DEF HasLoop
  <2>2. IsLoop(S, x, Step, n + 1, g)
    BY <1>1, <2>1 DEF IsLoop
  <2>3. \A k \in 0 .. n + 1 : g[k] \in S
    BY <1>9, <2>2 DEF EndsIn
  <2>4. \A k \in 0 .. n + 1 : k # 0 => k - 1 \in 0 .. n + 1
    BY <1>1
  <2>5. \A k \in 0 .. n + 1 : (IF k = 0 THEN x ELSE Step[g[k - 1]]) = (IF k = 0 THEN x ELSE DecryptFrame(g[k - 1]))
    BY <1>4, <2>3, <2>4
  <2>6. [k \in 0 .. n + 1 |-> IF k = 0 THEN x ELSE Step[g[k - 1]]] = [k \in 0 .. n + 1 |-> IF k = 0 THEN x ELSE DecryptFrame(g[k - 1])]
    BY <2>5, Zenon
  <2> QED
    BY <2>1, <2>6
<1> DEFINE run == CHOOSE g : IsRun(g)
           last == CHOOSE k \in 0 .. n : run[k + 1] = run[k]
<1>12. IsRun(run)
  BY <1>11
<1>13. (\A k \in 0 .. n : run[k] \in S) /\ \E k \in 0 .. n : run[k] \in Ended
  BY <1>8, <1>10, <1>12 DEF EndsIn
<1> HIDE DEF run
<1>14. \A k \in 0 .. n : run[k + 1] = DecryptFrame(run[k])
  BY <1>1, <1>12
<1>15. \E k \in 0 .. n : run[k + 1] = run[k]
  BY <1>7, <1>13, <1>14
<1>16. last \in 0 .. n /\ run[last + 1] = run[last]
  BY <1>15
<1> HIDE DEF last
<1>17. run[last] \in S /\ DecryptFrame(run[last]) = run[last]
  BY <1>13, <1>14, <1>16
<1>18. run[last] \in Ended
  BY <1>17 DEF Ended
<1>19. DecryptData(x) = run[last]
  BY DEF DecryptData, run, last, n
<1> QED
  BY <1>7, <1>17, <1>18, <1>19 DEF S

-----------------------------------------------------------------------------
(* The frames of a message                                                 *)

\* Products
LEMMA Multiples ==
  ASSUME NEW a \in Nat, NEW b \in Nat, NEW c \in Nat, a <= b
  PROVE  a * c <= b * c /\ (a + 1) * c = a * c + c /\ a * c \in Nat /\ b * c \in Nat
OBVIOUS

\* Quotients
LEMMA Division ==
  ASSUME NEW a \in Nat, NEW b \in Nat \ {0}
  PROVE  a \div b \in Nat /\ (a \div b) * b <= a /\ a < (a \div b) * b + b
OBVIOUS

\* Where the frames of a message of this length end
EndOf(length, size, k) == IF k * size < length THEN k * size ELSE length

\* Every frame but the last one is full, and the last one is not empty.
LEMMA FramesEnd ==
  ASSUME NEW length \in Nat, NEW size \in Nat \ {0}
  PROVE  LET num == NumFrames(length, size)
         IN  /\ num \in Nat /\ EndOf(length, size, 0) = 0 /\ EndOf(length, size, num) = length
             /\ \A k \in Nat : EndOf(length, size, k) \in 0 .. length
             /\ \A k \in 0 .. num - 1 : /\ EndOf(length, size, k) = k * size /\ k * size \in Nat
                                        /\ EndOf(length, size, k + 1) - EndOf(length, size, k) \in 1 .. size
<1> DEFINE num == NumFrames(length, size)
           E(k) == EndOf(length, size, k)
           top == num * size
<1>1. length + size - 1 \in Nat /\ num = (length + size - 1) \div size
  BY DEF NumFrames
<1>2. num \in Nat /\ top <= length + size - 1 /\ length + size - 1 < top + size
  BY <1>1, Division
<1>3. top \in Nat /\ 0 * size = 0
  BY <1>2, Multiples
<1> HIDE DEF num, top
<1>4. E(0) = 0
  BY <1>3 DEF EndOf
<1>5. E(num) = length
  BY <1>2, <1>3 DEF EndOf, top
<1>6. \A k \in Nat : E(k) \in 0 .. length
  <2> SUFFICES ASSUME NEW k \in Nat PROVE E(k) \in 0 .. length
    OBVIOUS
  <2>1. k * size \in Nat
    BY Multiples
  <2> QED
    BY <2>1 DEF EndOf
<1>7. ASSUME NEW k \in 0 .. num - 1 PROVE E(k) = k * size /\ k * size \in Nat /\ E(k + 1) - E(k) \in 1 .. size
  <2> DEFINE p == k * size
             r == (k + 1) * size
  <2>1. k \in Nat /\ k + 1 \in Nat /\ k + 1 <= num
    BY <1>2
  <2>2. p \in Nat /\ r = p + size /\ r <= top
    BY <1>2, <2>1, Multiples DEF top
  <2> HIDE DEF p, r
  <2>3. p < length
    BY <1>2, <1>3, <2>2
  <2>4. E(k) = p /\ E(k + 1) = IF r < length THEN r ELSE length
    BY <2>3 DEF EndOf, p, r
  <2>5. E(k + 1) - p \in 1 .. size
    BY <2>2, <2>3, <2>4
  <2> QED
    BY <2>2, <2>4, <2>5 DEF p
<1> QED
  BY <1>2, <1>4, <1>5, <1>6, <1>7 DEF num

\* The bytes of a frame
LEMMA FrameFacts ==
  ASSUME NEW p, p \in Seq(Octets), NEW nonce \in Nat
  PROVE  LET n == Len(p)
             c == Frame(p, nonce)
         IN  /\ c \in Seq(Int) /\ Len(c) = n + 3 /\ c[1] = n % 256 /\ c[2] = n \div 256 /\ c[n + 3] = Tag(nonce)
             /\ \A k \in 1 .. n : c[2 + k] = Cipher(nonce, p[k])
<1> DEFINE n == Len(p)
           head == <<n % 256, n \div 256>>
           body == [k \in 1 .. n |-> Cipher(nonce, p[k])]
           tail == <<Tag(nonce)>>
           a == head \o body
           c == a \o tail
<1>1. n \in Nat /\ \A k \in 1 .. n : p[k] \in Octets
  OBVIOUS
<1>2. head \in Seq(Int) /\ Len(head) = 2 /\ head[1] = n % 256 /\ head[2] = n \div 256
  <2>1. n % 256 \in Int /\ n \div 256 \in Int
    <3> HIDE DEF n
    <3> QED
      BY <1>1
  <2> HIDE DEF n
  <2> QED
    BY <2>1, Pair
<1>3. body \in Seq(Int) /\ Len(body) = n /\ \A k \in 1 .. n : body[k] = Cipher(nonce, p[k])
  <2>1. \A k \in 1 .. n : Cipher(nonce, p[k]) \in Int
    <3>1. \A c0 \in Octets : c0 \in Int
      BY DEF Octets
    <3> HIDE DEF n
    <3>2. \A k \in 1 .. n : p[k] \in Int
      BY <1>1, <3>1
    <3> QED
      BY <3>2 DEF Cipher
  <2> HIDE DEF n
  <2> QED
    BY <1>1, <2>1
<1>4. tail \in Seq(Int) /\ Len(tail) = 1 /\ tail[1] = Tag(nonce)
  <2>1. Tag(nonce) \in Int
    BY DEF Tag
  <2> QED
    BY <2>1
<1>5. Frame(p, nonce) = c
  BY DEF Frame
<1> HIDE DEF head, body, tail, n
<1>14. head \in Seq(Int) /\ body \in Seq(Int) /\ tail \in Seq(Int)
  BY <1>2, <1>3, <1>4
<1>6. /\ a \in Seq(Int) /\ Len(a) = Len(head) + Len(body)
      /\ \A k \in 1 .. Len(head) : a[k] = head[k]
      /\ \A k \in Len(head) + 1 .. Len(head) + Len(body) : a[k] = body[k - Len(head)]
  BY <1>14, Concat
<1> HIDE DEF a
<1>15. a \in Seq(Int)
  BY <1>6
<1>7. /\ c \in Seq(Int) /\ Len(c) = Len(a) + Len(tail)
      /\ \A k \in 1 .. Len(a) : c[k] = a[k]
      /\ \A k \in Len(a) + 1 .. Len(a) + Len(tail) : c[k] = tail[k - Len(a)]
  BY <1>14, <1>15, Concat
<1> HIDE DEF c
<1>8. Len(a) = n + 2 /\ Len(c) = n + 3
  BY <1>1, <1>2, <1>3, <1>4, <1>6, <1>7
<1>9. c[1] = n % 256 /\ c[2] = n \div 256
  <2>1. 1 \in 1 .. Len(a) /\ 2 \in 1 .. Len(a) /\ 1 \in 1 .. Len(head) /\ 2 \in 1 .. Len(head)
    BY <1>1, <1>2, <1>8
  <2> QED
    BY <1>2, <1>6, <1>7, <2>1
<1>10. c[n + 3] = Tag(nonce)
  <2>1. n + 3 \in Len(a) + 1 .. Len(a) + Len(tail) /\ (n + 3) - Len(a) = 1
    BY <1>1, <1>4, <1>8
  <2> QED
    BY <1>4, <1>7, <2>1
<1>11. ASSUME NEW k \in 1 .. n PROVE c[2 + k] = Cipher(nonce, p[k])
  <2>1. 2 + k \in 1 .. Len(a) /\ 2 + k \in Len(head) + 1 .. Len(head) + Len(body) /\ (2 + k) - Len(head) = k
    BY <1>1, <1>2, <1>3, <1>8
  <2> QED
    BY <1>3, <1>6, <1>7, <2>1
<1> QED
  BY <1>5, <1>7, <1>8, <1>9, <1>10, <1>11 DEF n

\* c consists of the frames of the message.
IsMessage(bytes, size, nonce, c) ==
  LET num == NumFrames(Len(bytes), size)
      End(k) == EndOf(Len(bytes), size, k)
  IN  /\ c \in Seq(Int) /\ Len(c) = Len(bytes) + 3 * num
      /\ \A k \in 0 .. num - 1 : IsPiece(bytes, nonce + k, End(k), End(k + 1), c, End(k) + 3 * k)

\* The frames of a message are frames, of all of it, one behind the other.
LEMMA FramesFacts ==
  ASSUME NEW bytes, bytes \in Seq(Octets), NEW size \in Nat \ {0}, NEW nonce \in Nat
  PROVE  IsMessage(bytes, size, nonce, Frames(bytes, size, nonce))
<1> DEFINE L == Len(bytes)
           num == NumFrames(L, size)
           E(k) == EndOf(L, size, k)
           piece(k) == SubSeq(bytes, (k - 1) * size + 1, IF k * size < L THEN k * size ELSE L)
           W == [k \in 1 .. num |-> Frame(piece(k), nonce + k - 1)]
           IsRun(g) == g = [k \in 0 .. num |-> IF k = 0 THEN <<>> ELSE g[k - 1] \o Frame(piece(k), nonce + k - 1)]
           f == CHOOSE g : IsRun(g)
<1>1. L \in Nat /\ \A k \in 1 .. L : bytes[k] \in Octets
  OBVIOUS
<1>2. /\ num \in Nat /\ E(0) = 0 /\ E(num) = L
      /\ \A k \in Nat : E(k) \in 0 .. L
      /\ \A k \in 0 .. num - 1 : E(k) = k * size /\ k * size \in Nat /\ E(k + 1) - E(k) \in 1 .. size
  BY <1>1, FramesEnd
<1>3. Frames(bytes, size, nonce) = f[num]
  BY DEF Frames
<1> HIDE DEF L, num
<1>4. ASSUME NEW k \in 0 .. num - 1
      PROVE  /\ piece(k + 1) \in Seq(Octets) /\ Len(piece(k + 1)) = E(k + 1) - E(k)
             /\ \A m \in 1 .. E(k + 1) - E(k) : piece(k + 1)[m] = bytes[E(k) + m]
  <2> DEFINE a == E(k)
             b == E(k + 1)
  <2>1. (k + 1) - 1 = k /\ k \in Nat /\ k + 1 \in Nat
    BY <1>2
  <2>2. a = k * size /\ a \in Nat /\ b \in 0 .. L /\ b - a \in 1 .. size
    BY <1>2, <2>1
  <2>3. piece(k + 1) = SubSeq(bytes, a + 1, b)
    BY <2>1, <2>2 DEF EndOf
  <2> HIDE DEF a, b
  <2>4. a + 1 \in Int /\ b \in Int /\ a + 1 <= b /\ b - (a + 1) + 1 = b - a /\ \A j \in a + 1 .. b : bytes[j] \in Octets
    BY <1>1, <2>2
  <2>5. \A m \in 1 .. b - a : (a + 1) + m - 1 = a + m
    BY <2>2
  <2>6. /\ SubSeq(bytes, a + 1, b) \in Seq(Octets) /\ Len(SubSeq(bytes, a + 1, b)) = b - a
        /\ \A m \in 1 .. b - a : SubSeq(bytes, a + 1, b)[m] = bytes[a + m]
    <3>1. /\ SubSeq(bytes, a + 1, b) \in Seq(Octets) 
          /\ Len(SubSeq(bytes, a + 1, b)) = IF a + 1 <= b THEN b - (a + 1) + 1 ELSE 0
          /\ \A m \in 1 .. b - (a + 1) + 1 : SubSeq(bytes, a + 1, b)[m] = bytes[(a + 1) + m - 1]
      BY <2>4, SubSeqProperties
    <3> QED
      BY <2>4, <2>5, <3>1
  <2> QED
    BY <2>3, <2>6 DEF a, b
<1> HIDE DEF E, piece
<1>20. L \in Nat /\ \A k \in Nat : E(k) \in Nat /\ E(k + 1) \in Nat
  <2>1. L \in Nat
    BY <1>1
  <2>2. \A k \in Nat : k + 1 \in Nat
    OBVIOUS
  <2> QED
    BY <1>2, <2>1, <2>2, SMTT(40)
<1>5. ASSUME NEW k \in 0 .. num - 1
      PROVE  LET n == E(k + 1) - E(k)
                 c == W[k + 1]
             IN  /\ c \in Seq(Int) /\ Len(c) = n + 3 /\ c[1] = n % 256 /\ c[2] = n \div 256 /\ c[n + 3] = Tag(nonce + k)
                 /\ \A m \in 1 .. n : c[2 + m] = Cipher(nonce + k, bytes[E(k) + m])
  <2> DEFINE p == piece(k + 1)
             n == E(k + 1) - E(k)
  <2>1. W[k + 1] = Frame(p, nonce + k)
    <3>1. k + 1 \in 1 .. num /\ nonce + (k + 1) - 1 = nonce + k
      BY <1>2
    <3> QED
      BY <3>1
  <2>2. p \in Seq(Octets) /\ Len(p) = n /\ \A m \in 1 .. n : p[m] = bytes[E(k) + m]
    BY <1>4
  <2>3. nonce + k \in Nat
    BY <1>2
  <2> HIDE DEF p, n, W
  <2>4. p \in Seq(Octets)
    BY <2>2
  <2>5. LET c == Frame(p, nonce + k)
        IN  /\ c \in Seq(Int) /\ Len(c) = Len(p) + 3 /\ c[1] = Len(p) % 256 /\ c[2] = Len(p) \div 256 /\ c[Len(p) + 3] = Tag(nonce + k)
            /\ \A m \in 1 .. Len(p) : c[2 + m] = Cipher(nonce + k, p[m])
    BY <2>3, <2>4, FrameFacts, ZenonT(40)
  <2> QED
    BY <2>1, <2>2, <2>5, ZenonT(40) DEF n
<1>6. W \in [1 .. num -> Seq(Int)]
  <2>1. ASSUME NEW k \in 1 .. num PROVE W[k] \in Seq(Int)
    <3>1. k - 1 \in 0 .. num - 1 /\ (k - 1) + 1 = k
      BY <1>2
    <3> HIDE DEF W
    <3>2. W[(k - 1) + 1] \in Seq(Int)
      BY <1>5, <3>1
    <3> QED
      BY <3>1, <3>2
  <2> QED
    BY <2>1
<1>7. AreJoined(Int, W, num)
  <2> HIDE DEF W
  <2> QED
    BY <1>2, <1>6, Joins
<1>8. ASSUME NEW g PROVE IsRun(g) <=> IsJoin(W, num, g)
  <2>1. \A k \in 0 .. num : k # 0 => W[k] = Frame(piece(k), nonce + k - 1)
    BY <1>2
  <2> HIDE DEF W
  <2>2. \A k \in 0 .. num : (IF k = 0 THEN <<>> ELSE g[k - 1] \o Frame(piece(k), nonce + k - 1)) = (IF k = 0 THEN <<>> ELSE g[k - 1] \o W[k])
    BY <2>1
  <2>3. [k \in 0 .. num |-> IF k = 0 THEN <<>> ELSE g[k - 1] \o Frame(piece(k), nonce + k - 1)] = [k \in 0 .. num |-> IF k = 0 THEN <<>> ELSE g[k - 1] \o W[k]]
    BY <2>2, Zenon
  <2> QED
    BY <2>3 DEF IsJoin
<1>9. \E g : IsRun(g)
  BY <1>7, <1>8, ZenonT(40) DEF AreJoined, HasJoin
<1>10. IsRun(f)
  BY <1>9, ZenonT(40)
<1>11. Joined(Int, W, num, f)
  BY <1>7, <1>8, <1>10, ZenonT(40) DEF AreJoined
<1> HIDE DEF f, W, IsRun
<1>12. /\ f[0] = <<>> /\ (\A k \in 0 .. num : f[k] \in Seq(Int))
       /\ (\A k \in 0 .. num - 1 : Len(f[k + 1]) = Len(f[k]) + Len(W[k + 1]))
       /\ (\A k \in 0 .. num - 1 : Has(f[num], Len(f[k]), W[k + 1]))
  BY <1>11 DEF Joined
<1> DEFINE T == {k \in Nat : k <= num => Len(f[k]) = E(k) + 3 * k}
<1>13. 0 \in T
  <2>1. Len(f[0]) = 0 /\ E(0) = 0
    BY <1>2, <1>12
  <2> QED
    BY <2>1
<1>14. ASSUME NEW k \in Nat, k \in T PROVE k + 1 \in T
  <2> SUFFICES ASSUME k + 1 <= num PROVE Len(f[k + 1]) = E(k + 1) + 3 * (k + 1)
    OBVIOUS
  <2>1. k \in 0 .. num - 1 /\ Len(f[k]) = E(k) + 3 * k
    BY <1>2, <1>14
  <2>2. Len(f[k + 1]) = Len(f[k]) + Len(W[k + 1]) /\ Len(W[k + 1]) = E(k + 1) - E(k) + 3
    BY <1>5, <1>12, <2>1
  <2>3. E(k) \in Nat /\ E(k + 1) \in Nat
    BY <1>20
  <2> QED
    BY <2>1, <2>2, <2>3
<1>15. \A k \in Nat : k \in T
  <2> HIDE DEF T
  <2> QED
    BY <1>13, <1>14, NatInduct
<1>16. \A k \in 0 .. num : Len(f[k]) = E(k) + 3 * k
  BY <1>2, <1>15
<1> HIDE DEF T
<1>17. f[num] \in Seq(Int) /\ Len(f[num]) = L + 3 * num
  BY <1>2, <1>12, <1>16
<1>18. ASSUME NEW k \in 0 .. num - 1 PROVE IsPiece(bytes, nonce + k, E(k), E(k + 1), f[num], E(k) + 3 * k)
  <2> DEFINE n == E(k + 1) - E(k)
             at == E(k) + 3 * k
             w == W[k + 1]
             c == f[num]
  <2>1. E(k) \in Nat /\ E(k + 1) \in Nat /\ n \in Nat /\ at \in Nat
    <3>1. k \in Nat /\ E(k + 1) - E(k) \in 1 .. size
      <4>1. num \in Nat
        BY <1>2
      <4>2. k \in Nat
        BY <4>1
      <4>3. \A j \in 0 .. num - 1 : E(j + 1) - E(j) \in 1 .. size
        BY <1>2
      <4> QED
        BY <4>2, <4>3
    <3>2. E(k) \in Nat /\ E(k + 1) \in Nat
      BY <1>20, <3>1
    <3> QED
      BY <3>1, <3>2
  <2>2. Has(c, at, w)
    <3>1. k \in 0 .. num
      BY <1>2
    <3> QED
      BY <1>12, <1>16, <3>1
  <2>3. /\ Len(w) = n + 3 /\ w[1] = n % 256 /\ w[2] = n \div 256 /\ w[n + 3] = Tag(nonce + k)
        /\ \A m \in 1 .. n : w[2 + m] = Cipher(nonce + k, bytes[E(k) + m])
    BY <1>5
  <2>4. IsPiece(bytes, nonce + k, E(k), E(k + 1), c, at) <=>
          /\ c[at + 1] = n % 256 /\ c[at + 2] = n \div 256
          /\ \A m \in 1 .. n : c[at + 2 + m] = Cipher(nonce + k, bytes[E(k) + m])
          /\ c[at + n + 3] = Tag(nonce + k)
    BY DEF IsPiece
  <2> HIDE DEF n, at, w, c
  <2>5. \A m \in 1 .. n + 3 : c[at + m] = w[m]
    <3> SUFFICES ASSUME NEW m \in 1 .. n + 3 PROVE c[at + m] = w[m]
      OBVIOUS
    <3>1. Len(w) = n + 3
      BY <2>3
    <3>2. at + m \in at + 1 .. at + Len(w) /\ (at + m) - at = m
      BY <2>1, <3>1
    <3> QED
      BY <2>2, <3>2 DEF Has
  <2>6. c[at + 1] = n % 256 /\ c[at + 2] = n \div 256
    <3>1. 1 \in 1 .. n + 3 /\ 2 \in 1 .. n + 3
      BY <2>1
    <3> QED
      BY <2>3, <2>5, <3>1
  <2>7. c[at + n + 3] = Tag(nonce + k)
    <3>1. n + 3 \in 1 .. n + 3 /\ at + (n + 3) = at + n + 3
      BY <2>1
    <3> QED
      BY <2>3, <2>5, <3>1
  <2>8. ASSUME NEW m \in 1 .. n PROVE c[at + 2 + m] = Cipher(nonce + k, bytes[E(k) + m])
    <3>1. 2 + m \in 1 .. n + 3 /\ at + (2 + m) = at + 2 + m
      BY <2>1
    <3> QED
      BY <2>3, <2>5, <3>1
  <2> QED
    BY <2>4, <2>6, <2>7, <2>8 DEF c, at
<1> QED
  BY <1>3, <1>17, <1>18 DEF IsMessage, L, num, E

\* A frame that is found at another place of other tapes is still one.
LEMMA PieceMoved ==
  ASSUME NEW bytes, NEW nonce, NEW from \in Nat, NEW to \in Nat, NEW c, NEW f \in Nat, IsPiece(bytes, nonce, from, to, c, f), from <= to,
         NEW tape, NEW at \in Nat, NEW d, NEW by \in Nat,
         \A p \in 1 .. to - from : tape[at + from + p] = bytes[from + p],
         \A p \in 1 .. to - from + 3 : d[by + f + p] = c[f + p]
  PROVE  IsPiece(tape, nonce, at + from, at + to, d, by + f)
<1> DEFINE n == to - from
<1>1. n \in Nat /\ (at + to) - (at + from) = n
  OBVIOUS
<1>2. /\ c[f + 1] = n % 256 /\ c[f + 2] = n \div 256 /\ c[f + n + 3] = Tag(nonce)
      /\ \A k \in 1 .. n : c[f + 2 + k] = Cipher(nonce, bytes[from + k])
  BY DEF IsPiece
<1>3. \A p \in 1 .. n : tape[at + from + p] = bytes[from + p]
  OBVIOUS
<1>4. \A p \in 1 .. n + 3 : d[by + f + p] = c[f + p]
  OBVIOUS
<1> HIDE DEF n
<1>5. d[by + f + 1] = n % 256 /\ d[by + f + 2] = n \div 256
  <2>1. 1 \in 1 .. n + 3 /\ 2 \in 1 .. n + 3
    BY <1>1
  <2> QED
    BY <1>2, <1>4, <2>1
<1>6. d[by + f + n + 3] = Tag(nonce)
  <2>1. n + 3 \in 1 .. n + 3 /\ by + f + (n + 3) = by + f + n + 3 /\ f + (n + 3) = f + n + 3
    BY <1>1
  <2> QED
    BY <1>2, <1>4, <2>1
<1>7. ASSUME NEW k \in 1 .. n PROVE d[by + f + 2 + k] = Cipher(nonce, tape[at + from + k])
  <2>1. 2 + k \in 1 .. n + 3 /\ by + f + (2 + k) = by + f + 2 + k /\ f + (2 + k) = f + 2 + k
    BY <1>1
  <2> QED
    BY <1>2, <1>3, <1>4, <2>1
<1> QED
  BY <1>1, <1>5, <1>6, <1>7 DEF IsPiece

\* Where a frame is
LEMMA FrameAtOf ==
  ASSUME NEW cuts, NEW i, NEW from, NEW to, cuts[0] = from, cuts[i] = to
  PROVE  FrameAt(cuts, i) = to - from + 3 * i
BY DEF FrameAt

\* The frames of the next request follow those that have been sent.
Longer(cuts, num, length, size) ==
  [j \in 0 .. num + NumFrames(length, size) |-> IF j <= num THEN cuts[j] ELSE cuts[num] + EndOf(length, size, j - num)]

\* The frames of the requests that have been sent, and of the next one
LEMMA SentFrames ==
  ASSUME NEW script \in Scripts, NEW cuts, NEW cipher, NEW numSent \in Nat, NEW num \in Nat, numSent < Len(SentOf(script)),
         AreFrames(script, cuts, cipher, numSent, num), NEW size \in FrameSizes
  PROVE  LET bytes == Written(SentOf(script)[numSent + 1])
             longer == Longer(cuts, num, Len(bytes), size)
         IN  /\ NumFrames(Len(bytes), size) \in Nat /\ Frames(bytes, size, num) \in Seq(Int)
             /\ AreFrames(script, longer, cipher \o Frames(bytes, size, num), numSent + 1, num + NumFrames(Len(bytes), size))
             /\ \A j \in 0 .. num : longer[j] = cuts[j]
<1> DEFINE bytes == Written(SentOf(script)[numSent + 1])
           L == Len(bytes)
           k == NumFrames(L, size)
           E(m) == EndOf(L, size, m)
           c == Frames(bytes, size, num)
           d == cipher \o c
           to == Longer(cuts, num, L, size)
<1>1. size \in Nat \ {0} /\ size <= MaxFrameBytes /\ MaxFrameBytes \in Nat
  BY IPSessionInputAssumption
<1>2. bytes \in Seq(Octets) /\ L \in Nat /\ L # 0
  <2>1. IsRequest(SentOf(script)[numSent + 1])
    <3>1. numSent + 1 \in 1 .. Len(SentOf(script))
      BY ScriptFacts
    <3> QED
      BY <3>1, ScriptFacts
  <2>2. Written(SentOf(script)[numSent + 1]) \in Seq(Octets) /\ Len(Written(SentOf(script)[numSent + 1])) \in Nat \ {0}
    BY <2>1, WrittenFacts
  <2> QED
    BY <2>2
<1>3. Has(Stream(script), At(script, numSent), bytes) /\ At(script, numSent + 1) = At(script, numSent) + L /\ At(script, numSent) \in Nat
  <2>1. numSent \in 0 .. Len(SentOf(script)) - 1 /\ numSent \in 0 .. Len(SentOf(script))
    BY ScriptFacts
  <2> QED
    BY <2>1, StreamFacts
<1> HIDE DEF bytes, L
<1>4. /\ k \in Nat /\ E(0) = 0 /\ E(k) = L
      /\ \A m \in Nat : E(m) \in 0 .. L
      /\ \A m \in 0 .. k - 1 : E(m + 1) - E(m) \in 1 .. size
  BY <1>1, <1>2, FramesEnd
<1>5. /\ c \in Seq(Int) /\ Len(c) = L + 3 * k
      /\ \A m \in 0 .. k - 1 : IsPiece(bytes, num + m, E(m), E(m + 1), c, E(m) + 3 * m)
  BY <1>1, <1>2, FramesFacts DEF IsMessage, L
<1>6. /\ cuts \in [0 .. num -> Nat] /\ cipher \in Seq(Int)
      /\ cuts[0] = At(script, Len(script.plain)) /\ cuts[num] = At(script, numSent)
      /\ Len(cipher) = FrameAt(cuts, num)
      /\ \A i \in 0 .. num - 1 : IsFrame(script, cuts, cipher, i) /\ IsWithin(script, cuts, numSent, i)
  BY DEF AreFrames
<1>7. L \in Nat /\ \A m \in Nat : E(m) \in Nat /\ E(m) <= L
  BY <1>2, <1>4
<1>21. E(0) = 0 /\ E(k) = L /\ k \in Nat
  BY <1>4
<1>22. \A m \in 0 .. k - 1 : E(m + 1) - E(m) \in 1 .. size
  BY <1>4
<1> HIDE DEF k, E, c
<1>8. /\ to \in [0 .. num + k -> Nat]
      /\ \A j \in 0 .. num : to[j] = cuts[j]
      /\ \A m \in 0 .. k : to[num + m] = cuts[num] + E(m)
  <2>1. to = [j \in 0 .. num + k |-> IF j <= num THEN cuts[j] ELSE cuts[num] + E(j - num)]
    BY DEF Longer, k, E
  <2> HIDE DEF to
  <2>2. k \in Nat /\ cuts[num] \in Nat
    BY <1>4, <1>6
  <2>3. ASSUME NEW j \in 0 .. num + k PROVE (IF j <= num THEN cuts[j] ELSE cuts[num] + E(j - num)) \in Nat
    <3>1. CASE j <= num
      BY <1>6, <3>1
    <3>2. CASE ~(j <= num)
      <4>1. j - num \in Nat
        BY <2>2, <3>2
      <4>2. E(j - num) \in Nat
        BY <1>7, <4>1
      <4> QED
        BY <2>2, <3>2, <4>2
    <3> QED
      BY <3>1, <3>2
  <2>4. to \in [0 .. num + k -> Nat]
    BY <2>1, <2>3
  <2>5. \A j \in 0 .. num : j \in 0 .. num + k /\ j <= num
    BY <2>2
  <2>6. \A j \in 0 .. num : to[j] = cuts[j]
    BY <2>1, <2>5
  <2>7. ASSUME NEW m \in 0 .. k PROVE to[num + m] = cuts[num] + E(m)
    <3>1. num + m \in 0 .. num + k /\ (num + m) - num = m /\ num \in 0 .. num
      BY <2>2
    <3>2. CASE m = 0
      <4>1. num + m = num
        BY <3>2
      <4>2. to[num + m] = cuts[num]
        BY <2>6, <3>1, <4>1
      <4>3. E(m) = 0
        BY <1>21, <3>2
      <4> QED
        BY <2>2, <4>2, <4>3
    <3>3. CASE m # 0
      <4>1. ~(num + m <= num)
        BY <3>3
      <4>2. to[num + m] = cuts[num] + E((num + m) - num)
        BY <2>1, <3>1, <4>1
      <4> QED
        BY <3>1, <4>2
    <3> QED
      BY <3>2, <3>3
  <2> QED
    BY <2>4, <2>6, <2>7
<1> HIDE DEF to
<1>9. /\ d \in Seq(Int) /\ Len(d) = Len(cipher) + Len(c) /\ Len(cipher) \in Nat
      /\ \A p \in 1 .. Len(cipher) : d[p] = cipher[p]
      /\ \A p \in Len(cipher) + 1 .. Len(cipher) + Len(c) : d[p] = c[p - Len(cipher)]
  <2>1. c \in Seq(Int) /\ cipher \in Seq(Int)
    BY <1>5, <1>6
  <2> QED
    BY <2>1, Concat
<1> HIDE DEF d
<1>10. to[0] = At(script, Len(script.plain)) /\ to[num + k] = At(script, numSent + 1)
  <2>1. 0 \in 0 .. num /\ k \in 0 .. k
    BY <1>4
  <2> QED
    BY <1>3, <1>4, <1>6, <1>8, <2>1
<1>16. cuts[num] \in Nat /\ cuts[0] \in Nat /\ to[0] = cuts[0] /\ k \in Nat
       /\ Len(cipher) = cuts[num] - cuts[0] + 3 * num
  BY <1>4, <1>6, <1>8 DEF FrameAt
<1>17. Len(d) = Len(cipher) + L + 3 * k /\ Len(c) = L + 3 * k /\ Len(cipher) \in Nat
  <2>1. Len(d) = Len(cipher) + Len(c)
    BY <1>9
  <2>2. Len(c) = L + 3 * k /\ Len(cipher) \in Nat
    BY <1>5, <1>9
  <2> QED
    BY <1>7, <1>16, <2>1, <2>2
<1>11. Len(d) = FrameAt(to, num + k)
  <2>1. k \in 0 .. k
    BY <1>16
  <2>2. to[num + k] = cuts[num] + E(k)
    BY <1>8, <2>1
  <2> DEFINE a == to[num + k]
             b == cuts[0]
             n == num + k
             x0 == cuts[num]
             z == Len(cipher)
             v == FrameAt(to, n)
             w == Len(d)
  <2>3. a = x0 + L /\ x0 \in Nat /\ b \in Nat /\ z = x0 - b + 3 * num /\ w = z + L + 3 * k /\ L \in Nat
    BY <1>7, <1>16, <1>17, <1>21, <2>2
  <2>4. to[n] = a /\ to[0] = b /\ n = num + k
    BY <1>16
  <2> HIDE DEF a, b, n, x0, z
  <2>5. v = a - b + 3 * n
    BY <2>4, FrameAtOf
  <2> HIDE DEF v, w
  <2>6. w = v
    BY <1>16, <2>3, <2>4, <2>5
  <2> QED
    BY <2>6 DEF v, w, n
<1>12. ASSUME NEW i \in 0 .. num - 1 PROVE IsFrame(script, to, d, i) /\ IsWithin(script, to, numSent + 1, i)
  <2> DEFINE n == cuts[i + 1] - cuts[i]
             f == FrameAt(cuts, i)
  <2>1. i \in 0 .. num /\ i + 1 \in 0 .. num /\ i \in Nat
    OBVIOUS
  <2>2. to[i] = cuts[i] /\ to[i + 1] = cuts[i + 1] /\ cuts[i] \in Nat /\ cuts[i + 1] \in Nat
    BY <1>6, <1>8, <2>1
  <2>3. FrameAt(to, i) = f /\ FrameAt(to, i + 1) = FrameAt(cuts, i + 1)
    BY <1>16, <2>2 DEF FrameAt
  <2>4. /\ n \in 1 .. MaxFrameBytes /\ f \in Nat /\ FrameAt(cuts, i + 1) <= Len(cipher)
        /\ IsPiece(Stream(script), i, cuts[i], cuts[i + 1], cipher, f)
    BY <1>6 DEF IsFrame
  <2>5. FrameAt(cuts, i + 1) = f + n + 3
    <3> DEFINE a == cuts[i]
               b == cuts[i + 1]
               z == cuts[0]
               g == FrameAt(cuts, i + 1)
    <3>1. g = b - z + 3 * (i + 1) /\ f = a - z + 3 * i /\ n = b - a
      BY DEF FrameAt
    <3>2. a \in Nat /\ b \in Nat /\ z \in Nat
      BY <1>16, <2>2
    <3> HIDE DEF f, n, a, b, z, g
    <3>3. g = f + n + 3
      BY <2>1, <3>1, <3>2
    <3> QED
      BY <3>3 DEF g
  <2>6. n \in Nat /\ cuts[i] <= cuts[i + 1]
    BY <1>1, <2>2, <2>4
  <2> HIDE DEF f
  <2>7. \A p \in 1 .. n : Stream(script)[0 + cuts[i] + p] = Stream(script)[cuts[i] + p]
    BY <2>2
  <2>8. ASSUME NEW p \in 1 .. n + 3 PROVE d[0 + f + p] = cipher[f + p]
    <3> HIDE DEF n
    <3>1. f + p \in 1 .. Len(cipher) /\ 0 + f + p = f + p
      BY <1>17, <2>4, <2>5, <2>6
    <3> QED
      BY <1>9, <3>1
  <2>9. IsPiece(Stream(script), i, 0 + cuts[i], 0 + cuts[i + 1], d, 0 + f)
    <3> DEFINE a == cuts[i]
               b == cuts[i + 1]
    <3>1. /\ a \in Nat /\ b \in Nat /\ a <= b /\ f \in Nat /\ 0 \in Nat
          /\ IsPiece(Stream(script), i, a, b, cipher, f)
      BY <2>2, <2>4, <2>6
    <3>2. \A p \in 1 .. b - a : Stream(script)[0 + a + p] = Stream(script)[a + p]
      BY <2>7
    <3>3. \A p \in 1 .. b - a + 3 : d[0 + f + p] = cipher[f + p]
      BY <2>8
    <3> HIDE DEF a, b
    <3>4. IsPiece(Stream(script), i, 0 + a, 0 + b, d, 0 + f)
      BY <3>1, <3>2, <3>3, PieceMoved
    <3> QED
      BY <3>4 DEF a, b
  <2>10. IsPiece(Stream(script), i, to[i], to[i + 1], d, FrameAt(to, i))
    <3>1. 0 + cuts[i] = to[i] /\ 0 + cuts[i + 1] = to[i + 1] /\ 0 + f = FrameAt(to, i)
      BY <2>2, <2>3, <2>4
    <3> QED
      BY <2>9, <3>1
  <2>11. FrameAt(to, i + 1) <= Len(d)
    <3> HIDE DEF n
    <3>1. FrameAt(to, i + 1) = f + n + 3
      BY <2>3, <2>5
    <3>2. Len(cipher) <= Len(d)
      <4>1. L \in Nat /\ k \in Nat /\ Len(cipher) \in Nat /\ Len(d) = Len(cipher) + L + 3 * k
        BY <1>7, <1>16, <1>17
      <4> DEFINE z == Len(cipher)
                 y == Len(d)
      <4>2. z \in Nat /\ y = z + L + 3 * k
        BY <4>1
      <4> HIDE DEF z, y
      <4>3. z <= y
        BY <4>1, <4>2
      <4> QED
        BY <4>3 DEF z, y
    <3>3. f + n + 3 <= Len(cipher)
      BY <2>4, <2>5
    <3>4. f \in Nat /\ Len(cipher) \in Nat /\ Len(d) \in Nat
      BY <1>9, <1>17, <2>4
    <3> QED
      BY <2>6, <3>1, <3>2, <3>3, <3>4
  <2>12. IsWithin(script, to, numSent + 1, i)
    <3>1. PICK j \in 1 .. numSent : At(script, j - 1) <= cuts[i] /\ cuts[i + 1] <= At(script, j)
      BY <1>6 DEF IsWithin
    <3>2. j \in 1 .. numSent + 1
      OBVIOUS
    <3> QED
      BY <2>2, <3>1, <3>2 DEF IsWithin
  <2> QED
    BY <2>2, <2>3, <2>4, <2>10, <2>11, <2>12 DEF IsFrame
<1>13. ASSUME NEW m \in 0 .. k - 1 PROVE IsFrame(script, to, d, num + m) /\ IsWithin(script, to, numSent + 1, num + m)
  <2> DEFINE i == num + m
             a == E(m)
             b == E(m + 1)
             f == a + 3 * m
             all == Stream(script)
             at == cuts[num]
             by == Len(cipher)
  <2>1. m \in Nat /\ m \in 0 .. k /\ m + 1 \in 0 .. k /\ i + 1 = num + (m + 1) /\ i \in Nat
    BY <1>16
  <2>2. a \in Nat /\ b \in Nat /\ a <= L /\ b <= L /\ b - a \in 1 .. size
    <3>1. m + 1 \in Nat
      BY <2>1
    <3> QED
      BY <1>7, <1>22, <2>1, <3>1
  <2>3. to[i] = at + a /\ to[i + 1] = at + b
    BY <1>8, <2>1
  <2>4. IsPiece(bytes, i, a, b, c, f)
    BY <1>5
  <2>5. by \in Nat /\ at \in Nat /\ f \in Nat /\ at = At(script, numSent)
    <3>1. at = At(script, numSent) /\ at \in Nat
      BY <1>6, <1>16
    <3>2. by \in Nat
      BY <1>17
    <3> HIDE DEF a, at, by
    <3>3. f \in Nat
      BY <2>1, <2>2
    <3> QED
      BY <3>1, <3>2, <3>3
  <2>6. FrameAt(to, i) = by + f /\ FrameAt(to, i + 1) = by + b + 3 * (m + 1)
    <3> DEFINE x0 == at + a
               y0 == at + b
               z0 == cuts[0]
               n == i + 1
    <3>1. to[i] = x0 /\ to[n] = y0 /\ to[0] = z0
      BY <1>16, <2>3
    <3>2. z0 \in Nat /\ by = at - z0 + 3 * num
      BY <1>16
    <3>3. n = i + 1
      OBVIOUS
    <3> HIDE DEF a, b, at, by
    <3>4. x0 = at + a /\ y0 = at + b /\ f = a + 3 * m /\ i = num + m
      OBVIOUS
    <3> HIDE DEF x0, y0, z0, i, n, f
    <3>5. FrameAt(to, i) = x0 - z0 + 3 * i /\ FrameAt(to, n) = y0 - z0 + 3 * n
      BY <3>1, FrameAtOf
    <3> DEFINE v == FrameAt(to, i)
               w == FrameAt(to, n)
    <3>6. v = x0 - z0 + 3 * i /\ w = y0 - z0 + 3 * n
      BY <3>5
    <3> HIDE DEF v, w
    <3>7. v = by + f /\ w = by + b + 3 * (m + 1)
      <4>1. m \in Nat /\ a \in Nat /\ b \in Nat /\ by \in Nat /\ at \in Nat
        BY <2>1, <2>2, <2>5
      <4>2. v = at + a - z0 + 3 * (num + m)
        BY <3>2, <3>4, <3>6, <4>1
      <4>3. w = at + b - z0 + 3 * (num + m + 1)
        BY <3>2, <3>3, <3>4, <3>6, <4>1
      <4> QED
        BY <3>2, <3>4, <4>1, <4>2, <4>3
    <3> QED
      BY <3>3, <3>7 DEF v, w
  <2> HIDE DEF i, a, b, at, by, all
  <2>7. ASSUME NEW p \in 1 .. b - a PROVE all[at + a + p] = bytes[a + p]
    <3>1. a + p \in 1 .. L /\ at + (a + p) = at + a + p
      BY <1>7, <2>2, <2>5
    <3>2. \A r \in 1 .. L : all[at + r] = bytes[r]
      <4>1. Has(all, at, bytes)
        BY <1>3, <2>5 DEF all
      <4>2. Len(bytes) \in Nat
        BY <1>7 DEF L
      <4> QED
        BY <2>5, <4>1, <4>2, HasAt, SMTT(40) DEF L
    <3> QED
      BY <3>1, <3>2
  <2>8. f + (b - a) + 3 <= Len(c) /\ by + b + 3 * (m + 1) <= Len(d)
    <3>1. m + 1 <= k
      BY <1>16, <2>1
    <3> QED
      <4> DEFINE y == Len(d)
                 w == Len(c)
      <4>1. k \in Nat /\ L \in Nat /\ w = L + 3 * k /\ y = by + L + 3 * k
        BY <1>7, <1>16, <1>17 DEF by
      <4> HIDE DEF y, w
      <4>2. a + 3 * m + (b - a) + 3 <= w /\ by + b + 3 * (m + 1) <= y
        BY <2>1, <2>2, <2>5, <3>1, <4>1
      <4> QED
        BY <4>2 DEF y, w
  <2> HIDE DEF f
  <2>9. ASSUME NEW p \in 1 .. b - a + 3 PROVE d[by + f + p] = c[f + p]
    <3>1. by + f + p \in by + 1 .. by + Len(c) /\ (by + f + p) - by = f + p
      BY <1>7, <1>16, <1>17, <2>2, <2>5, <2>8
    <3> QED
      BY <1>9, <3>1 DEF by
  <2>10. IsPiece(all, i, at + a, at + b, d, by + f)
    <3>1. a <= b
      BY <2>2
    <3> QED
      BY <2>2, <2>4, <2>5, <2>7, <2>9, <3>1, PieceMoved
  <2>11. IsPiece(all, i, to[i], to[i + 1], d, FrameAt(to, i))
    BY <2>3, <2>6, <2>10
  <2>12. to[i + 1] - to[i] \in 1 .. MaxFrameBytes
    BY <1>1, <2>2, <2>3, <2>5, SMTT(40)
  <2>13. FrameAt(to, i) \in Nat /\ FrameAt(to, i + 1) <= Len(d)
    BY <2>5, <2>6, <2>8
  <2>14. IsWithin(script, to, numSent + 1, i)
    <3>1. numSent + 1 \in 1 .. numSent + 1 /\ (numSent + 1) - 1 = numSent
      OBVIOUS
    <3>2. At(script, numSent) <= to[i] /\ to[i + 1] <= At(script, numSent + 1)
      <4>1. to[i] = at + a /\ to[i + 1] = at + b /\ At(script, numSent + 1) = at + L /\ At(script, numSent) = at /\ L \in Nat
        BY <1>3, <1>7, <2>3, <2>5
      <4> QED
        BY <2>2, <2>5, <4>1, SMTT(40)
    <3> QED
      BY <3>1, <3>2 DEF IsWithin
  <2> QED
    BY <2>11, <2>12, <2>13, <2>14 DEF IsFrame, i, all
<1>14. ASSUME NEW i \in 0 .. (num + k) - 1 PROVE IsFrame(script, to, d, i) /\ IsWithin(script, to, numSent + 1, i)
  <2>1. CASE i <= num - 1
    BY <1>12, <2>1
  <2>2. CASE ~(i <= num - 1)
    <3>1. i - num \in 0 .. k - 1 /\ num + (i - num) = i
      BY <1>4, <2>2
    <3>2. IsFrame(script, to, d, num + (i - num)) /\ IsWithin(script, to, numSent + 1, num + (i - num))
      BY <1>13, <3>1
    <3> QED
      BY <3>1, <3>2
  <2> QED
    BY <2>1, <2>2
<1> QED
  BY <1>4, <1>5, <1>8, <1>9, <1>10, <1>11, <1>14 DEF AreFrames, to, d, c, k, L, bytes

-----------------------------------------------------------------------------
(* The invariant                                                           *)

\* The request after those that have been handled
NextOf(x) == SentOf(x.script)[NumHandled(x) + 1]

\* How much of a body it says it has
BodyLength(q) == IF q.length = <<>> THEN 0 ELSE Decimal(LengthOf(q))

\* The same reader, and what it has read
SameReader(x, y) ==
  /\ y.reader = x.reader /\ y.readerPosition = x.readerPosition /\ y.parserError = x.parserError
  /\ y.tokens = x.tokens /\ y.contentLength = x.contentLength /\ y.contentType = x.contentType

\* prepare_reading_request
IsPrepared(x) ==
  /\ x.reader = InitialReader /\ x.readerPosition = 0 /\ ~x.parserError
  /\ x.tokens = NoTokens /\ x.contentLength = <<>> /\ x.contentType = <<>>

\* The first at bytes of the buffer can be read, those after them to the end cannot yet.
InPlain(x, at, end) ==
  /\ ~x.hasKeys /\ x.nonce = 0 /\ x.sentNonce = 0 /\ x.numSent <= Len(x.script.plain)
  /\ NumHandled(x) = Len(x.script.plain) => Len(x.script.secure) = 0
  /\ at = end
  /\ Follows(Stream(x.script), Base(x) + at, x.wire, 0, Len(x.wire))
  /\ Base(x) + at + Len(x.wire) = At(x.script, x.numSent)

\* The same when the session is encrypted: frames follow those that have been decrypted.
InSecure(x, at, end, cuts, cipher) ==
  /\ x.hasKeys /\ NumHandled(x) >= Len(x.script.plain)
  /\ AreFrames(x.script, cuts, cipher, x.numSent, x.sentNonce)
  /\ x.nonce <= x.sentNonce /\ Base(x) + at = cuts[x.nonce]
  /\ Follows(cipher, FrameAt(cuts, x.nonce), x.data, at, end)
  /\ Follows(cipher, FrameAt(cuts, x.nonce) + end - at, x.wire, 0, Len(x.wire))
  /\ FrameAt(cuts, x.nonce) + end - at + Len(x.wire) = Len(cipher)

\* What is in the buffer, up to at the plaintext from the next request on, and behind it what is
\* not decrypted yet
Buffers(x, at, end, cuts, cipher) ==
  /\ at \in Nat /\ end \in Nat /\ at <= end /\ end <= Capacity
  /\ Follows(Stream(x.script), Base(x), x.data, 0, at)
  /\ InPlain(x, at, end) \/ InSecure(x, at, end, cuts, cipher)

\* The next frame is not complete.
NeedsMore(x, at, end, cuts) == x.nonce < x.sentNonce => end - at < cuts[x.nonce + 1] - cuts[x.nonce] + 3

\* The requests that have been handled are those that were sent, in their order.
HandledWell(x) ==
  /\ NumHandled(x) <= x.numSent /\ x.numSent <= Len(SentOf(x.script)) /\ Len(x.sealed) = NumHandled(x)
  /\ \A k \in 1 .. NumHandled(x) : x.handled[k] = Meant(SentOf(x.script)[k])
  /\ \A k \in 1 .. NumHandled(x) : x.sealed[k] <=> k > Len(x.script.plain)

\* The session waits for the rest of the next request, of which hi bytes are there, or for all of it.
Waits(x, hi) ==
  IF NumHandled(x) = x.numSent THEN IsPrepared(x)
  ELSE /\ \E i \in 0 .. 3 : AtRest(NextOf(x), x, hi, i)
       /\ x.readerPosition <= hi
       /\ x.reader.state = "DONE" => hi - x.readerPosition < BodyLength(NextOf(x))

\* A session that has ended had a reason to.
IsExcused(x) ==
  x.state \in {"Closed", "Failed"} => \E k \in 1 .. x.numSent : k > NumHandled(x) /\ IsBad(SentOf(x.script)[k])

\* Between two calls, mark is where the part that is not decrypted begins.
GoodWith(x, cuts, cipher) ==
  /\ x.limit = Capacity /\ Buffers(x, x.mark, x.position, cuts, cipher)
  /\ x.state = "Reading" => NeedsMore(x, x.mark, x.position, cuts) /\ Waits(x, x.mark)

\* What is true of a session between two calls of its handlers
Good(x) ==
  /\ x \in Sessions /\ HandledWell(x) /\ x.state # "Failed" /\ IsExcused(x)
  /\ x.isSecured => x.hasKeys
  /\ x.numAnswered = NumHandled(x) - (IF x.state = "Writing" THEN 1 ELSE 0)
  /\ x.state \in {"Reading", "Writing"} => \E cuts, cipher : GoodWith(x, cuts, cipher)

-----------------------------------------------------------------------------
(* What is known of a good session                                         *)

\* The numbers of a session
LEMMA SessionTypes ==
  ASSUME NEW x \in Sessions, HandledWell(x)
  PROVE  /\ x.script \in Scripts /\ NumHandled(x) \in Nat /\ x.numSent \in Nat /\ Len(SentOf(x.script)) \in Nat
         /\ NumHandled(x) <= Len(SentOf(x.script)) /\ Base(x) \in Nat /\ Len(x.wire) \in Nat /\ x.wire \in Seq(Int)
         /\ At(x.script, x.numSent) \in Nat /\ Base(x) <= At(x.script, x.numSent)
         /\ x.nonce \in Nat /\ x.sentNonce \in Nat /\ x.data \in [1 .. Capacity -> Int] /\ Capacity \in Nat
         /\ x.position \in Nat /\ x.limit \in Nat /\ x.mark \in Nat /\ x.readerPosition \in Nat
<1>1. /\ x.script \in Scripts /\ NumHandled(x) \in Nat /\ x.numSent \in Nat /\ Len(x.wire) \in Nat /\ x.wire \in Seq(Int)
      /\ x.nonce \in Nat /\ x.sentNonce \in Nat /\ x.data \in [1 .. Capacity -> Int]
      /\ x.position \in Nat /\ x.limit \in Nat /\ x.mark \in Nat /\ x.readerPosition \in Nat
  BY DEF Sessions, NumHandled
<1>2. Len(SentOf(x.script)) \in Nat
  BY <1>1, ScriptFacts
<1>3. NumHandled(x) \in 0 .. Len(SentOf(x.script)) /\ x.numSent \in 0 .. Len(SentOf(x.script)) /\ NumHandled(x) <= x.numSent
  BY <1>1, <1>2 DEF HandledWell
<1>4. Base(x) \in Nat /\ At(x.script, x.numSent) \in Nat /\ Base(x) <= At(x.script, x.numSent)
  BY <1>1, <1>3, AtOrder DEF Base
<1> QED
  BY <1>1, <1>2, <1>3, <1>4, IPSessionInputAssumption

\* The next request, once it has been sent
LEMMA NextFacts ==
  ASSUME NEW x \in Sessions, HandledWell(x), NumHandled(x) < x.numSent
  PROVE  LET q == NextOf(x)
             n == NumHandled(x)
         IN  /\ IsRequest(q) /\ n \in 0 .. Len(SentOf(x.script)) - 1 /\ n + 1 \in 1 .. x.numSent
             /\ At(x.script, n + 1) = Base(x) + Len(Written(q)) /\ At(x.script, n + 1) <= At(x.script, x.numSent)
             /\ Len(Written(q)) \in Nat /\ Has(Stream(x.script), Base(x), Written(q))
<1> DEFINE q == NextOf(x)
           n == NumHandled(x)
<1>1. /\ x.script \in Scripts /\ n \in 0 .. Len(SentOf(x.script)) - 1 /\ n + 1 \in 1 .. x.numSent
      /\ n + 1 \in 0 .. Len(SentOf(x.script)) /\ x.numSent \in 0 .. Len(SentOf(x.script)) /\ n + 1 <= x.numSent
      /\ n + 1 \in 1 .. Len(SentOf(x.script))
  BY SessionTypes DEF HandledWell
<1>2. IsRequest(q)
  BY <1>1, ScriptFacts DEF NextOf
<1>3. At(x.script, n + 1) = Base(x) + Len(Written(q)) /\ Has(Stream(x.script), Base(x), Written(q))
  BY <1>1, StreamFacts DEF NextOf, Base
<1>4. At(x.script, n + 1) <= At(x.script, x.numSent)
  BY <1>1, AtOrder
<1>5. Len(Written(q)) \in Nat
  <2>1. Written(q) \in Seq(Octets)
    BY <1>2, WrittenFacts
  <2> QED
    BY <2>1
<1> QED
  BY <1>1, <1>2, <1>3, <1>4, <1>5

\* When all that was sent has been handled there is nothing left.
LEMMA NothingLeft ==
  ASSUME NEW x \in Sessions, HandledWell(x), NEW at, NEW end, NEW cuts, NEW cipher, Buffers(x, at, end, cuts, cipher),
         NumHandled(x) = x.numSent
  PROVE  at = 0 /\ end = 0 /\ Len(x.wire) = 0
<1>1. at \in Nat /\ end \in Nat /\ at <= end /\ Base(x) \in Nat /\ Len(x.wire) \in Nat /\ Base(x) = At(x.script, x.numSent)
  BY SessionTypes DEF Buffers, Base
<1>2. CASE InPlain(x, at, end)
  BY <1>1, <1>2 DEF InPlain
<1>3. CASE InSecure(x, at, end, cuts, cipher)
  <2> DEFINE i == x.nonce
             f == FrameAt(cuts, i)
  <2>1. /\ AreFrames(x.script, cuts, cipher, x.numSent, x.sentNonce) /\ i <= x.sentNonce /\ Base(x) + at = cuts[i]
        /\ f + end - at + Len(x.wire) = Len(cipher)
    BY <1>3 DEF InSecure
  <2>2. /\ cuts \in [0 .. x.sentNonce -> Nat] /\ Len(cipher) = FrameAt(cuts, x.sentNonce) /\ cuts[x.sentNonce] = At(x.script, x.numSent)
        /\ i \in Nat /\ x.sentNonce \in Nat /\ i \in 0 .. x.sentNonce /\ 0 \in 0 .. x.sentNonce
    BY <2>1, SessionTypes DEF AreFrames
  <2>3. cuts[i] \in Nat /\ cuts[0] \in Nat
    BY <2>2
  <2>4. i = x.sentNonce
    <3> SUFFICES ASSUME i < x.sentNonce PROVE FALSE
      BY <2>1, <2>2
    <3>1. i \in 0 .. x.sentNonce - 1 /\ i + 1 \in 0 .. x.sentNonce
      BY <2>2
    <3>2. IsFrame(x.script, cuts, cipher, i) /\ IsWithin(x.script, cuts, x.numSent, i)
      BY <2>1, <3>1 DEF AreFrames
    <3>3. cuts[i + 1] - cuts[i] >= 1 /\ cuts[i + 1] \in Nat
      BY <2>2, <3>1, <3>2, IPSessionInputAssumption DEF IsFrame
    <3>4. PICK j \in 1 .. x.numSent : cuts[i + 1] <= At(x.script, j)
      BY <3>2 DEF IsWithin
    <3>5. At(x.script, j) <= At(x.script, x.numSent) /\ At(x.script, j) \in Nat
      <4>1. j \in 0 .. Len(SentOf(x.script)) /\ x.numSent \in 0 .. Len(SentOf(x.script)) /\ j <= x.numSent /\ x.script \in Scripts
        BY SessionTypes DEF HandledWell
      <4> QED
        BY <4>1, AtOrder
    <3> QED
      BY <1>1, <2>1, <2>3, <3>3, <3>4, <3>5
  <2>5. f \in Int /\ f = Len(cipher)
    <3>1. f \in Int
      BY <2>2, <2>3 DEF FrameAt
    <3> QED
      BY <2>2, <2>4, <3>1
  <2> HIDE DEF f
  <2>6. end - at + Len(x.wire) = 0
    <3> DEFINE w == Len(x.wire)
               c == Len(cipher)
    <3>1. at \in Nat /\ end \in Nat /\ w \in Nat /\ f \in Int /\ f = c /\ f + end - at + w = c
      BY <1>1, <2>1, <2>5 DEF f
    <3> HIDE DEF w, c
    <3>2. end - at + w = 0
      BY <3>1
    <3> QED
      BY <3>2 DEF w
  <2>7. at = 0
    BY <1>1, <2>1, <2>2, <2>3, <2>4
  <2> QED
    BY <1>1, <2>6, <2>7
<1> QED
  BY <1>2, <1>3 DEF Buffers

\* What is refused is bad.
LEMMA RefusedIsBad ==
  ASSUME NEW q, IsRequest(q), IsRefused(q)
  PROVE  IsBad(q)
<1>1. CASE q.type # <<>> /\ Trimmed(q.type[1]) = <<>>
  BY <1>1 DEF IsBad
<1>2. CASE q.length # <<>> /\ ~IsNumber(LengthOf(q))
  BY <1>2 DEF IsBad, IsNumber, LengthOf
<1>3. CASE q.length # <<>> /\ IsNumber(LengthOf(q)) /\ Decimal(LengthOf(q)) > SizeMax
  <2>1. CASE Decimal(LengthOf(q)) # Len(q.body)
    BY <1>3, <2>1 DEF IsBad, LengthOf
  <2>2. CASE Decimal(LengthOf(q)) = Len(q.body)
    <3>1. Len(Written(q)) > Capacity - NumAADBytes - TagBytes
      <4>1. Len(Written(q)) = Len(Heading(q)) + Len(q.body) /\ Len(Heading(q)) \in Nat /\ Len(q.body) \in Nat
        BY WrittenFacts
      <4> DEFINE a == Len(Written(q))
                 b == Len(q.body)
                 c == Len(Heading(q))
      <4>2. a = c + b /\ b \in Nat /\ c \in Nat /\ b > SizeMax
        BY <1>3, <2>2, <4>1
      <4> HIDE DEF a, b, c
      <4>3. a > Capacity - NumAADBytes - TagBytes
        BY <4>2, IPSessionInputAssumption DEF NumAADBytes, TagBytes
      <4> QED
        BY <4>3 DEF a
    <3> QED
      BY <3>1 DEF IsBad
  <2> QED
    BY <2>1, <2>2
<1> QED
  BY <1>1, <1>2, <1>3 DEF IsRefused, LengthOf

\* What is known of a request when its heading has been read
LEMMA HeadingRead ==
  ASSUME NEW q, IsRequest(q), NEW x \in Sessions, NEW hi, NEW i \in 0 .. 3, AtRest(q, x, hi, i), x.reader.state = "DONE"
  PROVE  /\ x.readerPosition = Len(Heading(q)) /\ ~IsRefused(q)
         /\ x.tokens["URI"] = [at |-> 3, n |-> Len(q.uri)]
         /\ x.contentLength = IF q.length = <<>> THEN <<>> ELSE <<BodyLength(q)>>
         /\ x.contentType = Meant(q).type
         /\ q.length # <<>> => IsNumber(LengthOf(q))
         /\ BodyLength(q) \in Nat
<1> DEFINE lines == LinesRead(q, "DONE", i)
           o == x.readerPosition
<1>1. /\ Place(q, x.reader, o, i) /\ x.tokens["URI"] = Found(q, "DONE", o, i, "URI")
      /\ x.contentLength = KnownLength(q, lines) /\ x.contentType = KnownType(q, lines) /\ Accepted(q, lines)
  BY DEF AtRest, ReadingOf, Settled, TokenNames
<1>2. i = 3 /\ o = Len(Heading(q))
  BY <1>1, Places
<1>3. (1 \in lines <=> q.type # <<>>) /\ (2 \in lines <=> q.length # <<>>)
  BY <1>2 DEF LinesRead, IsRead, HasLine
<1> HIDE DEF lines
<1>4. ~IsRefused(q) /\ (q.length # <<>> => IsNumber(LengthOf(q)))
  <2>1. q.length # <<>> => IsNumber(LengthOf(q)) /\ Decimal(LengthOf(q)) <= SizeMax /\ Decimal(LengthOf(q)) \in Nat
    <3> SUFFICES ASSUME q.length # <<>> PROVE IsNumber(LengthOf(q)) /\ Decimal(LengthOf(q)) <= SizeMax /\ Decimal(LengthOf(q)) \in Nat
      OBVIOUS
    <3>1. HasLine(q, 2) /\ 2 \in 1 .. 2 /\ ValueOf(q, 2) = q.length[1]
      BY DEF HasLine, ValueOf
    <3>2. LengthOf(q) \in Seq(Octets)
      BY <3>1, ValueTypes DEF LengthOf
    <3> QED
      BY <1>1, <1>3, <3>2, DecimalType DEF Accepted
  <2>2. SizeMax \in Nat
    BY IPSessionInputAssumption
  <2> QED
    BY <1>1, <1>3, <2>1, <2>2 DEF Accepted, IsRefused, LengthOf
<1>5. BodyLength(q) \in Nat
  <2>1. CASE q.length # <<>>
    <3>1. HasLine(q, 2) /\ 2 \in 1 .. 2 /\ ValueOf(q, 2) = q.length[1]
      BY <2>1 DEF HasLine, ValueOf
    <3>2. LengthOf(q) \in Seq(Octets)
      BY <3>1, ValueTypes DEF LengthOf
    <3> QED
      BY <1>4, <2>1, <3>2, DecimalType DEF BodyLength
  <2>2. CASE q.length = <<>>
    BY <2>2 DEF BodyLength
  <2> QED
    BY <2>1, <2>2
<1>6. x.tokens["URI"] = [at |-> 3, n |-> Len(q.uri)]
  <2>1. Found(q, "DONE", o, i, "URI") = Part(3, 3 + Len(q.uri), o)
    BY DEF Found
  <2>2. o >= Len(q.uri) + 9 /\ o \in Nat /\ Len(q.uri) \in Nat
    <3>1. LineAt(q, 3) \in Nat /\ LineAt(q, 3) >= Len(q.uri) + 7 /\ Len(q.uri) \in Nat
      <4> DEFINE a == LineAt(q, 1)
                 b == LineAt(q, 2)
                 c == LineAt(q, 3)
      <4>1. a = Len(q.uri) + 7 /\ b = a + Len(TypeLine(q)) /\ c = b + Len(LengthLine(q))
            /\ Len(TypeLine(q)) \in Nat /\ Len(LengthLine(q)) \in Nat /\ Len(q.uri) \in Nat /\ c \in Nat
        BY LineAts
      <4> HIDE DEF a, b, c
      <4>2. c >= Len(q.uri) + 7
        BY <4>1
      <4> QED
        BY <4>1, <4>2 DEF c
    <3>2. o = LineAt(q, 3) + 2
      BY <1>2, HeadingPieces
    <3> QED
      BY <3>1, <3>2
  <2> HIDE DEF o
  <2>3. Part(3, 3 + Len(q.uri), o) = [at |-> 3, n |-> Len(q.uri)]
    <3> DEFINE u == Len(q.uri)
    <3>1. u \in Nat /\ ~(o <= 3) /\ ~(o < 3 + u) /\ (3 + u) - 3 = u
      BY <2>2
    <3> HIDE DEF u
    <3>2. Part(3, 3 + u, o) = [at |-> 3, n |-> u]
      BY <3>1 DEF Part
    <3> QED
      BY <3>2 DEF u
  <2> QED
    BY <1>1, <2>1, <2>3
<1>7. x.contentLength = IF q.length = <<>> THEN <<>> ELSE <<BodyLength(q)>>
  BY <1>1, <1>3, Zenon DEF KnownLength, BodyLength
<1>8. x.contentType = Meant(q).type
  BY <1>1, <1>3 DEF KnownType, Meant
<1> QED
  BY <1>2, <1>4, <1>5, <1>6, <1>7, <1>8

\* A session that has a whole request and does not handle it has a bad one.
LEMMA Stalled ==
  ASSUME NEW q, IsRequest(q), NEW x \in Sessions, NEW hi \in Nat, NEW i \in 0 .. 3, AtRest(q, x, hi, i),
         x.reader.state = "DONE" => hi - x.readerPosition < BodyLength(q), hi >= Len(Written(q))
  PROVE  IsBad(q)
<1> DEFINE a == Len(Written(q))
           b == Len(q.body)
           c == Len(Heading(q))
           n == BodyLength(q)
<1>1. a = c + b /\ b \in Nat /\ c \in Nat /\ hi >= a
  BY WrittenFacts
<1>2. x.reader.state = "DONE"
  <2> SUFFICES ASSUME x.reader.state # "DONE" PROVE FALSE
    OBVIOUS
  <2>1. x.readerPosition = hi /\ Place(q, x.reader, x.readerPosition, i)
    BY DEF AtRest, ReadingOf
  <2>2. hi < c
    BY <2>1, Places
  <2> HIDE DEF a, b, c
  <2> QED
    BY <1>1, <2>2
<1>3. /\ x.readerPosition = c /\ ~IsRefused(q) /\ n \in Nat /\ hi - x.readerPosition < n
      /\ q.length # <<>> => IsNumber(LengthOf(q))
  BY <1>2, HeadingRead
<1>4. n # b
  <2> HIDE DEF a, b, c, n
  <2> QED
    BY <1>1, <1>3
<1>5. CASE q.length = <<>>
  <2>1. n = 0
    BY <1>5 DEF BodyLength
  <2> HIDE DEF a, b, c, n
  <2> QED
    BY <1>1, <1>3, <2>1
<1>6. CASE q.length # <<>>
  BY <1>4, <1>6 DEF IsBad, BodyLength, LengthOf
<1> QED
  BY <1>5, <1>6

-----------------------------------------------------------------------------
(* Reading, and handling what has been read                                *)

\* A session that is about to read what has arrived
Ready(x, cuts, cipher) ==
  /\ x \in Sessions /\ HandledWell(x) /\ x.state = "Reading" /\ x.numAnswered = NumHandled(x) /\ NumHandled(x) < x.numSent
  /\ Buffers(x, x.position, x.limit, cuts, cipher) /\ NeedsMore(x, x.position, x.limit, cuts)
  /\ x.isSecured <=> x.hasKeys

\* Two sessions that are the same but for how much there is in the buffer, and whether it is read
SameStream(x, y) ==
  /\ y.script = x.script /\ y.numSent = x.numSent /\ y.wire = x.wire /\ y.sentNonce = x.sentNonce /\ y.nonce = x.nonce
  /\ y.hasKeys = x.hasKeys /\ y.handled = x.handled /\ y.sealed = x.sealed /\ y.data = x.data

\* What is said about the buffers does not depend on anything else.
LEMMA SameStreamFacts ==
  ASSUME NEW x, NEW y, SameStream(x, y)
  PROVE  /\ NumHandled(y) = NumHandled(x) /\ Base(y) = Base(x) /\ NextOf(y) = NextOf(x)
         /\ HandledWell(x) => HandledWell(y)
         /\ \A at, end, cuts, cipher : Buffers(x, at, end, cuts, cipher) => Buffers(y, at, end, cuts, cipher)
         /\ \A at, end, cuts : NeedsMore(x, at, end, cuts) => NeedsMore(y, at, end, cuts)
<1>1. NumHandled(y) = NumHandled(x) /\ Base(y) = Base(x) /\ NextOf(y) = NextOf(x)
  BY DEF SameStream, NumHandled, Base, NextOf
<1>2. HandledWell(x) => HandledWell(y)
  BY <1>1 DEF HandledWell, SameStream
<1>3. ASSUME NEW at, NEW end, NEW cuts, NEW cipher, Buffers(x, at, end, cuts, cipher) PROVE Buffers(y, at, end, cuts, cipher)
  <2>1. InPlain(x, at, end) => InPlain(y, at, end)
    BY <1>1 DEF InPlain, SameStream
  <2>2. InSecure(x, at, end, cuts, cipher) => InSecure(y, at, end, cuts, cipher)
    BY <1>1 DEF InSecure, SameStream
  <2> QED
    BY <1>1, <1>3, <2>1, <2>2 DEF Buffers, SameStream
<1>4. \A at, end, cuts : NeedsMore(x, at, end, cuts) => NeedsMore(y, at, end, cuts)
  BY DEF NeedsMore, SameStream
<1> QED
  BY <1>1, <1>2, <1>3, <1>4

\* Where in a request a session is does not depend on anything but its reader.
LEMMA SameReaderFacts ==
  ASSUME NEW x, NEW y, SameReader(x, y)
  PROVE  /\ \A q, i : ReadingOf(q, x, i) => ReadingOf(q, y, i)
         /\ \A q, hi, i : AtRest(q, x, hi, i) => AtRest(q, y, hi, i)
<1>1. ASSUME NEW q, NEW i, ReadingOf(q, x, i) PROVE ReadingOf(q, y, i)
  BY <1>1 DEF ReadingOf, SameReader
<1> QED
  BY <1>1 DEF AtRest, SameReader

\* When the buffer is full of a request that is not complete, the request is too long for it.
LEMMA FullIsBad ==
  ASSUME NEW x, NEW cuts, NEW cipher, Ready(x, cuts, cipher), x.limit = Capacity,
         \A hi \in Nat : hi = x.position /\ hi >= Len(Written(NextOf(x))) => IsBad(NextOf(x))
  PROVE  IsBad(NextOf(x))
<1> DEFINE q == NextOf(x)
           L == Len(Written(q))
           n == NumHandled(x)
           i == x.nonce
           at == x.position
<1>1. /\ x \in Sessions /\ HandledWell(x) /\ n < x.numSent /\ Buffers(x, at, Capacity, cuts, cipher)
      /\ NeedsMore(x, at, Capacity, cuts)
  BY DEF Ready
<1>2. /\ IsRequest(q) /\ L \in Nat /\ at \in Nat /\ Capacity \in Nat /\ at <= Capacity
      /\ At(x.script, n + 1) = Base(x) + L /\ At(x.script, n + 1) <= At(x.script, x.numSent)
      /\ Base(x) \in Nat /\ At(x.script, x.numSent) \in Nat /\ x.wire \in Seq(Int) /\ Len(x.wire) \in Nat
      /\ i \in Nat /\ x.sentNonce \in Nat
  BY <1>1, NextFacts, SessionTypes DEF Buffers
<1>3. at >= L => IsBad(q)
  BY <1>2
<1>4. L > Capacity - 3 => IsBad(q)
  <2> HIDE DEF L, q
  <2>1. Capacity - NumAADBytes - TagBytes = Capacity - 3
    BY <1>2 DEF NumAADBytes, TagBytes
  <2> QED
    BY <2>1 DEF IsBad, L
<1> HIDE DEF q, L
<1> SUFFICES ASSUME at < L PROVE L > Capacity - 3
  BY <1>2, <1>3, <1>4 DEF q
<1>5. CASE InPlain(x, at, Capacity)
  BY <1>2, <1>5 DEF InPlain
<1>6. CASE InSecure(x, at, Capacity, cuts, cipher)
  <2>1. AreFrames(x.script, cuts, cipher, x.numSent, x.sentNonce) /\ i <= x.sentNonce /\ Base(x) + at = cuts[i]
    BY <1>6 DEF InSecure
  <2>2. cuts \in [0 .. x.sentNonce -> Nat] /\ cuts[x.sentNonce] = At(x.script, x.numSent)
    BY <2>1 DEF AreFrames
  <2>3. i # x.sentNonce
    <3> HIDE DEF at
    <3> QED
      BY <1>2, <2>1, <2>2
  <2>4. i \in 0 .. x.sentNonce - 1 /\ i + 1 \in 0 .. x.sentNonce /\ i \in 0 .. x.sentNonce /\ i < x.sentNonce
    BY <1>2, <2>1, <2>3
  <2>5. IsWithin(x.script, cuts, x.numSent, i)
    BY <2>1, <2>4 DEF AreFrames
  <2>6. PICK j \in 1 .. x.numSent : At(x.script, j - 1) <= cuts[i] /\ cuts[i + 1] <= At(x.script, j)
    BY <2>5 DEF IsWithin
  <2>7. /\ x.script \in Scripts /\ j \in 0 .. Len(SentOf(x.script)) /\ j - 1 \in 0 .. Len(SentOf(x.script))
        /\ n + 1 \in 0 .. Len(SentOf(x.script)) /\ n \in Nat
    BY <1>1, SessionTypes DEF HandledWell
  <2>8. j <= n + 1
    <3> SUFFICES ASSUME n + 1 <= j - 1 PROVE FALSE
      BY <2>7
    <3>1. At(x.script, n + 1) <= At(x.script, j - 1) /\ At(x.script, j - 1) \in Nat
      BY <2>7, AtOrder
    <3>2. cuts[i] \in Nat
      BY <2>2, <2>4
    <3> DEFINE a == cuts[i]
               c == At(x.script, n + 1)
               d == At(x.script, j - 1)
               e == Base(x)
    <3>3. /\ a \in Nat /\ d \in Nat /\ e \in Nat /\ at \in Nat /\ L \in Nat
          /\ c = e + L /\ e + at = a /\ d <= a /\ c <= d
      BY <1>2, <2>1, <2>6, <3>1, <3>2
    <3> HIDE DEF at, a, c, d, e
    <3> QED
      BY <3>3
  <2>9. At(x.script, j) <= At(x.script, n + 1) /\ At(x.script, j) \in Nat
    BY <2>7, <2>8, AtOrder
  <2>10. Capacity - at < cuts[i + 1] - cuts[i] + 3 /\ cuts[i + 1] \in Nat /\ cuts[i] \in Nat
    BY <1>1, <2>2, <2>4 DEF NeedsMore
  <2> DEFINE a == cuts[i]
             b == cuts[i + 1]
             c == At(x.script, n + 1)
             d == At(x.script, j)
             e == Base(x)
  <2>11. /\ a \in Nat /\ b \in Nat /\ d \in Nat /\ e \in Nat /\ at \in Nat /\ L \in Nat /\ Capacity \in Nat
         /\ c = e + L /\ e + at = a /\ b <= d /\ d <= c /\ Capacity - at < b - a + 3
    BY <1>2, <2>1, <2>6, <2>9, <2>10
  <2> HIDE DEF at, a, b, c, d, e
  <2> QED
    BY <2>11
<1> QED
  BY <1>1, <1>5, <1>6 DEF Buffers

\* What is left in the buffer is kept until more arrives.
LEMMA KeptIsGood ==
  ASSUME NEW x, NEW cuts, NEW cipher, Ready(x, cuts, cipher), NEW i \in 0 .. 3, AtRest(NextOf(x), x, x.position, i),
         x.readerPosition <= x.position,
         x.reader.state = "DONE" => x.position - x.readerPosition < BodyLength(NextOf(x))
  PROVE  Good(Kept(x))
<1> DEFINE z == Kept(x)
           q == NextOf(x)
<1>1. /\ x \in Sessions /\ HandledWell(x) /\ x.state = "Reading" /\ x.numAnswered = NumHandled(x) /\ NumHandled(x) < x.numSent
      /\ Buffers(x, x.position, x.limit, cuts, cipher) /\ NeedsMore(x, x.position, x.limit, cuts) /\ Capacity \in Nat
      /\ (x.isSecured <=> x.hasKeys)
  BY SessionTypes DEF Ready
<1>2. /\ z \in Sessions /\ SameStream(x, z) /\ SameReader(x, z) /\ z.numAnswered = x.numAnswered /\ z.isSecured = x.isSecured
      /\ z.mark = x.position /\ z.position = x.limit /\ z.limit = Capacity
      /\ z.state = IF x.limit = Capacity THEN "Closed" ELSE "Reading"
  <2>1. "Closed" \in {"Reading", "Writing", "Closed", "Failed"}
    OBVIOUS
  <2> QED
    BY <1>1, <2>1 DEF Kept, Sessions, SameStream, SameReader
<1> HIDE DEF z
<1>3. /\ NumHandled(z) = NumHandled(x) /\ NextOf(z) = q /\ HandledWell(z)
      /\ Buffers(z, z.mark, z.position, cuts, cipher) /\ NeedsMore(z, z.mark, z.position, cuts)
  BY <1>1, <1>2, SameStreamFacts
<1>4. IsRequest(q) /\ NumHandled(x) + 1 \in 1 .. x.numSent /\ NumHandled(x) \in Nat
  BY <1>1, NextFacts, SessionTypes
<1>8. z.isSecured => z.hasKeys
  BY <1>1, <1>2 DEF SameStream
<1>5. ASSUME z.state = "Closed" PROVE Good(z)
  <2>1. x.limit = Capacity
    BY <1>2, <1>5
  <2>2. \A hi \in Nat : hi = x.position /\ hi >= Len(Written(q)) => IsBad(q)
    BY <1>1, <1>4, Stalled
  <2>3. IsBad(SentOf(x.script)[NumHandled(x) + 1])
    BY <2>1, <2>2, FullIsBad DEF NextOf
  <2>4. IsExcused(z)
    <3>1. z.script = x.script /\ z.numSent = x.numSent
      BY <1>2 DEF SameStream
    <3>2. NumHandled(x) + 1 > NumHandled(x)
      BY <1>4
    <3> QED
      BY <1>3, <1>4, <2>3, <3>1, <3>2 DEF IsExcused
  <2> QED
    BY <1>1, <1>2, <1>3, <1>4, <1>5, <1>8, <2>4 DEF Good
<1>6. ASSUME z.state = "Reading" PROVE Good(z)
  <2>1. AtRest(NextOf(z), z, z.mark, i)
    BY <1>2, <1>3, SameReaderFacts
  <2>2. z.readerPosition <= z.mark /\ (z.reader.state = "DONE" => z.mark - z.readerPosition < BodyLength(NextOf(z)))
    BY <1>2, <1>3 DEF SameReader
  <2>3. NumHandled(z) # z.numSent
    BY <1>1, <1>2, <1>3, <1>4 DEF SameStream
  <2>4. Waits(z, z.mark)
    BY <2>1, <2>2, <2>3 DEF Waits
  <2>5. GoodWith(z, cuts, cipher)
    BY <1>2, <1>3, <2>4 DEF GoodWith
  <2>6. IsExcused(z)
    BY <1>6 DEF IsExcused
  <2> QED
    BY <1>1, <1>2, <1>3, <1>4, <1>6, <1>8, <2>5, <2>6 DEF Good
<1>7. z.state \in {"Closed", "Reading"}
  BY <1>2
<1> QED
  BY <1>5, <1>6, <1>7 DEF z

-----------------------------------------------------------------------------
(* A request is handled.                                                   *)

\* Octets are integers.
LEMMA OctetsAreInts ==
  ASSUME NEW p, p \in Seq(Octets)
  PROVE  p \in Seq(Int)
<1>1. Octets \subseteq Int
  BY DEF Octets
<1>2. Len(p) \in Nat /\ p = [k \in 1 .. Len(p) |-> p[k]] /\ \A k \in 1 .. Len(p) : p[k] \in Octets
  OBVIOUS
<1>3. \A k \in 1 .. Len(p) : p[k] \in Int
  BY <1>1, <1>2
<1> QED
  BY <1>2, <1>3

\* The request at the beginning of the buffer is handled as it was meant.
LEMMA HandledAsMeant ==
  ASSUME NEW x, NEW cuts, NEW cipher, Ready(x, cuts, cipher), NEW i \in 0 .. 3, AtRest(NextOf(x), x, x.position, i),
         x.reader.state = "DONE", IsComplete(x, BodyLength(NextOf(x)))
  PROVE  LET q == NextOf(x)
         IN  /\ BodyLength(q) \in Nat /\ x.readerPosition + BodyLength(q) = Len(Written(q)) /\ Len(Written(q)) <= x.position
             /\ Handled(x, BodyLength(q)) = Meant(q) /\ Meant(q) \in Handlings
             /\ BodyLength(q) = IF x.contentLength = <<>> THEN 0 ELSE x.contentLength[1]
<1> DEFINE q == NextOf(x)
           n == BodyLength(q)
           L == Len(Written(q))
           h == Len(Heading(q))
           b == Len(q.body)
<1>1. /\ x \in Sessions /\ HandledWell(x) /\ NumHandled(x) < x.numSent /\ Buffers(x, x.position, x.limit, cuts, cipher)
  BY DEF Ready
<1>2. IsRequest(q) /\ Has(Stream(x.script), Base(x), Written(q)) /\ L \in Nat /\ Base(x) \in Nat /\ x.position \in Nat /\ Capacity \in Nat
  BY <1>1, NextFacts, SessionTypes
<1>3. /\ x.readerPosition = h /\ ~IsRefused(q) /\ x.tokens["URI"] = [at |-> 3, n |-> Len(q.uri)]
      /\ x.contentLength = IF q.length = <<>> THEN <<>> ELSE <<n>>
      /\ x.contentType = Meant(q).type /\ n \in Nat /\ (q.length # <<>> => IsNumber(LengthOf(q)))
  BY <1>1, <1>2, HeadingRead
<1>4. L = h + b /\ h \in Nat /\ b \in Nat /\ Written(q) \in Seq(Octets) /\ Has(Written(q), 0, Heading(q)) /\ Has(Written(q), h, q.body)
  BY <1>2, WrittenFacts
<1>5. n <= x.position /\ x.readerPosition <= x.position - n /\ x.position <= Capacity
  BY <1>1, SessionTypes DEF IsComplete, Buffers
<1>6. n = b
  <2>1. ~IsOversized(q)
    <3> SUFFICES ASSUME IsOversized(q) PROVE FALSE
      OBVIOUS
    <3>1. q.length # <<>> /\ h + Decimal(LengthOf(q)) > Capacity
      BY DEF IsOversized, LengthOf
    <3>2. h + n > Capacity
      BY <3>1 DEF BodyLength
    <3> HIDE DEF h, n
    <3> QED
      BY <1>2, <1>3, <1>4, <1>5, <3>2
  <2>2. HasItsLength(q)
    BY <1>2, <1>3, <2>1 DEF IsRequest
  <2>3. CASE q.length = <<>>
    BY <1>4, <2>2, <2>3 DEF HasItsLength, BodyLength
  <2>4. CASE q.length # <<>>
    BY <2>2, <2>4 DEF HasItsLength, BodyLength, LengthOf
  <2> QED
    BY <2>3, <2>4
<1> HIDE DEF n, L, h, b
<1>7. x.readerPosition + n = L /\ L <= x.position /\ h + b = L
  BY <1>2, <1>3, <1>4, <1>5, <1>6
<1>8. Has(x.data, 0, Written(q))
  <2> SUFFICES ASSUME NEW k \in 1 .. L PROVE x.data[k] = Written(q)[k]
    BY <1>2 DEF Has, L
  <2>1. \A m \in 0 + 1 .. x.position : x.data[m] = Stream(x.script)[Base(x) + m - 0]
    BY <1>1 DEF Buffers, Follows
  <2>2. k \in 0 + 1 .. x.position /\ Base(x) + k - 0 = Base(x) + k
    BY <1>2, <1>7
  <2>3. \A m \in 1 .. L : Stream(x.script)[Base(x) + m] = Written(q)[m]
    BY <1>2, HasAt DEF L
  <2> QED
    BY <2>1, <2>2, <2>3
<1>9. q.uri \in Seq(Octets) /\ q.body \in Seq(Octets) /\ Len(q.uri) \in Nat /\ Heading(q) \in Seq(Octets)
  <2>1. q.uri \in Seq(Octets) /\ q.body \in Seq(Octets) /\ Heading(q) \in Seq(Octets)
    BY <1>2, RequestTypes, HeadingPieces
  <2> QED
    BY <2>1
<1>10. Bytes(x, "URI") = q.uri
  <2>1. Has(Heading(q), 3, q.uri) /\ 3 + Len(q.uri) <= h
    <3>1. LineAt(q, 3) \in Nat /\ LineAt(q, 3) >= Len(q.uri) + 7 /\ Len(q.uri) \in Nat
      <4> DEFINE a == LineAt(q, 1)
                 d == LineAt(q, 2)
                 c == LineAt(q, 3)
      <4>1. a = Len(q.uri) + 7 /\ d = a + Len(TypeLine(q)) /\ c = d + Len(LengthLine(q))
            /\ Len(TypeLine(q)) \in Nat /\ Len(LengthLine(q)) \in Nat /\ Len(q.uri) \in Nat /\ c \in Nat
        BY <1>2, LineAts
      <4> HIDE DEF a, d, c
      <4>2. c >= Len(q.uri) + 7
        BY <4>1
      <4> QED
        BY <4>1, <4>2 DEF c
    <3>2. h = LineAt(q, 3) + 2 /\ Has(Heading(q), 3, q.uri)
      BY <1>2, HeadingPieces DEF h
    <3> QED
      BY <3>1, <3>2
  <2>2. Has(x.data, 0, Heading(q))
    <3>1. 0 + h <= L /\ 0 + 0 = 0
      BY <1>4, <1>7
    <3>2. Has(x.data, 0 + 0, Heading(q))
      BY <1>2, <1>4, <1>8, <3>1, HasIn DEF L, h
    <3> QED
      BY <3>1, <3>2
  <2>3. Has(x.data, 0 + 3, q.uri)
    BY <1>4, <1>9, <2>1, <2>2, HasIn DEF h
  <2>4. SubSeq(x.data, 3 + 1, 3 + Len(q.uri)) = q.uri
    <3>1. Has(x.data, 3, q.uri)
      BY <2>3
    <3> QED
      BY <1>9, <3>1, Cut
  <2> QED
    BY <1>3, <2>4 DEF Bytes
<1>11. SubSeq(x.data, x.readerPosition + 1, x.readerPosition + n) = q.body
  <2>1. Has(x.data, 0 + h, q.body)
    <3>1. h + b <= L
      BY <1>2, <1>7
    <3> QED
      BY <1>2, <1>4, <1>8, <3>1, HasIn DEF L, b
  <2>2. 0 + h = h
    BY <1>4
  <2>3. SubSeq(x.data, h + 1, h + Len(q.body)) = q.body
    <3>1. Has(x.data, h, q.body)
      BY <2>1, <2>2
    <3>2. h \in Nat /\ q.body \in Seq(Octets)
      BY <1>4, <1>9
    <3> QED
      BY <3>1, <3>2, Cut
  <2> QED
    BY <1>3, <1>6, <2>3 DEF b
<1>12. Handled(x, n) = Meant(q)
  BY <1>3, <1>10, <1>11 DEF Handled, Meant
<1>13. Meant(q) \in Handlings
  <2>1. x.contentType \in Seq(Seq(Octets)) /\ q.uri \in Seq(Int) /\ q.body \in Seq(Int)
    BY <1>1, <1>9, OctetsAreInts DEF Sessions
  <2> QED
    BY <1>3, <2>1 DEF Handlings, Meant
<1>14. n = IF x.contentLength = <<>> THEN 0 ELSE x.contentLength[1]
  <2>1. CASE q.length = <<>>
    BY <1>3, <2>1 DEF n, BodyLength
  <2>2. CASE q.length # <<>>
    <3>1. x.contentLength = <<n>>
      BY <1>3, <2>2
    <3>2. <<n>> # <<>> /\ <<n>>[1] = n
      OBVIOUS
    <3> QED
      BY <3>1, <3>2
  <2> QED
    BY <2>1, <2>2
<1> QED
  BY <1>3, <1>7, <1>12, <1>13, <1>14 DEF n, L

\* The session that has handled a request of this length, and what it says
After(x, L, request, data, hasKeys) ==
  [x EXCEPT !.data = data, !.mark = x.position - L, !.position = x.limit - L, !.limit = Capacity,
            !.handled = Append(x.handled, request), !.sealed = Append(x.sealed, x.isSecured),
            !.hasKeys = hasKeys, !.state = "Writing"]

\* handle_http of a complete request, with what is done after it
LEMMA HandleHTTPFacts ==
  ASSUME NEW x \in Sessions, NEW n, n = IF x.contentLength = <<>> THEN 0 ELSE x.contentLength[1], IsComplete(x, n),
         NEW L, L = x.readerPosition + n
  PROVE  Kept(HandleHTTP(x)) =
           After(x, L, Handled(x, n), CopyBytes(x.data, 0, L, x.position - L), x.hasKeys \/ Handled(x, n).uri = PairVerify)
<1> DEFINE r == Handled(x, n)
           d == CopyBytes(x.data, 0, L, x.position - L)
           t == ShiftLeft(x, L)
           h == HandleHTTP(x)
           keys == x.hasKeys \/ r.uri = PairVerify
<1>1. t = [x EXCEPT !.data = d, !.position = x.position - L, !.limit = x.limit - L]
  BY DEF ShiftLeft, Sessions
<1>2. h = [t EXCEPT !.handled = Append(t.handled, r), !.sealed = Append(t.sealed, x.isSecured),
                    !.hasKeys = t.hasKeys \/ r.uri = PairVerify, !.state = "Writing"]
  BY DEF HandleHTTP
<1> HIDE DEF d, t, r, h
<1>3. t.handled = x.handled /\ t.sealed = x.sealed /\ t.hasKeys = x.hasKeys
  BY <1>1 DEF Sessions
<1>4. h = [t EXCEPT !.handled = Append(x.handled, r), !.sealed = Append(x.sealed, x.isSecured), !.hasKeys = keys, !.state = "Writing"]
  BY <1>2, <1>3
<1> HIDE DEF keys
<1>5. h = [x EXCEPT !.data = d, !.position = x.position - L, !.limit = x.limit - L,
                    !.handled = Append(x.handled, r), !.sealed = Append(x.sealed, x.isSecured), !.hasKeys = keys, !.state = "Writing"]
  BY <1>1, <1>4 DEF Sessions
<1>6. h.position = x.position - L /\ h.limit = x.limit - L /\ h.state = "Writing"
  BY <1>5 DEF Sessions
<1>7. Kept(h) = [h EXCEPT !.mark = x.position - L, !.position = x.limit - L, !.limit = Capacity, !.state = "Writing"]
  BY <1>6 DEF Kept
<1>8. Kept(h) = After(x, L, r, d, keys)
  BY <1>5, <1>7, ZenonT(60) DEF After, Sessions
<1> QED
  BY <1>8 DEF h, r, d, keys

\* What is behind a request that is discarded is moved to where it was.
LEMMA MovedBytes ==
  ASSUME NEW b \in [1 .. Capacity -> Int], NEW L \in Nat, NEW at \in Nat, L <= at, at <= Capacity, Capacity \in Nat
  PROVE  LET d == CopyBytes(b, 0, L, at - L)
         IN  d \in [1 .. Capacity -> Int] /\ \A k \in 1 .. at - L : d[k] = b[L + k]
<1> DEFINE d == CopyBytes(b, 0, L, at - L)
<1>1. \A k \in 1 .. Capacity : (k \in 0 + 1 .. 0 + (at - L) <=> k \in 1 .. at - L) /\ L + k - 0 = L + k
  OBVIOUS
<1>2. d = [k \in 1 .. Capacity |-> IF k \in 0 + 1 .. 0 + (at - L) THEN b[L + k - 0] ELSE b[k]]
  BY DEF CopyBytes
<1> HIDE DEF d
<1>3. \A k \in 1 .. at - L : L + k \in 1 .. Capacity /\ k \in 1 .. Capacity
  OBVIOUS
<1>4. \A k \in 1 .. Capacity : d[k] = IF k \in 1 .. at - L THEN b[L + k] ELSE b[k]
  BY <1>1, <1>2
<1>5. \A k \in 1 .. Capacity : d[k] \in Int
  BY <1>3, <1>4
<1>6. d \in [1 .. Capacity -> Int]
  BY <1>2, <1>5
<1>7. \A k \in 1 .. at - L : d[k] = b[L + k]
  BY <1>3, <1>4
<1> QED
  BY <1>6, <1>7 DEF d

\* Appending
LEMMA AppendFacts ==
  ASSUME NEW S, NEW t, t \in Seq(S), NEW e \in S
  PROVE  /\ Append(t, e) \in Seq(S) /\ Len(Append(t, e)) = Len(t) + 1
         /\ \A k \in 1 .. Len(t) : Append(t, e)[k] = t[k]
         /\ Append(t, e)[Len(t) + 1] = e
OBVIOUS

\* A request is handled: what is behind it is the beginning of the next one, unless a part of a
\* frame is there.
LEMMA HandledIsGood ==
  ASSUME NEW x, NEW cuts, NEW cipher, Ready(x, cuts, cipher), NEW i \in 0 .. 3, AtRest(NextOf(x), x, x.position, i),
         x.reader.state = "DONE", IsComplete(x, BodyLength(NextOf(x)))
  PROVE  Good(Kept(HandleHTTP(x))) \/ IsCutOff(Kept(HandleHTTP(x)))
<1> DEFINE q == NextOf(x)
           n == NumHandled(x)
           L == Len(Written(q))
           at == x.position
           d == CopyBytes(x.data, 0, L, at - L)
           keys == x.hasKeys \/ q.uri = PairVerify
           z == Kept(HandleHTTP(x))
           all == SentOf(x.script)
<1>1. /\ x \in Sessions /\ HandledWell(x) /\ x.state = "Reading" /\ x.numAnswered = n /\ n < x.numSent
      /\ Buffers(x, at, x.limit, cuts, cipher) /\ (x.isSecured <=> x.hasKeys)
  BY DEF Ready
<1>2. /\ IsRequest(q) /\ n \in 0 .. Len(all) - 1 /\ n + 1 \in 1 .. x.numSent
      /\ At(x.script, n + 1) = Base(x) + L /\ At(x.script, n + 1) <= At(x.script, x.numSent) /\ L \in Nat
  BY <1>1, NextFacts
<1>3. /\ x.script \in Scripts /\ Base(x) \in Nat /\ Capacity \in Nat /\ x.data \in [1 .. Capacity -> Int] /\ x.numSent \in Nat
      /\ x.position \in Nat /\ x.limit \in Nat /\ n \in Nat /\ Len(x.wire) \in Nat /\ At(x.script, x.numSent) \in Nat
      /\ at <= x.limit /\ x.limit <= Capacity /\ x.nonce \in Nat /\ x.sentNonce \in Nat
  BY <1>1, SessionTypes DEF Buffers
<1>4. /\ L = x.readerPosition + BodyLength(q) /\ L <= at /\ Handled(x, BodyLength(q)) = Meant(q) /\ Meant(q) \in Handlings
      /\ BodyLength(q) = IF x.contentLength = <<>> THEN 0 ELSE x.contentLength[1]
  BY HandledAsMeant
<1>5. z = After(x, L, Meant(q), d, keys)
  <2>1. Meant(q).uri = q.uri
    BY DEF Meant
  <2> QED
    BY <1>1, <1>4, <2>1, HandleHTTPFacts
<1>6. d \in [1 .. Capacity -> Int] /\ \A k \in 1 .. at - L : d[k] = x.data[L + k]
  <2>1. L \in Nat /\ at \in Nat /\ L <= at /\ at <= Capacity /\ Capacity \in Nat /\ x.data \in [1 .. Capacity -> Int]
    BY <1>2, <1>3, <1>4, SMTT(40)
  <2> HIDE DEF L, at
  <2> QED
    BY <2>1, MovedBytes
<1>23. at \in Nat /\ L \in Nat /\ L <= at /\ at <= x.limit /\ x.limit <= Capacity /\ Capacity \in Nat /\ x.limit \in Nat /\ Base(x) \in Nat
  BY <1>2, <1>3, <1>4
<1>7. keys \in BOOLEAN /\ at - L \in Nat /\ x.limit - L \in Nat
  <2>1. keys \in BOOLEAN
    OBVIOUS
  <2> HIDE DEF L, at
  <2> QED
    BY <1>23, <2>1
<1>8. /\ Append(x.handled, Meant(q)) \in Seq(Handlings) /\ Append(x.sealed, x.isSecured) \in Seq(BOOLEAN)
      /\ Len(Append(x.handled, Meant(q))) = n + 1 /\ Len(Append(x.sealed, x.isSecured)) = n + 1
      /\ \A k \in 1 .. n : Append(x.handled, Meant(q))[k] = x.handled[k] /\ Append(x.sealed, x.isSecured)[k] = x.sealed[k]
      /\ Append(x.handled, Meant(q))[n + 1] = Meant(q) /\ Append(x.sealed, x.isSecured)[n + 1] = x.isSecured
  <2>1. x.handled \in Seq(Handlings) /\ x.sealed \in Seq(BOOLEAN) /\ x.isSecured \in BOOLEAN
    BY <1>1 DEF Sessions
  <2>2. Len(x.handled) = n /\ Len(x.sealed) = n
    BY <1>1 DEF HandledWell, NumHandled
  <2> QED
    BY <1>4, <2>1, <2>2, AppendFacts
<1> HIDE DEF d, keys, z, L
<1> DEFINE handled == Append(x.handled, Meant(q))
           sealed == Append(x.sealed, x.isSecured)
<1>9. /\ handled \in Seq(Handlings) /\ sealed \in Seq(BOOLEAN) /\ Len(handled) = n + 1 /\ Len(sealed) = n + 1
      /\ \A k \in 1 .. n : handled[k] = x.handled[k] /\ sealed[k] = x.sealed[k]
      /\ handled[n + 1] = Meant(q) /\ sealed[n + 1] = x.isSecured
  BY <1>8
<1>10. z = [x EXCEPT !.data = d, !.mark = at - L, !.position = x.limit - L, !.limit = Capacity,
                     !.handled = handled, !.sealed = sealed, !.hasKeys = keys, !.state = "Writing"]
  BY <1>5 DEF After
<1> HIDE DEF handled, sealed
<1>11. /\ z \in Sessions /\ z.data = d /\ z.mark = at - L /\ z.position = x.limit - L /\ z.limit = Capacity
       /\ z.handled = handled /\ z.sealed = sealed /\ z.hasKeys = keys /\ z.state = "Writing"
       /\ z.script = x.script /\ z.numSent = x.numSent /\ z.wire = x.wire /\ z.sentNonce = x.sentNonce /\ z.nonce = x.nonce
       /\ z.numAnswered = x.numAnswered /\ z.isSecured = x.isSecured
  <2> HIDE DEF at
  <2> QED
    BY <1>1, <1>3, <1>6, <1>7, <1>9, <1>10, ZenonT(40) DEF Sessions
<1>24. z.isSecured => z.hasKeys
  <2>1. x.isSecured => keys
    BY <1>1 DEF keys
  <2> QED
    BY <1>11, <2>1
<1> HIDE DEF n
<1>12. NumHandled(z) = n + 1 /\ Base(z) = Base(x) + L
  BY <1>2, <1>9, <1>11 DEF NumHandled, Base
<1> SUFFICES ASSUME ~IsCutOff(z) PROVE Good(z)
  BY DEF z
<1>13. x.limit = at /\ z.mark = z.position /\ z.position <= Capacity
  <2>1. ~(z.mark < z.position)
    BY <1>11 DEF IsCutOff
  <2> HIDE DEF at
  <2> QED
    BY <1>11, <1>23, <2>1
<1>14. InPlain(x, at, at) \/ InSecure(x, at, at, cuts, cipher)
  BY <1>1, <1>13 DEF Buffers
<1>15. InPlain(x, at, at) => n + 1 <= Len(x.script.plain) /\ ~x.isSecured
  <2>1. InPlain(x, at, at) => x.numSent <= Len(x.script.plain) /\ ~x.hasKeys
    BY DEF InPlain
  <2>2. Len(x.script.plain) \in Nat
    BY <1>3, ScriptFacts
  <2> QED
    BY <1>1, <1>2, <1>3, <2>1, <2>2, SMTT(40)
<1>16. InSecure(x, at, at, cuts, cipher) => n >= Len(x.script.plain) /\ x.isSecured
  BY <1>1 DEF InSecure, n
<1>17. HandledWell(z)
  <2>1. n + 1 <= x.numSent /\ x.numSent <= Len(all)
    BY <1>1, <1>2, <1>3 DEF HandledWell
  <2>2. \A k \in 1 .. n : x.handled[k] = Meant(all[k]) /\ (x.sealed[k] <=> k > Len(x.script.plain))
    BY <1>1 DEF HandledWell, n
  <2>3. q = all[n + 1]
    BY DEF NextOf, n
  <2>4. \A k \in 1 .. n + 1 : k \in 1 .. n \/ k = n + 1
    BY <1>3
  <2>5. \A k \in 1 .. n + 1 : handled[k] = Meant(all[k])
    BY <1>9, <2>2, <2>3, <2>4
  <2>6. sealed[n + 1] <=> n + 1 > Len(x.script.plain)
    <3>1. Len(x.script.plain) \in Nat
      BY <1>3, ScriptFacts
    <3> QED
      BY <1>3, <1>9, <1>14, <1>15, <1>16, <3>1
  <2>7. \A k \in 1 .. n + 1 : sealed[k] <=> k > Len(x.script.plain)
    <3> SUFFICES ASSUME NEW k \in 1 .. n + 1 PROVE sealed[k] <=> k > Len(x.script.plain)
      OBVIOUS
    <3>1. CASE k \in 1 .. n
      BY <1>9, <2>2, <3>1
    <3>2. CASE k = n + 1
      BY <2>6, <3>2
    <3> QED
      BY <2>4, <3>1, <3>2
  <2> QED
    BY <1>9, <1>11, <1>12, <2>1, <2>5, <2>7 DEF HandledWell
<1>18. Follows(Stream(z.script), Base(z), z.data, 0, z.mark)
  <2> SUFFICES ASSUME NEW k \in 0 + 1 .. z.mark PROVE z.data[k] = Stream(z.script)[Base(z) + k - 0]
    BY DEF Follows
  <2>1. k \in 1 .. at - L /\ L + k \in 0 + 1 .. at /\ Base(x) + (L + k) - 0 = (Base(x) + L) + k - 0
    <3>1. k \in 1 .. at - L
      BY <1>11
    <3> HIDE DEF at
    <3> QED
      BY <1>23, <3>1
  <2>2. x.data[L + k] = Stream(x.script)[Base(x) + (L + k) - 0]
    BY <1>1, <2>1 DEF Buffers, Follows
  <2> QED
    BY <1>6, <1>11, <1>12, <2>1, <2>2
<1>19. Base(z) + z.mark = Base(x) + at /\ z.mark \in Nat /\ z.position \in Nat
  BY <1>2, <1>3, <1>7, <1>11, <1>12, <1>13
<1>20. CASE InSecure(x, at, at, cuts, cipher)
  <2>1. /\ x.hasKeys /\ n >= Len(x.script.plain) /\ AreFrames(x.script, cuts, cipher, x.numSent, x.sentNonce)
        /\ x.nonce <= x.sentNonce /\ Base(x) + at = cuts[x.nonce]
        /\ Follows(cipher, FrameAt(cuts, x.nonce) + at - at, x.wire, 0, Len(x.wire))
        /\ FrameAt(cuts, x.nonce) + at - at + Len(x.wire) = Len(cipher)
    BY <1>20 DEF InSecure, n
  <2>2. FrameAt(cuts, x.nonce) \in Int
    <3>1. x.nonce \in 0 .. x.sentNonce /\ 0 \in 0 .. x.sentNonce /\ cuts \in [0 .. x.sentNonce -> Nat]
      BY <1>3, <2>1 DEF AreFrames
    <3>2. cuts[x.nonce] \in Nat /\ cuts[0] \in Nat
      BY <3>1
    <3> QED
      BY <1>3, <3>2, SMTT(40) DEF FrameAt
  <2> DEFINE f == FrameAt(cuts, x.nonce)
  <2>3. f + at - at = f + z.mark - z.mark
    <3> HIDE DEF f, at
    <3> QED
      BY <1>3, <1>19, <2>2 DEF f, at
  <2>4. z.hasKeys /\ NumHandled(z) >= Len(z.script.plain)
    <3>1. Len(x.script.plain) \in Nat
      BY <1>3, ScriptFacts
    <3> QED
      <4>1. keys
        BY <2>1 DEF keys
      <4>2. n + 1 >= Len(x.script.plain)
        BY <1>3, <2>1, <3>1
      <4> QED
        BY <1>11, <1>12, <4>1, <4>2
  <2>5. Follows(cipher, f, z.data, z.mark, z.position)
    BY <1>13, <1>19 DEF Follows
  <2>6. InSecure(z, z.mark, z.position, cuts, cipher)
    BY <1>11, <1>13, <1>19, <2>1, <2>3, <2>4, <2>5 DEF InSecure
  <2>7. GoodWith(z, cuts, cipher)
    BY <1>11, <1>13, <1>18, <1>19, <2>6 DEF GoodWith, Buffers
  <2>8. IsExcused(z) /\ z.numAnswered = NumHandled(z) - 1
    BY <1>1, <1>3, <1>11, <1>12 DEF IsExcused, n
  <2> QED
    BY <1>11, <1>17, <1>24, <2>7, <2>8 DEF Good
<1>21. CASE InPlain(x, at, at) /\ q.uri # PairVerify
  <2>1. /\ ~x.hasKeys /\ x.nonce = 0 /\ x.sentNonce = 0 /\ x.numSent <= Len(x.script.plain)
        /\ Follows(Stream(x.script), Base(x) + at, x.wire, 0, Len(x.wire))
        /\ Base(x) + at + Len(x.wire) = At(x.script, x.numSent)
    BY <1>21 DEF InPlain
  <2>2. n + 1 = Len(x.script.plain) => Len(x.script.secure) = 0
    <3> SUFFICES ASSUME n + 1 = Len(x.script.plain), Len(x.script.secure) # 0 PROVE FALSE
      OBVIOUS
    <3>1. SentOf(x.script)[Len(x.script.plain)].uri = PairVerify
      BY <1>3, ScriptFacts
    <3> QED
      BY <1>21, <3>1 DEF NextOf, n
  <2>3. ~z.hasKeys
    BY <1>11, <1>21, <2>1 DEF keys
  <2>4. InPlain(z, z.mark, z.position)
    BY <1>11, <1>12, <1>13, <1>19, <2>1, <2>2, <2>3 DEF InPlain
  <2>5. GoodWith(z, cuts, cipher)
    BY <1>11, <1>13, <1>18, <1>19, <2>4 DEF GoodWith, Buffers
  <2>6. IsExcused(z) /\ z.numAnswered = NumHandled(z) - 1
    BY <1>1, <1>3, <1>11, <1>12 DEF IsExcused, n
  <2> QED
    BY <1>11, <1>17, <1>24, <2>5, <2>6 DEF Good
<1>22. CASE InPlain(x, at, at) /\ q.uri = PairVerify
  <2> DEFINE c == [k \in 0 .. 0 |-> At(x.script, Len(x.script.plain))]
  <2>1. /\ x.nonce = 0 /\ x.sentNonce = 0 /\ x.numSent <= Len(x.script.plain)
        /\ Base(x) + at + Len(x.wire) = At(x.script, x.numSent)
    BY <1>22 DEF InPlain
  <2>2. n + 1 = Len(x.script.plain) /\ x.numSent = n + 1
    <3>1. Len(x.script.plain) \in Nat /\ n + 1 \in 1 .. Len(x.script.plain)
      BY <1>2, <1>3, <2>1, ScriptFacts, SMTT(40)
    <3>2. SentOf(x.script)[n + 1].uri = PairVerify
      BY <1>22 DEF NextOf, n
    <3>3. n + 1 = Len(x.script.plain)
      BY <1>3, <3>1, <3>2, ScriptFacts
    <3> QED
      BY <1>2, <1>3, <2>1, <3>1, <3>3
  <2>3. z.mark = 0 /\ Len(z.wire) = 0
    <3> DEFINE w == Len(x.wire)
               e == Base(x)
    <3>1. e + at + w = e + L /\ e \in Nat /\ at \in Nat /\ w \in Nat /\ L \in Nat /\ L <= at
      BY <1>2, <1>3, <1>4, <2>1, <2>2
    <3> HIDE DEF w, e, at
    <3>2. at - L = 0 /\ w = 0
      BY <3>1
    <3> QED
      BY <1>11, <3>2 DEF w, at
  <2>4. AreFrames(x.script, c, <<>>, x.numSent, 0)
    <3>1. At(x.script, Len(x.script.plain)) \in Nat
      BY <1>3, <2>2
    <3>2. c \in [0 .. 0 -> Nat] /\ c[0] = At(x.script, Len(x.script.plain)) /\ c[0] - c[0] + 3 * 0 = 0
      BY <3>1
    <3>3. <<>> \in Seq(Int) /\ Len(<<>>) = 0 /\ 0 .. 0 - 1 = {}
      OBVIOUS
    <3> HIDE DEF c
    <3> QED
      BY <2>2, <3>2, <3>3 DEF AreFrames, FrameAt
  <2>5. c[0] = Base(z)
    BY <1>12, <2>2, <1>2
  <2>6. FrameAt(c, 0) = 0 /\ Base(z) \in Nat
    <3>1. c[0] \in Nat /\ Base(z) \in Nat
      BY <1>2, <1>3, <1>12, <2>5, SMTT(40)
    <3> QED
      BY <3>1 DEF FrameAt
  <2> HIDE DEF c
  <2>7. InSecure(z, 0, 0, c, <<>>)
    <3>1. z.hasKeys /\ NumHandled(z) >= Len(z.script.plain)
      <4>1. keys
        BY <1>22 DEF keys
      <4>2. n + 1 >= Len(x.script.plain)
        BY <1>3, <2>2
      <4> QED
        BY <1>11, <1>12, <4>1, <4>2
    <3>2. \A tape, b, v : Follows(tape, v, b, 0, 0)
      BY DEF Follows
    <3>3. 0 + 0 - 0 = 0 /\ 0 + 0 - 0 + 0 = Len(<<>>)
      OBVIOUS
    <3>4. z.nonce = 0 /\ z.sentNonce = 0 /\ Base(z) + 0 = c[0]
      BY <1>11, <2>1, <2>5, <2>6
    <3> QED
      BY <1>11, <2>3, <2>4, <2>6, <3>1, <3>2, <3>3, <3>4 DEF InSecure
  <2>8. GoodWith(z, c, <<>>)
    BY <1>3, <1>11, <1>13, <1>18, <2>3, <2>7 DEF GoodWith, Buffers
  <2>9. IsExcused(z) /\ z.numAnswered = NumHandled(z) - 1
    BY <1>1, <1>3, <1>11, <1>12 DEF IsExcused, n
  <2> QED
    BY <1>11, <1>17, <1>24, <2>8, <2>9 DEF Good
<1> QED
  BY <1>14, <1>20, <1>21, <1>22

-----------------------------------------------------------------------------
(* handle_input                                                            *)

\* The session that has read what arrived has handled a request or waits for more.
LEMMA ReadIsGood ==
  ASSUME NEW x, NEW cuts, NEW cipher, Ready(x, cuts, cipher), NEW i \in 0 .. 3, ReadingOf(NextOf(x), x, i),
         x.readerPosition <= x.position, x.reader.state \notin Stops \ {"DONE"}
  PROVE  Good(Interpreted(ReadHTTP(x))) \/ IsCutOff(Interpreted(ReadHTTP(x)))
<1> DEFINE q == NextOf(x)
           y == ReadHTTP(x)
<1>1. /\ x \in Sessions /\ HandledWell(x) /\ x.state = "Reading" /\ x.numAnswered = NumHandled(x) /\ NumHandled(x) < x.numSent
      /\ Buffers(x, x.position, x.limit, cuts, cipher) /\ NeedsMore(x, x.position, x.limit, cuts)
      /\ (x.isSecured <=> x.hasKeys)
  BY DEF Ready
<1>2. /\ IsRequest(q) /\ Has(Stream(x.script), Base(x), Written(q)) /\ Len(Written(q)) \in Nat /\ Base(x) \in Nat
      /\ x.position \in Nat /\ NumHandled(x) + 1 \in 1 .. x.numSent /\ NumHandled(x) \in Nat
  BY <1>1, NextFacts, SessionTypes
<1>3. Arrived(q, x.data, x.position)
  <2> SUFFICES ASSUME NEW k \in 1 .. x.position, k <= Len(Heading(q)) PROVE x.data[k] = Heading(q)[k]
    BY DEF Arrived
  <2>1. /\ Len(Written(q)) = Len(Heading(q)) + Len(q.body) /\ Len(Heading(q)) \in Nat /\ Len(q.body) \in Nat
        /\ Has(Written(q), 0, Heading(q))
    BY <1>2, WrittenFacts
  <2>2. \A m \in 0 + 1 .. x.position : x.data[m] = Stream(x.script)[Base(x) + m - 0]
    BY <1>1 DEF Buffers, Follows
  <2>3. k \in 0 + 1 .. x.position /\ Base(x) + k - 0 = Base(x) + k /\ 0 + k = k
    BY <1>2
  <2>4. \A m \in 1 .. Len(Written(q)) : Stream(x.script)[Base(x) + m] = Written(q)[m]
    BY <1>2, HasAt
  <2>5. \A m \in 1 .. Len(Heading(q)) : Written(q)[0 + m] = Heading(q)[m]
    BY <2>1, HasAt
  <2>6. k \in 1 .. Len(Written(q)) /\ k \in 1 .. Len(Heading(q))
    <3> DEFINE a == Len(Written(q))
               b == Len(Heading(q))
               c == Len(q.body)
    <3>1. a = b + c /\ b \in Nat /\ c \in Nat /\ k <= b /\ k \in Nat /\ k >= 1
      BY <1>2, <2>1
    <3> HIDE DEF a, b, c
    <3>2. k \in 1 .. a /\ k \in 1 .. b
      BY <3>1
    <3> QED
      BY <3>2 DEF a, b
  <2> QED
    BY <2>2, <2>3, <2>4, <2>5, <2>6
<1>4. RequestRead(q, x, y)
  BY <1>1, <1>2, <1>3, HTTPReads
<1>5. y \in Sessions /\ SameButReading(x, y) /\ y.readerPosition <= y.position
  BY <1>4 DEF RequestRead
<1> HIDE DEF y
<1>6. SameStream(x, y) /\ y.position = x.position /\ y.limit = x.limit /\ y.state = "Reading"
      /\ y.numAnswered = x.numAnswered /\ y.isSecured = x.isSecured /\ y.hasKeys = x.hasKeys /\ y.numSent = x.numSent
      /\ y.script = x.script
  BY <1>1, <1>5 DEF SameButReading, SameStream
<1>7. NumHandled(y) = NumHandled(x) /\ NextOf(y) = q /\ HandledWell(y) /\ Ready(y, cuts, cipher)
  BY <1>1, <1>5, <1>6, SameStreamFacts DEF Ready
<1>8. CASE y.parserError /\ IsRefused(q)
  <2> DEFINE z == Interpreted(y)
  <2>1. z = [y EXCEPT !.state = "Closed"]
    BY <1>6, <1>8 DEF Interpreted
  <2>2. /\ z \in Sessions /\ SameStream(y, z) /\ z.state = "Closed" /\ z.numAnswered = y.numAnswered
        /\ z.isSecured = y.isSecured /\ z.hasKeys = y.hasKeys /\ z.numSent = y.numSent /\ z.script = y.script
    BY <1>5, <2>1, ZenonT(40) DEF Sessions, SameStream
  <2> HIDE DEF z
  <2>3. NumHandled(z) = NumHandled(x) /\ HandledWell(z)
    BY <1>7, <2>2, SameStreamFacts
  <2>4. IsBad(SentOf(x.script)[NumHandled(x) + 1])
    BY <1>2, <1>8, RefusedIsBad DEF NextOf
  <2>5. IsExcused(z)
    <3>1. NumHandled(x) + 1 > NumHandled(x)
      BY <1>2
    <3> QED
      BY <1>2, <1>6, <2>2, <2>3, <2>4, <3>1 DEF IsExcused
  <2>6. z.numAnswered = NumHandled(z) - 0 /\ (z.isSecured => z.hasKeys)
    BY <1>1, <1>2, <1>6, <2>2, <2>3
  <2>7. Good(z)
    BY <2>2, <2>3, <2>5, <2>6 DEF Good
  <2> QED
    BY <2>7 DEF z, y
<1>9. CASE \E j \in 0 .. 3 : AtRest(q, y, y.position, j)
  <2>1. PICK j \in 0 .. 3 : AtRest(q, y, y.position, j)
    BY <1>9
  <2>2. ~y.parserError /\ y.reader.state # "ERROR"
    BY <1>2, <2>1, Places DEF AtRest, ReadingOf
  <2>3. Interpreted(y) = Kept(IF y.reader.state = "DONE" THEN HandleHTTP(y) ELSE y)
    BY <1>6, <2>2 DEF Interpreted
  <2>4. AtRest(NextOf(y), y, y.position, j)
    BY <1>7, <2>1
  <2>5. CASE y.reader.state # "DONE"
    BY <1>5, <1>7, <2>3, <2>4, <2>5, KeptIsGood DEF y
  <2>6. CASE y.reader.state = "DONE"
    <3> DEFINE n == BodyLength(q)
    <3>1. y.contentLength = (IF q.length = <<>> THEN <<>> ELSE <<n>>) /\ n \in Nat
      BY <1>2, <1>5, <2>1, <2>6, HeadingRead
    <3>2. n = IF y.contentLength = <<>> THEN 0 ELSE y.contentLength[1]
      <4>1. CASE q.length = <<>>
        BY <3>1, <4>1 DEF BodyLength
      <4>2. CASE q.length # <<>>
        <5>1. y.contentLength = <<n>>
          BY <3>1, <4>2
        <5> HIDE DEF n
        <5>2. <<n>> # <<>> /\ <<n>>[1] = n
          OBVIOUS
        <5> QED
          BY <5>1, <5>2
      <4> QED
        BY <4>1, <4>2
    <3>3. CASE IsComplete(y, n)
      <4>1. Good(Kept(HandleHTTP(y))) \/ IsCutOff(Kept(HandleHTTP(y)))
        BY <1>7, <2>4, <2>6, <3>3, HandledIsGood
      <4> QED
        BY <2>3, <2>6, <4>1 DEF y
    <3>4. CASE ~IsComplete(y, n)
      <4>1. HandleHTTP(y) = y
        BY <3>2, <3>4 DEF HandleHTTP
      <4>2. y.position - y.readerPosition < n
        <5>1. y.position \in Nat /\ y.readerPosition \in Nat
          BY <1>5 DEF Sessions
        <5> HIDE DEF n
        <5> QED
          BY <1>5, <3>1, <3>4, <5>1 DEF IsComplete
      <4>3. Good(Kept(y))
        BY <1>5, <1>7, <2>4, <4>2, KeptIsGood
      <4> QED
        BY <2>3, <2>6, <4>1, <4>3 DEF y
    <3> QED
      BY <3>3, <3>4
  <2> QED
    BY <2>5, <2>6
<1> QED
  BY <1>4, <1>8, <1>9 DEF RequestRead

\* handle_input, of a session that is not at its end
LEMMA InputIsGood ==
  ASSUME NEW x \in Sessions, HandledWell(x), x.state = "Reading", x.numAnswered = NumHandled(x), NumHandled(x) < x.numSent,
         x.isSecured => x.hasKeys, x.mark <= x.position,
         NEW cuts, NEW cipher, Buffers(x, IF x.hasKeys THEN x.mark ELSE x.position, x.position, cuts, cipher),
         NEW i \in 0 .. 3, ReadingOf(NextOf(x), x, i), x.readerPosition <= x.mark, x.reader.state \notin Stops \ {"DONE"}
  PROVE  Good(HandleInput(x)) \/ IsCutOff(HandleInput(x))
<1> DEFINE limited == [x EXCEPT !.limit = x.position]
<1>1. x.position \in Nat /\ x.mark \in Nat /\ x.readerPosition \in Nat /\ x.position <= Capacity /\ x.mark <= x.position
  BY SessionTypes DEF Buffers
<1>2. /\ limited \in Sessions /\ SameStream(x, limited) /\ SameReader(x, limited) /\ limited.limit = x.position
      /\ limited.position = x.position /\ limited.state = "Reading" /\ limited.numAnswered = x.numAnswered
      /\ limited.isSecured = x.isSecured /\ limited.hasKeys = x.hasKeys /\ limited.numSent = x.numSent
      /\ limited.readerPosition = x.readerPosition /\ limited.reader = x.reader
  BY <1>1 DEF Sessions, SameStream, SameReader
<1>3. CASE ~x.hasKeys
  <2>1. HandleInput(x) = Interpreted(ReadHTTP(limited))
    <3>1. HandleInput(x) = Decrypted(limited)
      BY <1>3 DEF HandleInput
    <3> QED
      BY <1>2, <3>1 DEF Decrypted
  <2> HIDE DEF limited
  <2>2. Buffers(x, x.position, x.position, cuts, cipher)
    BY <1>3
  <2>3. x.nonce = 0 /\ x.sentNonce = 0
    BY <1>3, <2>2 DEF Buffers, InPlain, InSecure
  <2>4. NeedsMore(x, x.position, x.position, cuts)
    BY <2>3 DEF NeedsMore
  <2>5. Ready(limited, cuts, cipher) /\ NextOf(limited) = NextOf(x)
    BY <1>2, <1>3, <2>2, <2>4, SameStreamFacts DEF Ready
  <2>6. ReadingOf(NextOf(limited), limited, i)
    BY <1>2, <2>5, SameReaderFacts
  <2>7. limited.readerPosition <= limited.position /\ limited.reader.state \notin Stops \ {"DONE"}
    BY <1>1, <1>2
  <2>8. Good(Interpreted(ReadHTTP(limited))) \/ IsCutOff(Interpreted(ReadHTTP(limited)))
    BY <2>5, <2>6, <2>7, ReadIsGood
  <2> QED
    BY <2>1, <2>8
<1>4. CASE x.hasKeys
  <2> DEFINE w == [limited EXCEPT !.isSecured = TRUE, !.position = x.mark]
             y == DecryptData(w)
  <2>1. HandleInput(x) = Decrypted(y)
    BY <1>4 DEF HandleInput
  <2>2. /\ w \in Sessions /\ SameStream(x, w) /\ SameReader(x, w) /\ w.limit = x.position
        /\ w.position = x.mark /\ w.state = "Reading" /\ w.numAnswered = x.numAnswered
        /\ w.isSecured = TRUE /\ w.hasKeys = x.hasKeys /\ w.numSent = x.numSent
        /\ w.readerPosition = x.readerPosition /\ w.reader = x.reader
    <3> HIDE DEF limited
    <3>1. /\ w \in Sessions /\ SameStream(limited, w) /\ SameReader(limited, w) /\ w.limit = limited.limit
          /\ w.position = x.mark /\ w.state = limited.state /\ w.numAnswered = limited.numAnswered
          /\ w.isSecured = TRUE /\ w.hasKeys = limited.hasKeys /\ w.numSent = limited.numSent
          /\ w.readerPosition = limited.readerPosition /\ w.reader = limited.reader
      BY <1>1, <1>2 DEF Sessions, SameStream, SameReader
    <3> HIDE DEF w
    <3> QED
      BY <1>2, <3>1 DEF SameStream, SameReader
  <2> HIDE DEF limited, w, y
  <2>3. /\ NumHandled(w) = NumHandled(x) /\ HandledWell(w) /\ NextOf(w) = NextOf(x) /\ Buffers(w, w.position, w.limit, cuts, cipher)
    BY <1>4, <2>2, SameStreamFacts
  <2>4. InSecure(w, w.position, w.limit, cuts, cipher)
    BY <1>4, <2>2, <2>3 DEF Buffers, InPlain
  <2>5. Deciphers(w, cuts, cipher)
    BY <1>1, <2>2, <2>3, <2>4 DEF Deciphers, InSecure, Buffers, HandledWell
  <2>6. Decrypts(w, y, cuts, cipher) /\ IsShort(y, cuts)
    BY <2>2, <2>5, DataDecrypts DEF y
  <2>7. y \in Sessions /\ Deciphers(y, cuts, cipher) /\ SameButDecrypting(w, y) /\ y.position >= w.position
    BY <2>6 DEF Decrypts
  <2>8. /\ y.script = w.script /\ y.numSent = x.numSent /\ y.numAnswered = x.numAnswered /\ y.state = "Reading" /\ y.hasKeys
        /\ y.isSecured /\ y.handled = w.handled /\ y.sealed = w.sealed /\ y.readerPosition = x.readerPosition /\ y.reader = x.reader
        /\ SameReader(w, y)
    BY <1>4, <2>2, <2>7 DEF SameButDecrypting, SameReader
  <2>9. NumHandled(y) = NumHandled(x) /\ NextOf(y) = NextOf(x) /\ HandledWell(y) /\ w.numSent = y.numSent
    <3>1. NumHandled(y) = NumHandled(w) /\ w.numSent = y.numSent
      BY <2>2, <2>8 DEF NumHandled
    <3>2. NextOf(y) = NextOf(w) /\ HandledWell(y)
      BY <2>3, <2>8, <3>1 DEF NextOf, HandledWell
    <3> QED
      BY <2>3, <3>1, <3>2
  <2>10. Ready(y, cuts, cipher)
    <3>1. y.position \in Nat /\ y.limit \in Nat /\ NumHandled(y) >= Len(y.script.plain)
      BY <2>4, <2>7, <2>8 DEF Sessions, InSecure, NumHandled
    <3>2. Buffers(y, y.position, y.limit, cuts, cipher)
      BY <2>7, <2>8, <3>1 DEF Deciphers, Buffers, InSecure
    <3>3. NeedsMore(y, y.position, y.limit, cuts)
      BY <2>6 DEF IsShort, NeedsMore
    <3> QED
      BY <2>7, <2>8, <2>9, <3>2, <3>3 DEF Ready
  <2>11. ReadingOf(NextOf(y), y, i)
    BY <2>2, <2>8, <2>9, SameReaderFacts
  <2>12. y.readerPosition <= y.position /\ y.reader.state \notin Stops \ {"DONE"}
    <3>1. y.position \in Nat
      BY <2>7 DEF Sessions
    <3> QED
      BY <1>1, <2>2, <2>7, <2>8, <3>1
  <2>13. Good(Interpreted(ReadHTTP(y))) \/ IsCutOff(Interpreted(ReadHTTP(y)))
    BY <2>10, <2>11, <2>12, ReadIsGood
  <2>14. Decrypted(y) = Interpreted(ReadHTTP(y))
    BY <2>8 DEF Decrypted
  <2> QED
    BY <2>1, <2>13, <2>14
<1> QED
  BY <1>3, <1>4

-----------------------------------------------------------------------------
(* The invariant holds at the beginning, and when something arrives or has *)
(* been sent.                                                              *)

\* A session that is about to read a request
LEMMA PreparedReading ==
  ASSUME NEW q, IsRequest(q), NEW x, IsPrepared(x)
  PROVE  ReadingOf(q, x, 0) /\ x.reader.state = "EXPECTING_METHOD" /\ x.reader.state \notin Stops \ {"DONE"}
<1>1. /\ x.reader = Reader("EXPECTING_METHOD", "NONE") /\ x.readerPosition = 0 /\ x.reader.state = "EXPECTING_METHOD"
      /\ x.tokens = NoTokens /\ x.contentLength = <<>> /\ x.contentType = <<>> /\ ~x.parserError
  BY DEF IsPrepared, InitialReader, Reader
<1>2. Place(q, Reader("EXPECTING_METHOD", "NONE"), 0, 0)
  BY DEF Place, InRequestLine
<1>3. \A name \in TokenNames : NoTokens[name] = Found(q, "EXPECTING_METHOD", 0, 0, name)
  BY DEF NoTokens, Found, Part, InHeaders, InValues, TokenNames
<1>4. LinesRead(q, "EXPECTING_METHOD", 0) = {}
  BY DEF LinesRead, IsRead
<1>5. KnownLength(q, {}) = <<>> /\ KnownType(q, {}) = <<>> /\ Accepted(q, {})
  BY DEF KnownLength, KnownType, Accepted
<1>6. Settled("EXPECTING_METHOD") = "EXPECTING_METHOD" /\ "EXPECTING_METHOD" \notin Stops
  BY DEF Settled, Stops
<1>7. ReadingOf(q, x, 0)
  BY <1>1, <1>2, <1>3, <1>4, <1>5, <1>6 DEF ReadingOf
<1> QED
  BY <1>1, <1>6, <1>7

\* No frame is empty.
LEMMA FrameEnds ==
  ASSUME NEW script, NEW cuts, NEW cipher, NEW numSent, NEW num \in Nat, AreFrames(script, cuts, cipher, numSent, num),
         NEW i \in 0 .. num - 1
  PROVE  /\ cuts[i] \in Nat /\ cuts[i + 1] \in Nat /\ cuts[i] < cuts[i + 1]
         /\ FrameAt(cuts, i) \in Nat /\ FrameAt(cuts, i + 1) <= Len(cipher)
         /\ FrameAt(cuts, i + 1) = FrameAt(cuts, i) + (cuts[i + 1] - cuts[i]) + 3
<1>1. IsFrame(script, cuts, cipher, i) /\ cuts \in [0 .. num -> Nat] /\ i \in 0 .. num /\ i + 1 \in 0 .. num /\ 0 \in 0 .. num
  BY DEF AreFrames
<1>2. cuts[i] \in Nat /\ cuts[i + 1] \in Nat /\ cuts[0] \in Nat
  BY <1>1
<1>3. /\ cuts[i + 1] - cuts[i] \in 1 .. MaxFrameBytes /\ MaxFrameBytes \in Nat
      /\ FrameAt(cuts, i) \in Nat /\ FrameAt(cuts, i + 1) <= Len(cipher)
  BY <1>1, IPSessionInputAssumption DEF IsFrame
<1>4. FrameAt(cuts, i + 1) = FrameAt(cuts, i) + (cuts[i + 1] - cuts[i]) + 3
  <2> DEFINE a == cuts[i]
             b == cuts[i + 1]
             z == cuts[0]
             v == FrameAt(cuts, i)
             w == FrameAt(cuts, i + 1)
  <2>1. v = a - z + 3 * i /\ w = b - z + 3 * (i + 1)
    BY DEF FrameAt
  <2>2. a \in Nat /\ b \in Nat /\ z \in Nat /\ i \in Nat
    BY <1>2
  <2> HIDE DEF a, b, z, v, w
  <2>3. w = v + (b - a) + 3
    BY <2>1, <2>2
  <2> QED
    BY <2>3 DEF a, b, v, w
<1> QED
  BY <1>2, <1>3, <1>4

\* A session that is empty needs more.
LEMMA EmptyNeedsMore ==
  ASSUME NEW x \in Sessions, HandledWell(x), NEW at, NEW end, at = end, NEW cuts, NEW cipher, Buffers(x, at, end, cuts, cipher)
  PROVE  NeedsMore(x, at, end, cuts)
<1> SUFFICES ASSUME x.nonce < x.sentNonce PROVE end - at < cuts[x.nonce + 1] - cuts[x.nonce] + 3
  BY DEF NeedsMore
<1>1. x.nonce \in Nat /\ x.sentNonce \in Nat /\ end - at = 0
  BY SessionTypes DEF Buffers
<1>2. AreFrames(x.script, cuts, cipher, x.numSent, x.sentNonce)
  BY <1>1 DEF Buffers, InPlain, InSecure
<1>3. cuts[x.nonce] \in Nat /\ cuts[x.nonce + 1] \in Nat /\ cuts[x.nonce] < cuts[x.nonce + 1]
  BY <1>1, <1>2, FrameEnds
<1> QED
  BY <1>1, <1>3

\* The invariant: a session is good until what is behind a request is lost.
Inv == lost \/ Good(s)

\* A session that has been accepted is good.
LEMMA InitGood == SessionInit => Inv
<1> SUFFICES ASSUME SessionInit PROVE Good(s)
  BY DEF Inv
<1>1. PICK script \in Scripts :
        s = Prepared([script |-> script, numSent |-> 0, wire |-> <<>>, sentNonce |-> 0, numAnswered |-> 0,
                      state |-> "Reading", hasKeys |-> FALSE, isSecured |-> FALSE, nonce |-> 0,
                      data |-> [k \in 1 .. Capacity |-> 0], position |-> 0, limit |-> Capacity, mark |-> 0,
                      reader |-> InitialReader, readerPosition |-> 0, parserError |-> FALSE,
                      tokens |-> NoTokens, contentLength |-> <<>>, contentType |-> <<>>,
                      handled |-> <<>>, sealed |-> <<>>])
  BY DEF SessionInit, SessionOf
<1>2. InitialReader \in Readers /\ NoTokens \in [TokenNames -> Tokens] /\ Capacity \in Nat
  BY IPSessionInputAssumption DEF InitialReader, Reader, Readers, ReaderStates, Substates, NoTokens, Tokens
<1>3. [k \in 1 .. Capacity |-> 0] \in [1 .. Capacity -> Int]
  OBVIOUS
<1> DEFINE data == [k \in 1 .. Capacity |-> 0]
<1> HIDE DEF data
<1>4. s = [script |-> script, numSent |-> 0, wire |-> <<>>, sentNonce |-> 0, numAnswered |-> 0,
           state |-> "Reading", hasKeys |-> FALSE, isSecured |-> FALSE, nonce |-> 0,
           data |-> data, position |-> 0, limit |-> Capacity, mark |-> 0,
           reader |-> InitialReader, readerPosition |-> 0, parserError |-> FALSE,
           tokens |-> NoTokens, contentLength |-> <<>>, contentType |-> <<>>,
           handled |-> <<>>, sealed |-> <<>>]
  BY <1>1 DEF Prepared, data
<1>5. data \in [1 .. Capacity -> Int]
  BY <1>3 DEF data
<1>6. s \in Sessions
  BY <1>2, <1>4, <1>5 DEF Sessions
<1>7. /\ s.script = script /\ s.numSent = 0 /\ s.wire = <<>> /\ s.sentNonce = 0 /\ s.numAnswered = 0 /\ s.state = "Reading"
      /\ s.hasKeys = FALSE /\ s.isSecured = FALSE /\ s.nonce = 0 /\ s.position = 0 /\ s.limit = Capacity /\ s.mark = 0
      /\ s.handled = <<>> /\ s.sealed = <<>> /\ IsPrepared(s)
  BY <1>4 DEF IsPrepared
<1>8. NumHandled(s) = 0 /\ Len(s.sealed) = 0 /\ Len(s.wire) = 0
  BY <1>7 DEF NumHandled
<1>9. HandledWell(s)
  <2>1. Len(SentOf(script)) \in Nat
    BY ScriptFacts
  <2> QED
    BY <1>7, <1>8, <2>1 DEF HandledWell
<1>10. InPlain(s, 0, 0)
  <2>1. Len(script.plain) \in Nat /\ Len(script.secure) \in Nat /\ (Len(script.secure) # 0 => Len(script.plain) # 0)
    BY ScriptFacts
  <2>2. At(script, 0) = 0
    BY StreamFacts
  <2>3. \A tape, at, b : Follows(tape, at, b, 0, 0)
    BY DEF Follows
  <2>4. Base(s) + 0 + Len(s.wire) = At(script, 0)
    BY <1>7, <1>8, <2>2 DEF Base
  <2> QED
    BY <1>7, <1>8, <2>1, <2>3, <2>4 DEF InPlain
<1>11. Buffers(s, 0, 0, <<>>, <<>>)
  <2>1. \A tape, at, b : Follows(tape, at, b, 0, 0)
    BY DEF Follows
  <2> QED
    BY <1>2, <1>10, <2>1 DEF Buffers
<1>12. NeedsMore(s, 0, 0, <<>>) /\ Waits(s, 0)
  BY <1>7, <1>8 DEF NeedsMore, Waits
<1>13. GoodWith(s, <<>>, <<>>)
  BY <1>7, <1>11, <1>12 DEF GoodWith
<1> QED
  BY <1>6, <1>7, <1>8, <1>9, <1>13 DEF Good, IsExcused

\* What has arrived is behind what there was.
LEMMA ArrivedFollows ==
  ASSUME NEW tape, NEW at \in Nat, NEW from \in Nat, NEW end \in Nat, from <= end, NEW size \in Nat, NEW b \in [1 .. size -> Int],
         NEW wire, wire \in Seq(Int), NEW n \in 1 .. Len(wire), end + n <= size,
         Follows(tape, at, b, from, end), Follows(tape, at + end - from, wire, 0, Len(wire))
  PROVE  LET c == [k \in DOMAIN b |-> IF k \in end + 1 .. end + n THEN wire[k - end] ELSE b[k]]
             left == SubSeq(wire, n + 1, Len(wire))
         IN  /\ c \in [1 .. size -> Int] /\ left \in Seq(Int) /\ Len(left) = Len(wire) - n
             /\ \A k \in 1 .. end : c[k] = b[k]
             /\ Follows(tape, at, c, from, end + n)
             /\ Follows(tape, at + (end + n) - from, left, 0, Len(left))
<1> DEFINE c == [k \in DOMAIN b |-> IF k \in end + 1 .. end + n THEN wire[k - end] ELSE b[k]]
           left == SubSeq(wire, n + 1, Len(wire))
           W == Len(wire)
<1>1. W \in Nat /\ n \in 1 .. W /\ \A k \in 1 .. W : wire[k] \in Int
  OBVIOUS
<1>2. c = [k \in 1 .. size |-> IF k \in end + 1 .. end + n THEN wire[k - end] ELSE b[k]]
  OBVIOUS
<1>3. left \in Seq(Int) /\ Len(left) = W - n /\ \A k \in 1 .. W - n : left[k] = wire[n + k]
  <2>1. /\ left \in Seq(Int) /\ Len(left) = (IF n + 1 <= W THEN W - (n + 1) + 1 ELSE 0)
        /\ \A k \in 1 .. W - (n + 1) + 1 : left[k] = wire[(n + 1) + k - 1]
    <3>1. n + 1 \in 1 .. W + 1 /\ W \in 0 .. W
      BY <1>1
    <3> QED
      BY <3>1, SubSeqProperties, SMTT(40)
  <2> HIDE DEF left, W
  <2>2. W - (n + 1) + 1 = W - n /\ (~(n + 1 <= W) => W - n = 0) /\ \A k \in 1 .. W - n : (n + 1) + k - 1 = n + k
    BY <1>1
  <2> QED
    BY <2>1, <2>2
<1> HIDE DEF c, left, W
<1>4. \A k \in 1 .. size : k \in end + 1 .. end + n => k - end \in 1 .. W
  BY <1>1
<1>5. \A k \in 1 .. size : c[k] = IF k \in end + 1 .. end + n THEN wire[k - end] ELSE b[k]
  BY <1>2
<1>6. \A k \in 1 .. size : c[k] \in Int
  BY <1>1, <1>4, <1>5
<1>7. c \in [1 .. size -> Int]
  BY <1>2, <1>6
<1>8. \A k \in 1 .. end : c[k] = b[k]
  <2>1. \A k \in 1 .. end : k \in 1 .. size /\ k \notin end + 1 .. end + n
    BY <1>1
  <2> QED
    BY <1>5, <2>1
<1>9. \A k \in 1 .. W : wire[k] = tape[at + end - from + k - 0]
  <2>1. \A k \in 0 + 1 .. W : wire[k] = tape[at + end - from + k - 0]
    BY DEF Follows, W
  <2> QED
    BY <2>1
<1>10. Follows(tape, at, c, from, end + n)
  <2> SUFFICES ASSUME NEW k \in from + 1 .. end + n PROVE c[k] = tape[at + k - from]
    BY DEF Follows
  <2>1. CASE k <= end
    <3>1. k \in from + 1 .. end /\ k \in 1 .. end
      BY <2>1
    <3> QED
      BY <1>8, <3>1 DEF Follows
  <2>2. CASE k > end
    <3>1. k \in 1 .. size /\ k \in end + 1 .. end + n /\ k - end \in 1 .. W /\ at + end - from + (k - end) - 0 = at + k - from
      BY <1>1, <2>2
    <3> QED
      BY <1>5, <1>9, <3>1
  <2> QED
    BY <1>1, <2>1, <2>2
<1>11. Follows(tape, at + (end + n) - from, left, 0, Len(left))
  <2> SUFFICES ASSUME NEW k \in 1 .. W - n PROVE left[k] = tape[at + (end + n) - from + k - 0]
    <3>1. 0 + 1 .. Len(left) = 1 .. W - n
      BY <1>3
    <3> QED
      BY <3>1 DEF Follows
  <2>1. n + k \in 1 .. W /\ at + end - from + (n + k) - 0 = at + (end + n) - from + k - 0
    BY <1>1
  <2> QED
    BY <1>3, <1>9, <2>1
<1> QED
  BY <1>3, <1>7, <1>8, <1>10, <1>11 DEF c, left, W

\* It stays good when bytes arrive,
LEMMA ReadInboundDataGood ==
  ASSUME Inv, ReadInboundData
  PROVE  Inv'
<1> SUFFICES ASSUME ~lost PROVE lost' \/ Good(s')
  BY ZenonT(40) DEF Inv, ReadInboundData
<1>1. Good(s) /\ s.state = "Reading"
  BY DEF Inv, ReadInboundData
<1> DEFINE Data(n) == [k \in DOMAIN s.data |->
                         IF k \in s.position + 1 .. s.position + n THEN s.wire[k - s.position] ELSE s.data[k]]
           Taken2(n) == SubSeq(s.wire, n + 1, Len(s.wire))
<1>2. PICK n \in 1 .. Len(s.wire) :
        /\ n <= s.limit - s.position
        /\ s' = HandleInput([s EXCEPT !.data = Data(n), !.position = @ + n, !.wire = Taken2(n)])
  BY ZenonT(40) DEF ReadInboundData
<1> DEFINE data == Data(n)
           left == Taken2(n)
           x == [s EXCEPT !.data = data, !.position = @ + n, !.wire = left]
<1>3. PICK cuts, cipher : GoodWith(s, cuts, cipher)
  BY <1>1 DEF Good
<1>4. /\ s \in Sessions /\ HandledWell(s) /\ s.numAnswered = NumHandled(s) /\ (s.isSecured => s.hasKeys)
      /\ s.limit = Capacity /\ Buffers(s, s.mark, s.position, cuts, cipher) /\ Waits(s, s.mark)
  <2>1. NumHandled(s) - 0 = NumHandled(s)
    BY <1>1, SessionTypes DEF Good
  <2> QED
    BY <1>1, <1>3, <2>1 DEF Good, GoodWith
<1>5. /\ s.position \in Nat /\ s.mark \in Nat /\ s.mark <= s.position /\ Capacity \in Nat /\ s.data \in [1 .. Capacity -> Int]
      /\ s.wire \in Seq(Int) /\ Len(s.wire) \in Nat /\ n \in Nat /\ s.position + n <= Capacity /\ Base(s) \in Nat
      /\ NumHandled(s) \in Nat /\ s.numSent \in Nat /\ s.nonce \in Nat /\ s.sentNonce \in Nat /\ s.script \in Scripts
      /\ s.position + n \in Nat /\ s.position <= s.position + n
  <2>1. /\ s.mark \in Nat /\ s.position \in Nat /\ Capacity \in Nat /\ s.data \in [1 .. Capacity -> Int]
        /\ s.wire \in Seq(Int) /\ Len(s.wire) \in Nat /\ Base(s) \in Nat
        /\ NumHandled(s) \in Nat /\ s.numSent \in Nat /\ s.nonce \in Nat /\ s.sentNonce \in Nat /\ s.script \in Scripts
    BY <1>4, SessionTypes
  <2>2. s.mark <= s.position /\ n <= s.limit - s.position /\ s.limit = Capacity
    BY <1>2, <1>4 DEF Buffers
  <2> DEFINE w == Len(s.wire)
  <2>3. n \in 1 .. w /\ w \in Nat
    BY <2>1
  <2> HIDE DEF w
  <2>4. n \in Nat
    BY <2>3
  <2>5. s.position + n <= Capacity /\ s.position + n \in Nat /\ s.position <= s.position + n
    <3> DEFINE p == s.position
               l == Capacity
    <3>1. p \in Nat /\ l \in Nat
      BY <2>1
    <3>2. n <= l - p
      BY <2>2
    <3> HIDE DEF p, l
    <3>3. p + n <= l /\ p + n \in Nat /\ p <= p + n
      BY <2>4, <3>1, <3>2
    <3> QED
      BY <3>3 DEF p, l
  <2> QED
    BY <2>1, <2>2, <2>4, <2>5
<1>6. NumHandled(s) < s.numSent
  <2>1. NumHandled(s) # s.numSent
    BY <1>2, <1>4, <1>5, NothingLeft
  <2> QED
    BY <1>4, <1>5, <2>1 DEF HandledWell
<1>7. PICK i \in 0 .. 3 : AtRest(NextOf(s), s, s.mark, i)
  BY <1>4, <1>5, <1>6 DEF Waits
<1>8. s.readerPosition <= s.mark
  BY <1>4, <1>5, <1>6 DEF Waits
<1> DEFINE at == IF s.hasKeys THEN s.mark ELSE s.position
           tape == IF s.hasKeys THEN cipher ELSE Stream(s.script)
           by == IF s.hasKeys THEN FrameAt(cuts, s.nonce) ELSE Base(s) + s.position
<1>9. /\ at \in Nat /\ at <= s.position /\ by \in Nat
      /\ Follows(tape, by, s.data, at, s.position) /\ Follows(tape, by + s.position - at, s.wire, 0, Len(s.wire))
  <2>1. CASE s.hasKeys
    <3>1. InSecure(s, s.mark, s.position, cuts, cipher)
      BY <1>4, <2>1 DEF Buffers, InPlain
    <3>2. FrameAt(cuts, s.nonce) \in Nat
      <4>1. AreFrames(s.script, cuts, cipher, s.numSent, s.sentNonce) /\ s.nonce <= s.sentNonce
        BY <3>1 DEF InSecure
      <4>2. CASE s.nonce < s.sentNonce
        <5>1. s.nonce \in 0 .. s.sentNonce - 1
          BY <1>5, <4>2
        <5> QED
          BY <1>5, <4>1, <5>1, FrameEnds
      <4>3. CASE s.nonce = s.sentNonce
        <5>1. Len(cipher) = FrameAt(cuts, s.nonce) /\ cipher \in Seq(Int)
          BY <4>1, <4>3 DEF AreFrames
        <5>2. Len(cipher) \in Nat
          BY <5>1
        <5> QED
          BY <5>1, <5>2
      <4> QED
        BY <1>5, <4>1, <4>2, <4>3
    <3>3. at = s.mark /\ tape = cipher /\ by = FrameAt(cuts, s.nonce)
      BY <2>1
    <3>4. /\ Follows(cipher, FrameAt(cuts, s.nonce), s.data, s.mark, s.position)
          /\ Follows(cipher, FrameAt(cuts, s.nonce) + s.position - s.mark, s.wire, 0, Len(s.wire))
      BY <3>1 DEF InSecure
    <3>5. s.mark \in Nat /\ s.mark <= s.position
      BY <1>5
    <3> HIDE DEF at, tape, by
    <3>6. /\ Follows(tape, by, s.data, at, s.position) /\ Follows(tape, by + s.position - at, s.wire, 0, Len(s.wire))
      BY <3>3, <3>4, Zenon
    <3> QED
      BY <3>2, <3>3, <3>5, <3>6
  <2>2. CASE ~s.hasKeys
    <3>1. InPlain(s, s.mark, s.position)
      BY <1>4, <2>2 DEF Buffers, InSecure
    <3>3. Follows(tape, by, s.data, s.position, s.position)
      <4>1. \A k \in s.position + 1 .. s.position : FALSE
        BY <1>5
      <4> QED
        BY <4>1 DEF Follows
    <3>5. at = s.position /\ tape = Stream(s.script) /\ by = Base(s) + s.position
      BY <2>2
    <3>9. s.position \in Nat /\ Base(s) \in Nat
      BY <1>5
    <3>6. by \in Nat /\ at \in Nat /\ at <= s.position
      <4> HIDE DEF at, tape, by
      <4>1. s.position <= s.position /\ Base(s) + s.position \in Nat
        BY <3>9
      <4> QED
        BY <3>5, <3>9, <4>1
    <3>4. Follows(Stream(s.script), Base(s) + s.position, s.wire, 0, Len(s.wire))
      BY <3>1 DEF InPlain
    <3> HIDE DEF at, tape, by
    <3>7. by + s.position - at = by
      BY <3>5, <3>6, <3>9
    <3>8. Follows(tape, by + s.position - at, s.wire, 0, Len(s.wire))
      BY <3>4, <3>5, <3>7
    <3> QED
      BY <3>3, <3>5, <3>6, <3>8
  <2> QED
    BY <2>1, <2>2
<1> HIDE DEF at, tape, by
<1>10. /\ data \in [1 .. Capacity -> Int] /\ left \in Seq(Int) /\ Len(left) = Len(s.wire) - n
       /\ \A k \in 1 .. s.position : data[k] = s.data[k]
       /\ Follows(tape, by, data, at, s.position + n)
       /\ Follows(tape, by + (s.position + n) - at, left, 0, Len(left))
  BY <1>5, <1>9, ArrivedFollows
<1> HIDE DEF data, left, Data, Taken2
<1>11. /\ x \in Sessions /\ x.data = data /\ x.position = s.position + n /\ x.wire = left /\ x.mark = s.mark
       /\ x.script = s.script /\ x.numSent = s.numSent /\ x.sentNonce = s.sentNonce /\ x.nonce = s.nonce /\ x.hasKeys = s.hasKeys
       /\ x.handled = s.handled /\ x.sealed = s.sealed /\ x.state = "Reading" /\ x.numAnswered = s.numAnswered
       /\ x.isSecured = s.isSecured /\ SameReader(s, x)
  BY <1>1, <1>4, <1>5, <1>10 DEF Sessions, SameReader
<1>12. s' = HandleInput(x)
  BY <1>2 DEF data, left
<1> HIDE DEF x
<1>13. NumHandled(x) = NumHandled(s) /\ Base(x) = Base(s) /\ NextOf(x) = NextOf(s) /\ HandledWell(x)
  BY <1>4, <1>11 DEF NumHandled, Base, NextOf, HandledWell
<1>14. Buffers(x, IF x.hasKeys THEN x.mark ELSE x.position, x.position, cuts, cipher)
  <2>1. CASE s.hasKeys
    <3>1. at = s.mark /\ tape = cipher /\ by = FrameAt(cuts, s.nonce)
      BY <2>1 DEF at, tape, by
    <3>2. InSecure(s, s.mark, s.position, cuts, cipher)
      BY <1>4, <2>1 DEF Buffers, InPlain
    <3>3. by + (s.position + n) - s.mark + Len(left) = Len(cipher)
      <4> DEFINE w == Len(s.wire)
                 v == Len(left)
                 c == Len(cipher)
      <4>1. /\ by \in Nat /\ w \in Nat /\ v = w - n /\ by + s.position - s.mark + w = c /\ n \in Nat
            /\ s.position \in Nat /\ s.mark \in Nat
        BY <1>5, <1>9, <1>10, <3>1, <3>2 DEF InSecure
      <4> HIDE DEF w, v, c
      <4>2. by + (s.position + n) - s.mark + v = c
        BY <4>1
      <4> QED
        BY <4>2 DEF v, c
    <3>4. InSecure(x, x.mark, x.position, cuts, cipher)
      BY <1>10, <1>11, <1>13, <3>1, <3>2, <3>3 DEF InSecure
    <3>5. Follows(Stream(x.script), Base(x), x.data, 0, x.mark)
      <4>1. Follows(Stream(s.script), Base(s), s.data, 0, s.mark)
        BY <1>4 DEF Buffers
      <4>2. \A k \in 0 + 1 .. s.mark : k \in 1 .. s.position
        BY <1>5
      <4> QED
        BY <1>10, <1>11, <1>13, <4>1, <4>2 DEF Follows
    <3> QED
      BY <1>5, <1>11, <2>1, <3>4, <3>5, SMTT(40) DEF Buffers
  <2>2. CASE ~s.hasKeys
    <3>1. at = s.position /\ tape = Stream(s.script) /\ by = Base(s) + s.position
      BY <2>2 DEF at, tape, by
    <3>2. InPlain(s, s.mark, s.position)
      BY <1>4, <2>2 DEF Buffers, InSecure
    <3>3. /\ Base(s) + (s.position + n) + Len(left) = At(s.script, s.numSent)
          /\ by + (s.position + n) - s.position = Base(s) + (s.position + n)
      <4> DEFINE w == Len(s.wire)
                 v == Len(left)
                 b == Base(s)
                 c == At(s.script, s.numSent)
      <4>1. /\ b \in Nat /\ w \in Nat /\ v = w - n /\ b + s.position + w = c /\ n \in Nat /\ s.position \in Nat /\ by = b + s.position
        BY <1>5, <1>10, <3>1, <3>2 DEF InPlain
      <4> HIDE DEF w, v, c, b
      <4>2. b + (s.position + n) + v = c /\ by + (s.position + n) - s.position = b + (s.position + n)
        BY <4>1
      <4> QED
        BY <4>2 DEF v, c, b
    <3>4. Follows(Stream(s.script), Base(s) + (s.position + n), left, 0, Len(left))
      BY <1>10, <3>1, <3>3
    <3>5. InPlain(x, x.position, x.position)
      BY <1>11, <1>13, <3>2, <3>3, <3>4 DEF InPlain
    <3>6. Follows(Stream(x.script), Base(x), x.data, 0, x.position)
      <4> SUFFICES ASSUME NEW k \in 0 + 1 .. s.position + n PROVE data[k] = Stream(s.script)[Base(s) + k - 0]
        BY <1>11, <1>13 DEF Follows
      <4>1. CASE k <= s.position
        <5>1. k \in 1 .. s.position /\ k \in 0 + 1 .. s.mark
          <6>1. s.mark = s.position
            BY <3>2 DEF InPlain
          <6> QED
            BY <1>5, <4>1, <6>1
        <5>2. s.data[k] = Stream(s.script)[Base(s) + k - 0]
          BY <1>4, <5>1 DEF Buffers, Follows
        <5> QED
          BY <1>10, <5>1, <5>2
      <4>2. CASE k > s.position
        <5>1. k \in s.position + 1 .. s.position + n /\ (Base(s) + s.position) + k - s.position = Base(s) + k - 0
          BY <1>5, <4>2, SMTT(40)
        <5>2. data[k] = Stream(s.script)[(Base(s) + s.position) + k - s.position]
          BY <1>10, <3>1, <5>1 DEF Follows
        <5> QED
          BY <5>1, <5>2
      <4> QED
        BY <1>5, <4>1, <4>2
    <3> QED
      BY <1>5, <1>11, <2>2, <3>5, <3>6 DEF Buffers
  <2> QED
    BY <2>1, <2>2
<1>15. ReadingOf(NextOf(x), x, i) /\ x.readerPosition <= x.mark /\ x.mark <= x.position /\ x.reader.state \notin Stops \ {"DONE"}
  <2>1. ReadingOf(NextOf(s), s, i) /\ s.reader.state \notin Stops \ {"DONE"}
    BY <1>7 DEF AtRest
  <2>2. ReadingOf(NextOf(x), x, i)
    BY <1>11, <1>13, <2>1, SameReaderFacts
  <2>3. x.readerPosition = s.readerPosition /\ x.reader = s.reader
    BY <1>11 DEF SameReader
  <2> QED
    BY <1>5, <1>8, <1>11, <2>1, <2>2, <2>3, SMTT(40)
<1>16. Good(HandleInput(x)) \/ IsCutOff(HandleInput(x))
  <2>1. x.numAnswered = NumHandled(x) /\ NumHandled(x) < x.numSent /\ (x.isSecured => x.hasKeys) /\ x.state = "Reading"
    BY <1>4, <1>6, <1>11, <1>13
  <2> QED
    BY <1>11, <1>13, <1>14, <1>15, <2>1, InputIsGood
<1> QED
  BY <1>12, <1>16 DEF ReadInboundData

\* when an answer has been sent,
LEMMA OutputCompletionGood ==
  ASSUME Inv, OutputCompletion
  PROVE  Inv'
<1> SUFFICES ASSUME ~lost PROVE lost' \/ Good(s')
  BY DEF Inv, OutputCompletion
<1>1. Good(s) /\ s.state = "Writing"
  BY DEF Inv, OutputCompletion
<1> DEFINE x == Prepared([s EXCEPT !.state = "Reading", !.numAnswered = @ + 1])
<1>2. PICK cuts, cipher : GoodWith(s, cuts, cipher)
  BY <1>1 DEF Good
<1>3. /\ s \in Sessions /\ HandledWell(s) /\ s.numAnswered = NumHandled(s) - 1 /\ (s.isSecured => s.hasKeys)
      /\ s.limit = Capacity /\ Buffers(s, s.mark, s.position, cuts, cipher)
  BY <1>1, <1>2 DEF Good, GoodWith
<1>4. /\ s.position \in Nat /\ s.mark \in Nat /\ s.mark <= s.position /\ NumHandled(s) \in Nat /\ s.numSent \in Nat
      /\ s.numAnswered \in Nat /\ s.numAnswered + 1 = NumHandled(s)
  <2>1. NumHandled(s) \in Nat /\ s.numAnswered \in Nat
    BY <1>3, SessionTypes DEF Sessions
  <2> QED
    BY <1>3, <2>1, SessionTypes DEF Buffers
<1>5. /\ x \in Sessions /\ SameStream(s, x) /\ IsPrepared(x) /\ x.state = "Reading" /\ x.numAnswered = NumHandled(s)
      /\ x.mark = s.mark /\ x.position = s.position /\ x.limit = s.limit /\ x.isSecured = s.isSecured /\ x.hasKeys = s.hasKeys
      /\ x.numSent = s.numSent
  <2>1. InitialReader \in Readers /\ NoTokens \in [TokenNames -> Tokens]
    BY DEF InitialReader, Reader, Readers, ReaderStates, Substates, NoTokens, Tokens
  <2> DEFINE w == [s EXCEPT !.state = "Reading", !.numAnswered = @ + 1]
  <2>2. /\ w \in Sessions /\ SameStream(s, w) /\ w.state = "Reading" /\ w.numAnswered = NumHandled(s)
        /\ w.mark = s.mark /\ w.position = s.position /\ w.limit = s.limit /\ w.isSecured = s.isSecured /\ w.hasKeys = s.hasKeys
        /\ w.numSent = s.numSent
    BY <1>3, <1>4, ZenonT(40) DEF Sessions, SameStream
  <2> HIDE DEF w
  <2>3. x = [w EXCEPT !.reader = InitialReader, !.readerPosition = 0, !.parserError = FALSE,
                      !.tokens = NoTokens, !.contentLength = <<>>, !.contentType = <<>>]
    BY DEF Prepared, w
  <2> HIDE DEF x
  <2>4. /\ x \in Sessions /\ SameStream(w, x) /\ IsPrepared(x) /\ x.state = w.state /\ x.numAnswered = w.numAnswered
        /\ x.mark = w.mark /\ x.position = w.position /\ x.limit = w.limit /\ x.isSecured = w.isSecured /\ x.hasKeys = w.hasKeys
        /\ x.numSent = w.numSent
    <3> DEFINE r == InitialReader
               ts == NoTokens
    <3>1. r \in Readers /\ ts \in [TokenNames -> Tokens]
      BY <2>1
    <3>2. x = [w EXCEPT !.reader = r, !.readerPosition = 0, !.parserError = FALSE,
                        !.tokens = ts, !.contentLength = <<>>, !.contentType = <<>>]
      BY <2>3
    <3> HIDE DEF r, ts
    <3>3. <<>> \in Seq(Nat) /\ <<>> \in Seq(Seq(Octets)) /\ 0 \in Nat /\ FALSE \in BOOLEAN
      OBVIOUS
    <3>4. x \in Sessions
      BY <2>2, <3>1, <3>2, <3>3 DEF Sessions
    <3>5. /\ x.reader = r /\ x.readerPosition = 0 /\ ~x.parserError
          /\ x.tokens = ts /\ x.contentLength = <<>> /\ x.contentType = <<>>
      BY <2>2, <3>2 DEF Sessions
    <3>6. SameStream(w, x)
      BY <2>2, <3>2 DEF Sessions, SameStream
    <3>7. /\ x.state = w.state /\ x.numAnswered = w.numAnswered
          /\ x.mark = w.mark /\ x.position = w.position /\ x.limit = w.limit /\ x.isSecured = w.isSecured /\ x.hasKeys = w.hasKeys
          /\ x.numSent = w.numSent
      BY <2>2, <3>2 DEF Sessions
    <3> QED
      BY <3>4, <3>5, <3>6, <3>7 DEF IsPrepared, r, ts
  <2> QED
    BY <2>2, <2>4 DEF SameStream
<1>6. s' = IF x.position # 0 THEN HandleInput(x) ELSE x
  BY DEF OutputCompletion
<1> HIDE DEF x
<1>7. /\ NumHandled(x) = NumHandled(s) /\ NextOf(x) = NextOf(s) /\ HandledWell(x) /\ Buffers(x, x.mark, x.position, cuts, cipher)
  BY <1>3, <1>5, SameStreamFacts
<1>8. x.readerPosition = 0 /\ x.readerPosition <= x.mark /\ (x.isSecured => x.hasKeys)
  BY <1>3, <1>4, <1>5 DEF IsPrepared
<1>9. NumHandled(x) < x.numSent =>
        IsRequest(NextOf(x)) /\ ReadingOf(NextOf(x), x, 0) /\ x.reader.state = "EXPECTING_METHOD" /\ x.reader.state \notin Stops \ {"DONE"}
  BY <1>5, <1>7, NextFacts, PreparedReading
<1>10. NumHandled(x) <= x.numSent
  BY <1>7 DEF HandledWell
<1>11. CASE x.position # 0
  <2>1. NumHandled(x) < x.numSent
    <3>1. NumHandled(x) # x.numSent
      BY <1>5, <1>7, <1>11, NothingLeft
    <3> QED
      BY <1>4, <1>5, <1>7, <1>10, <3>1
  <2>2. Buffers(x, IF x.hasKeys THEN x.mark ELSE x.position, x.position, cuts, cipher)
    <3>1. CASE x.hasKeys
      BY <1>7, <3>1
    <3>2. CASE ~x.hasKeys
      <4>1. x.mark = x.position
        BY <1>7, <3>2 DEF Buffers, InPlain, InSecure
      <4> QED
        BY <1>7, <3>2, <4>1
    <3> QED
      BY <3>1, <3>2
  <2>3. 0 \in 0 .. 3 /\ x.mark <= x.position
    BY <1>4, <1>5
  <2>4. Good(HandleInput(x)) \/ IsCutOff(HandleInput(x))
    BY <1>5, <1>7, <1>8, <1>9, <2>1, <2>2, <2>3, InputIsGood
  <2> QED
    BY <1>6, <1>11, <2>4 DEF OutputCompletion
<1>12. CASE x.position = 0
  <2>1. x.mark = 0
    BY <1>4, <1>5, <1>12
  <2>2. NeedsMore(x, x.mark, x.position, cuts)
    BY <1>5, <1>7, <1>12, <2>1, EmptyNeedsMore
  <2>3. Waits(x, x.mark)
    <3>1. CASE NumHandled(x) = x.numSent
      BY <1>5, <3>1 DEF Waits
    <3>2. CASE NumHandled(x) # x.numSent
      <4>1. NumHandled(x) < x.numSent
        BY <1>4, <1>5, <1>7, <1>10, <3>2
      <4>2. AtRest(NextOf(x), x, x.mark, 0)
        BY <1>8, <1>9, <2>1, <4>1 DEF AtRest
      <4>3. x.reader.state # "DONE" /\ 0 \in 0 .. 3
        BY <1>9, <4>1
      <4> QED
        BY <1>8, <3>2, <4>2, <4>3 DEF Waits
    <3> QED
      BY <3>1, <3>2
  <2>4. GoodWith(x, cuts, cipher)
    BY <1>3, <1>5, <1>7, <2>2, <2>3 DEF GoodWith
  <2>5. x.numAnswered = NumHandled(x) - 0
    BY <1>4, <1>5, <1>7
  <2>6. Good(x)
    BY <1>5, <1>7, <1>8, <2>4, <2>5 DEF Good, IsExcused
  <2> QED
    BY <1>6, <1>12, <2>6
<1> QED
  BY <1>11, <1>12

-----------------------------------------------------------------------------
(* The controller sends.                                                   *)

\* What is sent is behind what is on the way.
LEMMA SentFollows ==
  ASSUME NEW tape, NEW at \in Nat, NEW wire, wire \in Seq(Int), NEW bytes, bytes \in Seq(Int),
         Follows(tape, at, wire, 0, Len(wire)), Has(tape, at + Len(wire), bytes)
  PROVE  Follows(tape, at, wire \o bytes, 0, Len(wire \o bytes))
<1> DEFINE all == wire \o bytes
           w == Len(wire)
           n == Len(bytes)
<1>1. /\ w \in Nat /\ n \in Nat /\ Len(all) = w + n
      /\ \A k \in 1 .. w : all[k] = wire[k]
      /\ \A k \in w + 1 .. w + n : all[k] = bytes[k - w]
  BY Concat
<1>2. \A k \in 0 + 1 .. w : wire[k] = tape[at + k - 0]
  BY DEF Follows
<1>3. \A k \in at + w + 1 .. at + w + n : tape[k] = bytes[k - (at + w)]
  BY DEF Has
<1> HIDE DEF all, w, n
<1> SUFFICES ASSUME NEW k \in 1 .. w + n PROVE all[k] = tape[at + k - 0]
  <2>1. 0 + 1 .. Len(all) = 1 .. w + n
    BY <1>1
  <2> QED
    BY <2>1 DEF Follows, all
<1>4. CASE k <= w
  <2>1. k \in 1 .. w /\ k \in 0 + 1 .. w
    BY <1>1, <1>4
  <2> QED
    BY <1>1, <1>2, <2>1
<1>5. CASE k > w
  <2>1. k \in w + 1 .. w + n /\ at + k - 0 \in at + w + 1 .. at + w + n /\ (at + k - 0) - (at + w) = k - w
    BY <1>1, <1>5
  <2>2. all[k] = bytes[k - w]
    BY <1>1, <2>1
  <2>3. tape[at + k - 0] = bytes[(at + k - 0) - (at + w)]
    BY <1>3, <2>1
  <2> QED
    BY <2>1, <2>2, <2>3
<1> QED
  BY <1>1, <1>4, <1>5

\* What follows the beginning of a tape follows the tape.
LEMMA FollowsLonger ==
  ASSUME NEW tape, tape \in Seq(Int), NEW more, more \in Seq(Int), NEW at \in Nat, NEW b, NEW from \in Nat, NEW to \in Nat,
         from <= to, at + to - from <= Len(tape), Follows(tape, at, b, from, to)
  PROVE  Follows(tape \o more, at, b, from, to)
<1> DEFINE all == tape \o more
           n == Len(tape)
<1>1. n \in Nat /\ \A k \in 1 .. n : all[k] = tape[k]
  BY Concat
<1> HIDE DEF all, n
<1> SUFFICES ASSUME NEW k \in from + 1 .. to PROVE b[k] = all[at + k - from]
  BY DEF Follows, all
<1>2. at + k - from \in 1 .. n
  <2>1. at + to - from <= n
    BY DEF n
  <2> QED
    BY <1>1, <2>1
<1>3. b[k] = tape[at + k - from]
  BY DEF Follows
<1> QED
  BY <1>1, <1>2, <1>3

\* What sending leaves alone
SameButSending(x, y) ==
  /\ y.script = x.script /\ y.numAnswered = x.numAnswered /\ y.state = x.state /\ y.hasKeys = x.hasKeys
  /\ y.isSecured = x.isSecured /\ y.nonce = x.nonce /\ y.data = x.data /\ y.position = x.position /\ y.limit = x.limit
  /\ y.mark = x.mark /\ y.handled = x.handled /\ y.sealed = x.sealed /\ SameReader(x, y)

\* A session whose controller has sent one more request
LEMMA SentFacts ==
  ASSUME NEW x \in Sessions, HandledWell(x), x.numSent < Len(SentOf(x.script)), NEW y \in Sessions,
         SameButSending(x, y), y.numSent = x.numSent + 1
  PROVE  /\ HandledWell(y) /\ NumHandled(y) = NumHandled(x) /\ Base(y) = Base(x) /\ NextOf(y) = NextOf(x)
         /\ NumHandled(y) < y.numSent
         /\ IsExcused(x) => IsExcused(y)
<1>1. NumHandled(y) = NumHandled(x) /\ Base(y) = Base(x) /\ NextOf(y) = NextOf(x)
  BY DEF SameButSending, NumHandled, Base, NextOf
<1>2. NumHandled(x) \in Nat /\ x.numSent \in Nat /\ Len(SentOf(x.script)) \in Nat /\ NumHandled(x) <= x.numSent
  BY SessionTypes DEF HandledWell
<1>3. NumHandled(y) < y.numSent /\ NumHandled(y) <= y.numSent /\ y.numSent <= Len(SentOf(x.script))
  BY <1>1, <1>2
<1>4. HandledWell(y)
  BY <1>1, <1>3 DEF HandledWell, SameButSending
<1>5. IsExcused(x) => IsExcused(y)
  <2>1. \A k \in 1 .. x.numSent : k \in 1 .. y.numSent
    BY <1>2
  <2> QED
    BY <1>1, <2>1 DEF IsExcused, SameButSending
<1> QED
  BY <1>1, <1>3, <1>4, <1>5

\* It waits for the request if it has handled those before.
LEMMA SentWaits ==
  ASSUME NEW x \in Sessions, HandledWell(x), x.numSent < Len(SentOf(x.script)), NEW y \in Sessions,
         SameButSending(x, y), y.numSent = x.numSent + 1, NEW cuts, NEW cipher, Buffers(x, x.mark, x.position, cuts, cipher),
         Waits(x, x.mark)
  PROVE  Waits(y, y.mark)
<1>1. HandledWell(y) /\ NumHandled(y) = NumHandled(x) /\ NextOf(y) = NextOf(x) /\ NumHandled(y) < y.numSent /\ SameReader(x, y)
      /\ y.mark = x.mark
  BY SentFacts DEF SameButSending
<1>2. NumHandled(y) # y.numSent
  BY <1>1, SessionTypes
<1>3. CASE NumHandled(x) = x.numSent
  <2>1. IsPrepared(x) /\ x.mark = 0
    BY <1>3, NothingLeft DEF Waits
  <2>2. IsPrepared(y)
    BY <1>1, <2>1 DEF IsPrepared, SameReader
  <2>3. IsRequest(NextOf(y))
    BY <1>1, NextFacts
  <2>4. /\ ReadingOf(NextOf(y), y, 0) /\ y.reader.state = "EXPECTING_METHOD" /\ y.reader.state \notin Stops \ {"DONE"}
        /\ y.readerPosition = 0
    BY <2>2, <2>3, PreparedReading DEF IsPrepared
  <2>5. AtRest(NextOf(y), y, y.mark, 0)
    BY <1>1, <2>1, <2>4 DEF AtRest
  <2>6. y.readerPosition <= y.mark /\ y.reader.state # "DONE" /\ 0 \in 0 .. 3
    BY <1>1, <2>1, <2>4
  <2> QED
    BY <1>2, <2>5, <2>6 DEF Waits
<1>4. CASE NumHandled(x) # x.numSent
  <2>1. PICK i \in 0 .. 3 : AtRest(NextOf(x), x, x.mark, i)
    BY <1>4 DEF Waits
  <2>2. /\ x.readerPosition <= x.mark
        /\ x.reader.state = "DONE" => x.mark - x.readerPosition < BodyLength(NextOf(x))
    BY <1>4 DEF Waits
  <2>3. AtRest(NextOf(y), y, y.mark, i)
    BY <1>1, <2>1, SameReaderFacts
  <2> QED
    BY <1>1, <1>2, <2>2, <2>3 DEF Waits, SameReader
<1> QED
  BY <1>3, <1>4

\* In plaintext
LEMMA PlainSent ==
  ASSUME NEW x \in Sessions, HandledWell(x), x.numSent < Len(x.script.plain), NEW y \in Sessions,
         SameButSending(x, y), y.numSent = x.numSent + 1, y.sentNonce = x.sentNonce,
         y.wire = x.wire \o Written(SentOf(x.script)[x.numSent + 1]),
         NEW cuts, NEW cipher, Buffers(x, x.mark, x.position, cuts, cipher)
  PROVE  Buffers(y, y.mark, y.position, cuts, cipher) /\ NeedsMore(y, y.mark, y.position, cuts)
<1> DEFINE bytes == Written(SentOf(x.script)[x.numSent + 1])
           stream == Stream(x.script)
           p == x.position
           b == Base(x)
           w == Len(x.wire)
           n == Len(bytes)
           sent == At(x.script, x.numSent)
           next == At(x.script, x.numSent + 1)
<1>1. /\ x.script \in Scripts /\ x.numSent \in Nat /\ NumHandled(x) \in Nat /\ NumHandled(x) <= x.numSent
      /\ b \in Nat /\ p \in Nat /\ x.wire \in Seq(Int) /\ w \in Nat /\ sent \in Nat /\ Len(x.script.plain) \in Nat
  BY SessionTypes, ScriptFacts DEF HandledWell
<1>2. x.numSent \in 0 .. Len(SentOf(x.script)) - 1 /\ x.numSent + 1 \in 1 .. Len(SentOf(x.script)) /\ x.numSent < Len(SentOf(x.script))
  <2> DEFINE all == Len(SentOf(x.script))
             first == Len(x.script.plain)
             rest == Len(x.script.secure)
             i == x.numSent
  <2>1. i \in Nat /\ first \in Nat /\ rest \in Nat /\ all = first + rest /\ i < first
    BY <1>1, ScriptFacts
  <2> HIDE DEF all, first, rest, i
  <2>2. i \in 0 .. all - 1 /\ i + 1 \in 1 .. all /\ i < all
    BY <2>1
  <2> QED
    BY <2>2 DEF all, i
<1>3. /\ Has(stream, sent, bytes) /\ next = sent + n /\ bytes \in Seq(Octets) /\ n \in Nat
  <2>1. IsRequest(SentOf(x.script)[x.numSent + 1])
    BY <1>1, <1>2, ScriptFacts
  <2>2. bytes \in Seq(Octets)
    BY <2>1, WrittenFacts
  <2>3. n \in Nat
    BY <2>2
  <2> QED
    BY <1>1, <1>2, <2>2, <2>3, StreamFacts
<1>4. bytes \in Seq(Int)
  BY <1>3, OctetsAreInts
<1>5. NumHandled(y) = NumHandled(x) /\ Base(y) = Base(x)
  BY <1>2, SentFacts
<1>6. InPlain(x, x.mark, p)
  <2>1. ~(NumHandled(x) >= Len(x.script.plain))
    BY <1>1
  <2> QED
    BY <2>1 DEF Buffers, InSecure
<1>7. /\ x.mark = p /\ Follows(stream, b + p, x.wire, 0, w) /\ b + p + w = sent
  BY <1>6 DEF InPlain
<1> HIDE DEF bytes, stream, b, w, n, sent, next
<1>8. b + p \in Nat /\ b + p + Len(x.wire) = sent
  BY <1>1, <1>7 DEF w
<1>9. y.wire = x.wire \o bytes
  BY DEF bytes
<1>10. Follows(stream, b + p, y.wire, 0, Len(y.wire)) /\ Len(y.wire) = w + n
  <2>1. Follows(stream, b + p, x.wire \o bytes, 0, Len(x.wire \o bytes))
    BY <1>1, <1>3, <1>4, <1>7, <1>8, SentFollows DEF w
  <2>2. Len(x.wire \o bytes) = w + n
    BY <1>1, <1>4, Concat DEF w, n
  <2> QED
    BY <1>9, <2>1, <2>2
<1>11. b + p + (w + n) = next
  <2>1. b \in Nat /\ p \in Nat /\ w \in Nat /\ n \in Nat /\ b + p + w = sent /\ next = sent + n
    BY <1>1, <1>3, <1>7
  <2> HIDE DEF p
  <2> QED
    BY <2>1
<1>12. y.numSent <= Len(x.script.plain)
  BY <1>1
<1>13. InPlain(y, y.mark, y.position)
  <2>1. /\ ~x.hasKeys /\ x.nonce = 0 /\ x.sentNonce = 0
        /\ NumHandled(x) = Len(x.script.plain) => Len(x.script.secure) = 0
    BY <1>6 DEF InPlain
  <2> QED
    BY <1>5, <1>7, <1>10, <1>11, <1>12, <2>1 DEF InPlain, SameButSending, b, stream, next
<1>14. Buffers(y, y.mark, y.position, cuts, cipher)
  BY <1>5, <1>13 DEF Buffers, SameButSending
<1>15. HandledWell(y) /\ y.mark = y.position
  BY <1>2, <1>7, SentFacts DEF SameButSending
<1> QED
  BY <1>14, <1>15, EmptyNeedsMore

\* In frames
LEMMA SecureSent ==
  ASSUME NEW x \in Sessions, HandledWell(x), x.numSent < Len(SentOf(x.script)), NEW y \in Sessions,
         SameButSending(x, y), y.numSent = x.numSent + 1, NEW size \in FrameSizes,
         y.sentNonce = x.sentNonce + NumFrames(Len(Written(SentOf(x.script)[x.numSent + 1])), size),
         y.wire = x.wire \o Frames(Written(SentOf(x.script)[x.numSent + 1]), size, x.sentNonce),
         NEW cuts, NEW cipher, Buffers(x, x.mark, x.position, cuts, cipher), InSecure(x, x.mark, x.position, cuts, cipher),
         NeedsMore(x, x.mark, x.position, cuts) \/ x.state = "Writing"
  PROVE  \E longer, more : /\ Buffers(y, y.mark, y.position, longer, more)
                           /\ NeedsMore(y, y.mark, y.position, longer) \/ x.state = "Writing"
<1> DEFINE L == Len(Written(SentOf(x.script)[x.numSent + 1]))
           c == Frames(Written(SentOf(x.script)[x.numSent + 1]), size, x.sentNonce)
           k == NumFrames(L, size)
           more == cipher \o c
           longer == Longer(cuts, x.sentNonce, L, size)
           f == FrameAt(cuts, x.nonce)
           g == Len(cipher)
           w == Len(x.wire)
           p == x.position
           m == x.mark
<1>1. /\ x.script \in Scripts /\ x.numSent \in Nat /\ Base(x) \in Nat /\ p \in Nat /\ m \in Nat /\ m <= p
      /\ x.wire \in Seq(Int) /\ w \in Nat /\ x.nonce \in Nat /\ x.sentNonce \in Nat
  BY SessionTypes DEF Buffers
<1>2. /\ x.hasKeys /\ NumHandled(x) >= Len(x.script.plain)
      /\ AreFrames(x.script, cuts, cipher, x.numSent, x.sentNonce)
      /\ x.nonce <= x.sentNonce /\ Base(x) + m = cuts[x.nonce]
      /\ Follows(cipher, f, x.data, m, p)
      /\ Follows(cipher, f + p - m, x.wire, 0, w)
      /\ f + p - m + w = g
  BY DEF InSecure
<1>3. /\ k \in Nat /\ c \in Seq(Int)
      /\ AreFrames(x.script, longer, more, x.numSent + 1, x.sentNonce + k)
      /\ \A j \in 0 .. x.sentNonce : longer[j] = cuts[j]
  <2> DEFINE script == x.script
             i == x.numSent
             num == x.sentNonce
             written == Len(Written(SentOf(script)[i + 1]))
             cut == Longer(cuts, num, written, size)
             next == Frames(Written(SentOf(script)[i + 1]), size, num)
  <2>1. /\ script \in Scripts /\ i \in Nat /\ num \in Nat /\ i < Len(SentOf(script))
        /\ AreFrames(script, cuts, cipher, i, num)
    BY <1>1, <1>2
  <2> HIDE DEF script, i, num
  <2>2. /\ NumFrames(written, size) \in Nat /\ next \in Seq(Int)
        /\ AreFrames(script, cut, cipher \o next, i + 1, num + NumFrames(written, size))
        /\ \A j \in 0 .. num : cut[j] = cuts[j]
    BY <2>1, SentFrames
  <2> QED
    BY <2>2 DEF script, i, num
<1>4. NumHandled(y) = NumHandled(x) /\ Base(y) = Base(x) /\ HandledWell(y)
  BY SentFacts
<1>5. y.wire = x.wire \o c /\ y.sentNonce = x.sentNonce + k
  OBVIOUS
<1> HIDE DEF L, c, k, longer, more
<1>6. cipher \in Seq(Int) /\ g \in Nat /\ cuts \in [0 .. x.sentNonce -> Nat]
  <2>1. cipher \in Seq(Int) /\ cuts \in [0 .. x.sentNonce -> Nat]
    BY <1>2 DEF AreFrames
  <2> QED
    BY <2>1
<1>7. f \in Nat
  <2>1. CASE x.nonce < x.sentNonce
    <3>1. x.nonce \in 0 .. x.sentNonce - 1
      BY <1>1, <2>1
    <3> QED
      BY <1>1, <1>2, <3>1, FrameEnds
  <2>2. CASE x.nonce = x.sentNonce
    <3>1. g = f
      BY <1>2, <2>2 DEF AreFrames
    <3> QED
      BY <1>6, <3>1
  <2> QED
    BY <1>1, <1>2, <2>1, <2>2
<1>8. FrameAt(longer, x.nonce) = f
  <2>1. 0 \in 0 .. x.sentNonce /\ x.nonce \in 0 .. x.sentNonce
    BY <1>1, <1>2
  <2>2. longer[0] = cuts[0] /\ longer[x.nonce] = cuts[x.nonce]
    BY <1>3, <2>1
  <2> QED
    BY <2>2 DEF FrameAt
<1> HIDE DEF f
<1>9. f + p - m \in Nat /\ f + p - m <= g /\ (f + p - m) + w = g /\ f + p - m + w - 0 = g
  <2> HIDE DEF g, w, p, m
  <2> QED
    BY <1>1, <1>2, <1>6, <1>7, SMTT(40)
<1>10. Follows(more, f, x.data, m, p)
  <2> HIDE DEF m, p
  <2> QED
    BY <1>1, <1>2, <1>3, <1>6, <1>7, <1>9, FollowsLonger DEF more, g
<1>11. Follows(more, f + p - m, y.wire, 0, Len(y.wire)) /\ Len(y.wire) = w + Len(c) /\ Len(c) \in Nat /\ Len(more) = g + Len(c)
  <2>1. Follows(more, f + p - m, x.wire, 0, w)
    <3> DEFINE at == f + p - m
    <3>1. at \in Nat /\ 0 \in Nat /\ 0 <= w /\ at + w - 0 <= g /\ Follows(cipher, at, x.wire, 0, w)
      BY <1>1, <1>2, <1>6, <1>9
    <3> HIDE DEF at
    <3>2. Follows(more, at, x.wire, 0, w)
      BY <1>1, <1>3, <1>6, <3>1, FollowsLonger DEF more, g
    <3> QED
      BY <3>2 DEF at
  <2>2. Has(more, g, c) /\ Len(more) = g + Len(c)
    <3>1. cipher \in Seq(Int) /\ c \in Seq(Int)
      BY <1>3, <1>6
    <3>2. Has(cipher \o c, Len(cipher), c) /\ Len(cipher \o c) = Len(cipher) + Len(c)
      BY <3>1, HasConcat
    <3> QED
      BY <3>2 DEF more, g
  <2>3. Follows(more, f + p - m, x.wire \o c, 0, Len(x.wire \o c))
    <3> DEFINE at == f + p - m
    <3>1. at \in Nat /\ at + Len(x.wire) = g /\ Follows(more, at, x.wire, 0, Len(x.wire))
      BY <1>9, <2>1
    <3> HIDE DEF at
    <3>2. Follows(more, at, x.wire \o c, 0, Len(x.wire \o c))
      BY <1>1, <1>3, <2>2, <3>1, SentFollows
    <3> QED
      BY <3>2 DEF at
  <2>4. Len(x.wire \o c) = w + Len(c) /\ Len(c) \in Nat
    BY <1>1, <1>3, Concat
  <2> QED
    BY <1>5, <2>2, <2>3, <2>4
<1>12. f + p - m + Len(y.wire) = Len(more)
  <2> DEFINE v == Len(c)
             u == Len(y.wire)
             t == Len(more)
  <2>1. v \in Nat /\ u = w + v /\ t = g + v
    BY <1>11
  <2> HIDE DEF v, u, t, g, w, p, m
  <2>2. f + p - m + u = t
    BY <1>1, <1>2, <1>6, <1>7, <2>1
  <2> QED
    BY <2>2 DEF u, t
<1>13. x.nonce <= x.sentNonce + k /\ longer[x.nonce] = cuts[x.nonce]
  <2>1. x.nonce \in 0 .. x.sentNonce
    BY <1>1, <1>2
  <2> QED
    BY <1>1, <1>2, <1>3, <2>1, SMTT(40)
<1>14. Buffers(y, y.mark, y.position, longer, more)
  <2>1. InSecure(y, y.mark, y.position, longer, more)
    BY <1>2, <1>3, <1>4, <1>5, <1>8, <1>10, <1>11, <1>12, <1>13 DEF InSecure, SameButSending
  <2> QED
    BY <1>4, <2>1 DEF Buffers, SameButSending
<1>15. NeedsMore(y, y.mark, y.position, longer) \/ x.state = "Writing"
  <2> SUFFICES ASSUME NeedsMore(x, m, p, cuts) PROVE NeedsMore(y, y.mark, y.position, longer)
    OBVIOUS
  <2>1. CASE x.nonce < x.sentNonce
    <3>1. x.nonce \in 0 .. x.sentNonce /\ x.nonce + 1 \in 0 .. x.sentNonce
      BY <1>1, <2>1
    <3>2. longer[x.nonce] = cuts[x.nonce] /\ longer[x.nonce + 1] = cuts[x.nonce + 1]
      BY <1>3, <3>1
    <3>3. p - m < cuts[x.nonce + 1] - cuts[x.nonce] + 3
      BY <2>1 DEF NeedsMore
    <3> QED
      BY <3>2, <3>3 DEF NeedsMore, SameButSending
  <2>2. CASE x.nonce = x.sentNonce
    <3>1. p = m
      <4>1. g = f
        BY <1>2, <2>2 DEF AreFrames, f
      <4> HIDE DEF g, w, p, m
      <4> QED
        BY <1>1, <1>2, <1>6, <1>7, <4>1
    <3>2. y.mark = y.position
      BY <3>1 DEF SameButSending
    <3> QED
      BY <1>4, <1>14, <3>2, EmptyNeedsMore
  <2> QED
    BY <1>1, <1>2, <2>1, <2>2
<1> QED
  BY <1>14, <1>15

\* The session with one more request on the way
WithSent(x, wire, nonce) == [x EXCEPT !.numSent = @ + 1, !.wire = wire, !.sentNonce = nonce]

\* A session whose controller has sent is a session.
LEMMA SessionSent ==
  ASSUME NEW x \in Sessions, NEW wire, wire \in Seq(Int), NEW nonce, nonce \in Nat
  PROVE  LET y == WithSent(x, wire, nonce)
         IN  y \in Sessions /\ SameButSending(x, y) /\ y.numSent = x.numSent + 1 /\ y.wire = wire /\ y.sentNonce = nonce
<1> DEFINE y == WithSent(x, wire, nonce)
           n == x.numSent + 1
<1>1. n \in Nat
  BY DEF Sessions
<1> HIDE DEF n
<1>2. y = [x EXCEPT !.numSent = n, !.wire = wire, !.sentNonce = nonce]
  BY DEF n, WithSent
<1> HIDE DEF y
<1>3. y \in Sessions
  BY <1>1, <1>2 DEF Sessions
<1>4. y.numSent = n /\ y.wire = wire /\ y.sentNonce = nonce
  BY <1>2 DEF Sessions
<1>5. SameButSending(x, y)
  BY <1>2 DEF Sessions, SameButSending, SameReader
<1> QED
  BY <1>3, <1>4, <1>5 DEF n, y

\* What sending does, in plaintext and in frames
IsSent(x, y) ==
  /\ y \in Sessions /\ SameButSending(x, y) /\ y.numSent = x.numSent + 1
  /\ LET bytes == Written(SentOf(x.script)[x.numSent + 1])
     IN  \/ /\ x.numSent < Len(x.script.plain) /\ y.wire = x.wire \o bytes /\ y.sentNonce = x.sentNonce
         \/ /\ x.numSent >= Len(x.script.plain)
            /\ \E size \in FrameSizes : /\ y.wire = x.wire \o Frames(bytes, size, x.sentNonce)
                                        /\ y.sentNonce = x.sentNonce + NumFrames(Len(bytes), size)

\* The controller sends in plaintext or in frames.
LEMMA SendFacts ==
  ASSUME s \in Sessions, HandledWell(s), Send
  PROVE  /\ s.numSent < Len(SentOf(s.script)) /\ IsSent(s, s') /\ lost' = lost
         /\ s.numSent = Len(s.script.plain) => s.numAnswered = s.numSent
<1> DEFINE bytes == Written(SentOf(s.script)[s.numSent + 1])
<1>1. /\ s.numSent < Len(SentOf(s.script)) /\ lost' = lost
      /\ s.numSent = Len(s.script.plain) => s.numAnswered = s.numSent
      /\ IF s.numSent < Len(s.script.plain)
         THEN s' = [s EXCEPT !.numSent = @ + 1, !.wire = @ \o bytes]
         ELSE \E size \in FrameSizes :
                s' = [s EXCEPT !.numSent = @ + 1, !.wire = @ \o Frames(bytes, size, s.sentNonce),
                               !.sentNonce = @ + NumFrames(Len(bytes), size)]
  BY ZenonT(40) DEF Send, Sent
<1>2. /\ s.script \in Scripts /\ s.numSent \in Nat /\ s.sentNonce \in Nat /\ s.wire \in Seq(Int) /\ Len(s.script.plain) \in Nat
      /\ s.numSent + 1 \in 1 .. Len(SentOf(s.script))
  <2>1. /\ s.script \in Scripts /\ s.numSent \in Nat /\ s.wire \in Seq(Int) /\ s.sentNonce \in Nat /\ Len(SentOf(s.script)) \in Nat
    BY SessionTypes
  <2>2. s.numSent + 1 \in 1 .. Len(SentOf(s.script))
    <3> DEFINE all == Len(SentOf(s.script))
               n == s.numSent
    <3>1. all \in Nat /\ n \in Nat /\ n < all
      BY <1>1, <2>1, ZenonT(40)
    <3> HIDE DEF all, n
    <3>2. n + 1 \in 1 .. all
      BY <3>1
    <3> QED
      BY <3>2 DEF all, n
  <2> QED
    BY <2>1, <2>2, ScriptFacts
<1>3. bytes \in Seq(Octets)
  <2>1. IsRequest(SentOf(s.script)[s.numSent + 1])
    BY <1>2, ScriptFacts
  <2> QED
    BY <2>1, WrittenFacts
<1>4. bytes \in Seq(Int)
  BY <1>3, OctetsAreInts
<1> HIDE DEF bytes
<1>5. CASE s.numSent < Len(s.script.plain)
  <2> DEFINE wire == s.wire \o bytes
             y == WithSent(s, wire, s.sentNonce)
  <2>1. wire \in Seq(Int)
    BY <1>2, <1>4, Concat
  <2>2. s' = [s EXCEPT !.numSent = @ + 1, !.wire = wire]
    BY <1>1, <1>5
  <2> HIDE DEF wire
  <2>3. s' = y
    BY <2>2, ZenonT(40) DEF Sessions, WithSent
  <2>4. y \in Sessions /\ SameButSending(s, y) /\ y.numSent = s.numSent + 1 /\ y.wire = wire /\ y.sentNonce = s.sentNonce
    <3>1. s.sentNonce \in Nat
      BY <1>2
    <3> QED
      BY <2>1, <3>1, SessionSent
  <2> HIDE DEF y
  <2> QED
    BY <1>1, <1>5, <2>3, <2>4 DEF IsSent, wire, bytes
<1>6. CASE ~(s.numSent < Len(s.script.plain))
  <2>1. PICK size \in FrameSizes :
          s' = [s EXCEPT !.numSent = @ + 1, !.wire = @ \o Frames(bytes, size, s.sentNonce),
                         !.sentNonce = @ + NumFrames(Len(bytes), size)]
    BY <1>1, <1>6, ZenonT(40)
  <2> DEFINE c == Frames(bytes, size, s.sentNonce)
             wire == s.wire \o c
             nonce == s.sentNonce + NumFrames(Len(bytes), size)
             y == WithSent(s, wire, nonce)
  <2>2. size \in Nat \ {0} /\ Len(bytes) \in Nat
    <3>1. size \in 1 .. MaxFrameBytes /\ MaxFrameBytes \in Nat
      BY IPSessionInputAssumption
    <3> QED
      BY <1>3, <3>1
  <2>3. c \in Seq(Int)
    BY <1>2, <1>3, <2>2, FramesFacts DEF IsMessage
  <2>4. NumFrames(Len(bytes), size) \in Nat
    BY <2>2, FramesEnd
  <2> HIDE DEF c
  <2>5. wire \in Seq(Int) /\ nonce \in Nat
    <3>1. wire \in Seq(Int)
      BY <1>2, <2>3, Concat
    <3>2. nonce \in Nat
      BY <1>2, <2>4
    <3> QED
      BY <3>1, <3>2
  <2>6. s' = y
    BY <2>1 DEF c, WithSent
  <2> HIDE DEF wire, nonce
  <2>7. y \in Sessions /\ SameButSending(s, y) /\ y.numSent = s.numSent + 1 /\ y.wire = wire /\ y.sentNonce = nonce
    BY <2>5, SessionSent
  <2> HIDE DEF y
  <2>8. s.numSent >= Len(s.script.plain)
    BY <1>2, <1>6
  <2> QED
    BY <1>1, <2>6, <2>7, <2>8, ZenonT(40) DEF IsSent, wire, nonce, c, bytes
<1> QED
  BY <1>5, <1>6

\* A session that is read from or written to, when its controller sends
LEMMA SentIsGood ==
  ASSUME NEW x \in Sessions, HandledWell(x), x.numSent < Len(SentOf(x.script)), NEW y, IsSent(x, y),
         x.numSent = Len(x.script.plain) => NumHandled(x) = x.numSent,
         NEW cuts, NEW cipher, GoodWith(x, cuts, cipher), x.state \in {"Reading", "Writing"}
  PROVE  \E longer, more : GoodWith(y, longer, more)
<1> DEFINE first == Len(x.script.plain)
           bytes == Written(SentOf(x.script)[x.numSent + 1])
<1>1. /\ x.limit = Capacity /\ Buffers(x, x.mark, x.position, cuts, cipher)
      /\ x.state = "Reading" => NeedsMore(x, x.mark, x.position, cuts) /\ Waits(x, x.mark)
  BY DEF GoodWith
<1>2. y \in Sessions /\ SameButSending(x, y) /\ y.numSent = x.numSent + 1
  BY DEF IsSent
<1>3. y.state = x.state /\ y.limit = x.limit
  BY <1>2 DEF SameButSending
<1>4. x.state = "Reading" => Waits(y, y.mark)
  BY <1>1, <1>2, SentWaits
<1>5. \E longer, more : /\ Buffers(y, y.mark, y.position, longer, more)
                        /\ NeedsMore(y, y.mark, y.position, longer) \/ x.state = "Writing"
  <2>1. CASE x.numSent < first
    <3>1. y.wire = x.wire \o bytes /\ y.sentNonce = x.sentNonce
      <4>1. x.numSent \in Nat /\ first \in Nat
        BY SessionTypes, ScriptFacts
      <4>2. ~(x.numSent >= first)
        BY <2>1, <4>1
      <4> QED
        BY <4>2 DEF IsSent
    <3>2. Buffers(y, y.mark, y.position, cuts, cipher) /\ NeedsMore(y, y.mark, y.position, cuts)
      BY <1>1, <1>2, <2>1, <3>1, PlainSent
    <3> QED
      BY <3>2
  <2>2. CASE ~(x.numSent < first)
    <3>1. PICK size \in FrameSizes : /\ y.wire = x.wire \o Frames(bytes, size, x.sentNonce)
                                     /\ y.sentNonce = x.sentNonce + NumFrames(Len(bytes), size)
      BY <2>2 DEF IsSent
    <3>2. /\ x.script \in Scripts /\ x.numSent \in Nat /\ NumHandled(x) \in Nat /\ first \in Nat /\ Len(x.script.secure) \in Nat
          /\ Len(SentOf(x.script)) = first + Len(x.script.secure) /\ NumHandled(x) <= x.numSent
      BY SessionTypes, ScriptFacts DEF HandledWell
    <3>3. InSecure(x, x.mark, x.position, cuts, cipher)
      <4> SUFFICES ASSUME InPlain(x, x.mark, x.position) PROVE FALSE
        BY <1>1 DEF Buffers
      <4>1. x.numSent <= first /\ (NumHandled(x) = first => Len(x.script.secure) = 0)
        BY DEF InPlain
      <4>2. x.numSent = first
        BY <2>2, <3>2, <4>1
      <4>3. Len(x.script.secure) = 0
        BY <4>1, <4>2
      <4> DEFINE all == Len(SentOf(x.script))
      <4>4. all = first
        BY <3>2, <4>3
      <4> HIDE DEF first
      <4> QED
        BY <3>2, <4>2, <4>4
    <3>4. NeedsMore(x, x.mark, x.position, cuts) \/ x.state = "Writing"
      BY <1>1
    <3> QED
      BY <1>1, <1>2, <3>1, <3>3, <3>4, SecureSent
  <2> QED
    BY <2>1, <2>2
<1>6. PICK longer, more : /\ Buffers(y, y.mark, y.position, longer, more)
                          /\ NeedsMore(y, y.mark, y.position, longer) \/ x.state = "Writing"
  BY <1>5
<1>7. GoodWith(y, longer, more)
  BY <1>1, <1>3, <1>4, <1>6 DEF GoodWith
<1> QED
  BY <1>7

\* and when its controller sends a request.
LEMMA SendGood ==
  ASSUME Inv, Send
  PROVE  Inv'
<1> SUFFICES ASSUME ~lost PROVE Good(s')
  BY ZenonT(40) DEF Inv, Send
<1>1. /\ s \in Sessions /\ HandledWell(s) /\ s.state # "Failed" /\ IsExcused(s) /\ (s.isSecured => s.hasKeys)
      /\ s.numAnswered = NumHandled(s) - (IF s.state = "Writing" THEN 1 ELSE 0)
      /\ s.state \in {"Reading", "Writing"} => \E cuts, cipher : GoodWith(s, cuts, cipher)
  BY DEF Inv, Good
<1>2. /\ s.numSent < Len(SentOf(s.script)) /\ IsSent(s, s')
      /\ s.numSent = Len(s.script.plain) => s.numAnswered = s.numSent
  BY <1>1, SendFacts
<1>3. s' \in Sessions /\ SameButSending(s, s') /\ s'.numSent = s.numSent + 1
  BY <1>2 DEF IsSent
<1>4. HandledWell(s') /\ NumHandled(s') = NumHandled(s) /\ IsExcused(s')
  BY <1>1, <1>2, <1>3, SentFacts
<1>5. /\ s'.state = s.state /\ s'.isSecured = s.isSecured /\ s'.hasKeys = s.hasKeys /\ s'.numAnswered = s.numAnswered
  BY <1>3 DEF SameButSending
<1>6. s.numSent = Len(s.script.plain) => NumHandled(s) = s.numSent
  <2>1. NumHandled(s) \in Nat /\ s.numSent \in Nat /\ NumHandled(s) <= s.numSent /\ s.numAnswered <= NumHandled(s)
    <3>1. NumHandled(s) \in Nat /\ s.numSent \in Nat /\ NumHandled(s) <= s.numSent
      BY <1>1, SessionTypes DEF HandledWell
    <3> QED
      BY <1>1, <3>1
  <2> QED
    BY <1>2, <2>1
<1>7. s.state \in {"Reading", "Writing"} => \E cuts, cipher : GoodWith(s', cuts, cipher)
  BY <1>1, <1>2, <1>6, SentIsGood
<1> QED
  BY <1>1, <1>3, <1>4, <1>5, <1>7 DEF Good

-----------------------------------------------------------------------------
(* What the invariant says                                                 *)

\* A session that has nothing more on the way and waits for the rest of a request has all of it.
LEMMA AllArrived ==
  ASSUME NEW x \in Sessions, HandledWell(x), NEW cuts, NEW cipher, GoodWith(x, cuts, cipher), x.state = "Reading",
         x.wire = <<>>, NumHandled(x) < x.numSent
  PROVE  IsBad(NextOf(x))
<1> DEFINE q == NextOf(x)
           L == Len(Written(q))
           b == Base(x)
           p == x.position
           m == x.mark
           i == x.nonce
           n == NumHandled(x)
           sent == At(x.script, x.numSent)
<1>1. /\ Buffers(x, m, p, cuts, cipher) /\ NeedsMore(x, m, p, cuts) /\ Waits(x, m)
  BY DEF GoodWith
<1>2. /\ b \in Nat /\ p \in Nat /\ m \in Nat /\ m <= p /\ i \in Nat /\ x.sentNonce \in Nat /\ n \in Nat /\ x.numSent \in Nat
      /\ sent \in Nat
  BY <1>1, SessionTypes DEF Buffers
<1>3. Len(x.wire) = 0
  OBVIOUS
<1>4. IsRequest(q) /\ L \in Nat /\ b + L <= sent
  BY NextFacts
<1>5. n # x.numSent
  BY <1>2
<1>6. b + m = sent
  <2>1. CASE InPlain(x, m, p)
    <3>1. m = p /\ b + p + 0 = sent
      BY <1>3, <2>1 DEF InPlain
    <3> QED
      BY <1>2, <3>1
  <2>2. CASE InSecure(x, m, p, cuts, cipher)
    <3> DEFINE f == FrameAt(cuts, i)
               g == Len(cipher)
    <3>1. /\ AreFrames(x.script, cuts, cipher, x.numSent, x.sentNonce) /\ i <= x.sentNonce /\ b + m = cuts[i]
          /\ f + p - m + 0 = g
      BY <1>3, <2>2 DEF InSecure
    <3>2. cipher \in Seq(Int) /\ cuts[x.sentNonce] = sent
      BY <3>1 DEF AreFrames
    <3>3. ~(i < x.sentNonce)
      <4> SUFFICES ASSUME i < x.sentNonce PROVE FALSE
        OBVIOUS
      <4> DEFINE a == cuts[i]
                 c == cuts[i + 1]
                 h == FrameAt(cuts, i + 1)
      <4>1. i \in 0 .. x.sentNonce - 1
        BY <1>2
      <4>2. a \in Nat /\ c \in Nat /\ f \in Nat /\ h <= g /\ h = f + (c - a) + 3 /\ p - m < c - a + 3
        BY <1>1, <1>2, <3>1, <4>1, FrameEnds, SMTT(40) DEF NeedsMore
      <4>3. g \in Nat
        BY <3>2
      <4> HIDE DEF a, c, f, g, h, p, m
      <4> QED
        BY <1>2, <3>1, <4>2, <4>3, SMTT(40)
    <3>4. i = x.sentNonce
      BY <1>2, <3>1, <3>3
    <3> QED
      BY <3>1, <3>2, <3>4
  <2> QED
    BY <1>1, <2>1, <2>2 DEF Buffers
<1>7. m >= L
  <2> HIDE DEF m, L, b, sent
  <2> QED
    BY <1>2, <1>4, <1>6
<1>8. PICK j \in 0 .. 3 : AtRest(q, x, m, j)
  BY <1>1, <1>5 DEF Waits
<1>9. x.reader.state = "DONE" => m - x.readerPosition < BodyLength(q)
  BY <1>1, <1>5 DEF Waits
<1> QED
  BY <1>2, <1>4, <1>7, <1>8, <1>9, Stalled

\* A session that is good handles requests as they were meant.
LEMMA InvIntact == Inv => RequestsIntact
<1> SUFFICES ASSUME Inv, ~lost PROVE RequestsIntact
  BY DEF RequestsIntact
<1>1. /\ s \in Sessions /\ HandledWell(s) /\ IsExcused(s)
      /\ s.state \in {"Reading", "Writing"} => \E cuts, cipher : GoodWith(s, cuts, cipher)
  BY DEF Inv, Good
<1>2. OnlyBadRefused
  BY <1>1 DEF OnlyBadRefused, IsExcused, Sent, NumHandled
<1>3. /\ NumHandled(s) <= s.numSent /\ Len(s.sealed) = NumHandled(s) /\ NumHandled(s) \in Nat /\ s.numSent \in Nat
      /\ \A k \in 1 .. NumHandled(s) : s.handled[k] = Meant(SentOf(s.script)[k])
      /\ \A k \in 1 .. NumHandled(s) : s.sealed[k] <=> k > Len(s.script.plain)
  BY <1>1, SessionTypes DEF HandledWell
<1>4. DOMAIN s.handled = 1 .. NumHandled(s) /\ DOMAIN s.sealed = 1 .. NumHandled(s)
  <2>1. s.handled \in Seq(Handlings) /\ s.sealed \in Seq(BOOLEAN)
    BY <1>1 DEF Sessions
  <2> QED
    BY <1>3, <2>1 DEF NumHandled
<1>5. /\ \A k \in DOMAIN s.handled : s.handled[k] = Meant(Sent[k])
      /\ \A k \in DOMAIN s.sealed : s.sealed[k] <=> k > Len(s.script.plain)
  BY <1>3, <1>4 DEF Sent
<1>6. s.state = "Reading" /\ s.wire = <<>> /\ s.numSent > Len(s.handled) => IsBad(Sent[Len(s.handled) + 1])
  <2> SUFFICES ASSUME s.state = "Reading", s.wire = <<>>, s.numSent > Len(s.handled) PROVE IsBad(NextOf(s))
    BY DEF NextOf, Sent, NumHandled
  <2>1. NumHandled(s) < s.numSent
    BY <1>3 DEF NumHandled
  <2>2. PICK cuts, cipher : GoodWith(s, cuts, cipher)
    BY <1>1
  <2> QED
    BY <1>1, <2>1, <2>2, AllArrived
<1> QED
  BY <1>2, <1>3, <1>5, <1>6 DEF RequestsIntact, NumHandled

\* Requests are handled as they were sent, in their order, every one once and as soon as it is complete,
\* whatever pieces and frames they arrive in, unless what is behind one is lost (handle_input, read_http,
\* handle_http and HAPIPSecurityProtocolDecryptData), for any scripts, buffers and frames.
THEOREM RequestsAreIntact == SessionSpec => []RequestsIntact
<1>1. Inv /\ [SessionNext]_sessionVars => Inv'
  <2> SUFFICES ASSUME Inv, [SessionNext]_sessionVars PROVE Inv'
    OBVIOUS
  <2>1. CASE Send
    BY <2>1, SendGood
  <2>2. CASE ReadInboundData
    BY <2>2, ReadInboundDataGood
  <2>3. CASE OutputCompletion
    BY <2>3, OutputCompletionGood
  <2>4. CASE UNCHANGED sessionVars
    BY <2>4 DEF Inv, sessionVars
  <2> QED
    BY <2>1, <2>2, <2>3, <2>4 DEF SessionNext
<1> QED
  BY <1>1, InitGood, InvIntact, PTL DEF SessionSpec

=============================================================================
