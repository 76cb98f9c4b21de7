---------------------------- MODULE BLEAdvertising ----------------------------
(* What the accessory says while no central is connected over Bluetooth LE      *)
(* (HAP/HAPBLEAccessoryServer+Advertising.c, +Broadcast.c): regular             *)
(* advertisements carry the global state number (GSN), from which a controller  *)
(* learns that something has changed; a broadcasted event carries the value     *)
(* itself, sealed with the broadcast key and the GSN as nonce.  The GSN and the *)
(* key are persistent.                                                          *)
EXTENDS Integers

CONSTANTS
  MaxGSN,     \* UINT16_MAX
  KeyLife,    \* increments of the GSN after which a key expires: 32767
  Values      \* values of a characteristic

BLEAdvertisingAssumption ==
  /\ MaxGSN \in Nat /\ KeyLife \in Nat \ {0, 1} /\ KeyLife < MaxGSN

VARIABLE a

NoEvent == [on |-> FALSE]
Event(value) == [on |-> TRUE, value |-> value]
Silent == [kind |-> "none"]

\* The process has been started; keyExpiration is 0 without a key.
Created(gsn, keyExpiration) ==
  [gsn |-> gsn, keyExpiration |-> keyExpiration, running |-> FALSE, connected |-> FALSE,
   timer |-> FALSE, fastTimer |-> FALSE, fastStarted |-> FALSE, broadcastedEvent |-> NoEvent,
   air |-> Silent, fault |-> "none",
   \* history: what was sealed with the key, and whether its session may still renew it; the
   \* GSN controllers know, and whether something has changed since
   sealed |-> {}, sameKey |-> FALSE, known |-> gsn.n, changed |-> FALSE]

Init == a = Created([n |-> 1, didIncrement |-> FALSE], 0)

Fault(v, f) == IF v.fault = "none" THEN [v EXCEPT !.fault = f] ELSE v
Assert(v, condition, f) == IF condition THEN v ELSE Fault(v, f)

-----------------------------------------------------------------------------
(* Helpers of the source                                                        *)

\* HAPBLEAccessoryServerGetAdvertisingParameters, if there are any to get
AdvertisingParameters(v) ==
  IF v.broadcastedEvent.on
  THEN [kind |-> "broadcast", n |-> v.gsn.n, value |-> v.broadcastedEvent.value]
  ELSE [kind |-> "regular", n |-> v.gsn.n,
        fast |-> v.timer \/ ~v.fastStarted \/ v.fastTimer]

\* HAPBLEAccessoryServerDidStartAdvertising; a timer may not be available.
DidStartAdvertising(v) ==
  IF v.fastStarted THEN {v}
  ELSE {[Assert(v, ~v.fastTimer, "startedTwice") EXCEPT !.fastStarted = TRUE, !.fastTimer = on] :
          on \in BOOLEAN}

\* UpdateAdvertisingData
UpdateAdvertisingData(v) ==
  IF ~v.running \/ v.connected THEN {[v EXCEPT !.air = Silent]}
  ELSE IF v.broadcastedEvent.on /\ v.keyExpiration = 0 THEN {Fault(v, "keyMissing")}
  ELSE DidStartAdvertising(
         [v EXCEPT !.air = AdvertisingParameters(v),
                   !.sealed = IF v.broadcastedEvent.on
                              THEN @ \cup {<<v.gsn.n, v.broadcastedEvent.value>>} ELSE @])

\* HAPBLEAccessoryServerBroadcastExpireKey
ExpireKey(v) == [v EXCEPT !.keyExpiration = 0]

\* Mutant: a key is used beyond its life.
IncrementGSN_KeyKept(v) == [v EXCEPT !.gsn = [n |-> (v.gsn.n % MaxGSN) + 1, didIncrement |-> TRUE]]

\* HAPBLEAccessoryServerIncrementGSN: from the largest number to 1.
IncrementGSN(v) ==
  [IF v.gsn.n = v.keyExpiration THEN ExpireKey(v) ELSE v EXCEPT
     !.gsn = [n |-> (v.gsn.n % MaxGSN) + 1, didIncrement |-> TRUE]]

ResetCoalescing(v) ==
  [v EXCEPT !.gsn.didIncrement = FALSE, !.known = v.gsn.n, !.changed = FALSE]

\* The first event of a connection, or of the time between two, increments the GSN.
FirstEvent(v) ==
  IncrementGSN(Assert(Assert(v, ~v.broadcastedEvent.on, "broadcasting"), ~v.timer, "advertising"))

-----------------------------------------------------------------------------
(* Events                                                                       *)

MayBroadcast(v) == ~v.connected /\ v.keyExpiration # 0 /\ v.keyExpiration # v.gsn.n

\* The branch of DidRaiseEvent for characteristics that are broadcasted: the value is read,
\* which may fail, and a timer registered, which may fail.
Broadcast(v, value) ==
  LET cancelled == UpdateAdvertisingData([v EXCEPT !.timer = FALSE, !.broadcastedEvent = NoEvent])
      counted(u) == [IncrementGSN(u) EXCEPT !.changed = TRUE]
      outcomes(u) ==
        {u, counted(u), [counted(u) EXCEPT !.timer = TRUE, !.broadcastedEvent = Event(value)]}
  IN  UNION {UpdateAdvertisingData(o) : o \in UNION {outcomes(u) : u \in cancelled}}

\* Mutant: the new number waits for the next change of the advertisement.
Disconnected_Quietly(v) ==
  IF v.gsn.didIncrement THEN {v}
  ELSE IF v.connected THEN {FirstEvent(v)}
  ELSE {[FirstEvent(v) EXCEPT !.timer = on] : on \in BOOLEAN}

\* The branch for disconnected events
DisconnectedEvent(v) ==
  IF v.gsn.didIncrement THEN {v}
  ELSE IF v.connected THEN {FirstEvent(v)}
  ELSE UNION {UpdateAdvertisingData([FirstEvent(v) EXCEPT !.timer = on]) : on \in BOOLEAN}

\* HAPBLEAccessoryServerDidRaiseEvent for a characteristic with disconnected events, which
\* is also enabled for broadcasts or not.  Such an event is not counted a second time.
DidRaiseEvent(value, broadcasted) ==
  a' \in IF broadcasted /\ MayBroadcast(a) THEN Broadcast(a, value)
         ELSE DisconnectedEvent([a EXCEPT !.changed = TRUE])

\* HAPBLEAccessoryServerDidSendEventNotification
DidSendEventNotification ==
  /\ a.connected
  /\ a' = LET v == [a EXCEPT !.changed = TRUE] IN IF v.gsn.didIncrement THEN v ELSE FirstEvent(v)

-----------------------------------------------------------------------------
(* Connections and timers                                                       *)

\* Mutant: the numbers before and after the connection are one series.
DidConnect_StillCounted ==
  /\ a.running /\ ~a.connected
  /\ a' \in UpdateAdvertisingData(
       [ResetCoalescing(a) EXCEPT !.connected = TRUE, !.fastTimer = FALSE, !.timer = FALSE,
          !.broadcastedEvent = NoEvent, !.gsn.didIncrement = a.gsn.didIncrement])

\* HAPBLEAccessoryServerDidConnect.  The session of the connection is a new one.
DidConnect ==
  /\ a.running /\ ~a.connected
  /\ a' \in UpdateAdvertisingData(
       [ResetCoalescing(a) EXCEPT !.connected = TRUE, !.fastTimer = FALSE, !.timer = FALSE,
          !.broadcastedEvent = NoEvent, !.sameKey = FALSE])

\* HAPBLEAccessoryServerDidDisconnect
DidDisconnect ==
  LET v == Assert(Assert(Assert([a EXCEPT !.connected = FALSE], a.fastStarted, "notStarted"),
                         ~a.fastTimer, "fastTimer"), ~a.timer /\ ~a.broadcastedEvent.on, "timer")
  IN  /\ a.connected
      /\ \E on \in BOOLEAN : a' \in UpdateAdvertisingData([ResetCoalescing(v) EXCEPT !.fastTimer = on])

\* AdvertisingTimerExpired: a broadcasted event has had its time and is followed by a fast
\* regular advertisement.
TimerExpired(v) ==
  LET u == Assert(v, ~v.connected, "expiredWhileConnected")
      after == IF u.broadcastedEvent.on /\ ~u.timer
               THEN {[u EXCEPT !.broadcastedEvent = NoEvent, !.timer = on] : on \in BOOLEAN} ELSE {u}
  IN  UNION {UpdateAdvertisingData(x) : x \in after}

AdvertisingTimerExpired == a.timer /\ a' \in TimerExpired([a EXCEPT !.timer = FALSE])
FastTimerExpired == a.fastTimer /\ a' \in TimerExpired([a EXCEPT !.fastTimer = FALSE])

-----------------------------------------------------------------------------
(* Pairings and the server                                                      *)

\* HAPBLEAccessoryServerBroadcastGenerateKey: the key is derived from the session, so that the
\* same session gets the same key again.
Expiration(n) == LET e == n + KeyLife - 1 IN IF e > MaxGSN THEN e - MaxGSN ELSE e

GenerateKey ==
  /\ a.connected
  /\ a' = [a EXCEPT !.keyExpiration = Expiration(a.gsn.n), !.sameKey = TRUE,
                    !.sealed = IF a.sameKey THEN @ ELSE {}]

\* Pair Verify within the connection
NewSession == a.connected /\ a' = [a EXCEPT !.sameKey = FALSE]

\* HAPAccessoryServerCleanupPairings: over any transport, the last admin goes.
CleanupPairings == a' = [a EXCEPT !.keyExpiration = 0]

\* HAPAccessoryServerStart and HAPAccessoryServerStop.  It stops when no central is connected.
Start == ~a.running /\ ~a.connected /\ a' \in UpdateAdvertisingData([a EXCEPT !.running = TRUE])
Stop == a.running /\ a' \in UpdateAdvertisingData([a EXCEPT !.running = FALSE])

\* The process ends anywhere, between the two writes of IncrementGSN too, and starts again.
Restart ==
  LET v == IF a.gsn.n = a.keyExpiration THEN {a, ExpireKey(a)} ELSE {a}
  IN  \E u \in v : a' = [Created(u.gsn, u.keyExpiration) EXCEPT !.sealed = u.sealed,
                                                               !.known = u.known, !.changed = u.changed]

\* HAPHandleFirmwareUpdate as the process starts: controllers see a new configuration number.
FirmwareUpdate == a' = [Created([n |-> 1, didIncrement |-> FALSE], 0) EXCEPT !.sealed = a.sealed]

Next ==
  \/ Restart
  \/ /\ a.fault = "none"
     /\ \/ \E value \in Values, broadcasted \in BOOLEAN : DidRaiseEvent(value, broadcasted)
        \/ DidSendEventNotification \/ DidConnect \/ DidDisconnect
        \/ AdvertisingTimerExpired \/ FastTimerExpired
        \/ GenerateKey \/ NewSession \/ CleanupPairings \/ Start \/ Stop \/ FirmwareUpdate

Spec == Init /\ [][Next]_a

-----------------------------------------------------------------------------
\* Types; the timers and the broadcast are where the assertions say they are, but for a key
\* that is removed over IP while an event is broadcasted.
TypeOK ==
  /\ a.gsn.n \in 1 .. MaxGSN /\ a.keyExpiration \in 0 .. MaxGSN
  /\ a.fault \in {"none", "keyMissing"}
  /\ a.broadcastedEvent.on => a.timer /\ ~a.connected

\* No two values are ever sealed with the same key and the same nonce, although numbers wrap
\* and events may be broadcasted without limit (IncrementGSN, BroadcastGenerateKey).
NonceNotReused ==
  \A p, q \in a.sealed : p[1] = q[1] => p[2] = q[2]

EventNoticed == a.changed => a.gsn.n # a.known

OnAirIsCurrent ==
  a.fault = "none" =>
    IF a.running /\ ~a.connected
    THEN /\ a.air.kind = (IF a.broadcastedEvent.on THEN "broadcast" ELSE "regular")
         /\ a.air.n = a.gsn.n
         /\ a.broadcastedEvent.on => a.air.value = a.broadcastedEvent.value
    ELSE a.air = Silent

\* Controllers learn of what changes: the number differs from the one they knew when the last
\* connection began or ended as soon as anything has changed, and never comes round to it; and
\* the advertisement on the air shows the current number, or the event as long as it is
\* broadcasted. There is none while a central is connected or the server stopped.
ControllersInformed == EventNoticed /\ OnAirIsCurrent

=============================================================================
