-------------------------- MODULE ComponentsProofs --------------------------
(***************************************************************************)
(* Proofs about the components of module Components, one after the other,  *)
(* for any values of their constants: the key-value store, the             *)
(* advertisements over Bluetooth LE, what is broadcasted in them, the      *)
(* coprocessor, and the run loop with the TCP streams on top of it.        *)
(***************************************************************************)
EXTENDS Components, FiniteSetTheorems, SequenceTheorems, WellFoundedInduction, TLAPS

-----------------------------------------------------------------------------
(* The key-value store. What a call may leave behind is promised before    *)
(* its first step; what has been done so far, and whether the data have    *)
(* been brought to the disk, is known from where the call is (StoreCall).  *)

Replacing == {"open", "write", "sync", "directory", "rename", "commit"}
Removing == {"unlink", "unlinked"}

StoreStates ==
  [at : {"idle"} \cup Replacing \cup Removing, key : Keys \cup {Absent},
   value : Contents \cup {Absent}, synced : BOOLEAN, purging : BOOLEAN]

StoreTypes ==
  /\ file = [k \in Keys |-> file[k]]
  /\ durable = [k \in Keys |-> durable[k]]
  /\ promised = [k \in Keys |-> promised[k]]
  /\ op \in StoreStates

\* The call that is under way has been promised, and what it has done is found.
StoreCall ==
  /\ op.at \in Replacing => op.key \in Keys /\ op.value \in promised[op.key]
  /\ op.at \in {"directory", "rename", "commit"} => op.synced \/ op.key \in ignored
  /\ op.at = "commit" => file[op.key] = op.value
  /\ op.at \in Removing => op.key \in Keys /\ Absent \in promised[op.key]
  /\ op.at = "unlinked" => file[op.key] = Absent

StoreInv == StoreTypes /\ StoreCall /\ Store!StoreAtomic

\* A call ends early, or the process does: old and new content are promised.
LEMMA CallFails ==
  ASSUME StoreInv, Store!Failed, UNCHANGED file, UNCHANGED durable, ignored \subseteq ignored'
  PROVE  StoreInv'
<1>1. StoreTypes' /\ StoreCall'
  BY DEF StoreInv, StoreTypes, StoreStates, StoreCall, Store!Failed, Store!NoCall, Replacing, Removing
<1>2. Store!StoreAtomic'
  BY DEF StoreInv, Store!StoreAtomic, Store!Failed
<1> QED
  BY <1>1, <1>2 DEF StoreInv

\* A step that goes on to the next one and changes nothing that is found
LEMMA CallGoesOn ==
  ASSUME StoreInv, op'.key = op.key, op'.value = op.value, op' \in StoreStates,
         op.at \in Replacing, op'.at \in Replacing \ {"commit"},
         op'.at \in {"directory", "rename"} => op'.synced \/ op.key \in ignored',
         UNCHANGED <<file, durable, promised>>, ignored \subseteq ignored'
  PROVE  StoreInv'
<1>1. StoreTypes' /\ StoreCall'
  BY DEF StoreInv, StoreTypes, StoreStates, StoreCall, Replacing, Removing
<1>2. Store!StoreAtomic'
  BY DEF StoreInv, Store!StoreAtomic
<1> QED
  BY <1>1, <1>2 DEF StoreInv

\* Calls
LEMMA StoreCalls ==
  ASSUME StoreInv, Store!Call
  PROVE  StoreInv'
<1>1. ASSUME NEW k \in Keys, NEW v \in Contents, Store!Set(k, v)
      PROVE  StoreInv'
  <2>1. StoreTypes' /\ StoreCall'
    BY <1>1 DEF StoreInv, StoreTypes, StoreStates, StoreCall, Store!Set, Store!NoCall, Replacing, Removing
  <2>2. Store!StoreAtomic'
    BY <1>1 DEF StoreInv, StoreTypes, StoreStates, Store!StoreAtomic, Store!Set
  <2> QED
    BY <2>1, <2>2 DEF StoreInv
<1>2. ASSUME NEW k \in Keys, NEW purging \in BOOLEAN,
             op' = [Store!NoCall EXCEPT !.at = "unlink", !.key = k, !.purging = purging],
             promised' = [promised EXCEPT ![k] = @ \cup {Absent}],
             UNCHANGED <<file, durable, leftover, ignored>>
      PROVE  StoreInv'
  <2>1. StoreTypes' /\ StoreCall'
    BY <1>2 DEF StoreInv, StoreTypes, StoreStates, StoreCall, Store!NoCall, Replacing, Removing
  <2>2. Store!StoreAtomic'
    BY <1>2 DEF StoreInv, StoreTypes, StoreStates, Store!StoreAtomic
  <2> QED
    BY <2>1, <2>2 DEF StoreInv
<1>3. ASSUME NEW k \in Keys, Store!Remove(k)
      PROVE  StoreInv'
  <2>1. CASE Store!Get(k).found
    <3>1. op' = [Store!NoCall EXCEPT !.at = "unlink", !.key = k, !.purging = FALSE]
      BY <1>3, <2>1 DEF Store!Remove, Store!NoCall
    <3> QED
      BY <1>2, <1>3, <2>1, <3>1 DEF Store!Remove
  <2>2. CASE ~Store!Get(k).found
    BY <1>3, <2>2 DEF Store!Remove, StoreInv, StoreTypes, StoreStates, StoreCall, Store!StoreAtomic
  <2> QED
    BY <2>1, <2>2
<1>4. CASE Store!PurgeDomain
  BY <1>2, <1>4 DEF Store!PurgeDomain, Store!Enumerated
<1> QED
  BY <1>1, <1>3, <1>4 DEF Store!Call

\* The steps of a replacement, in their order
LEMMA StoreReplaces ==
  ASSUME StoreInv,
         \/ Store!OpenTemporary \/ Store!WriteTemporary \/ Store!SyncTemporary \/ Store!SyncDirectory
         \/ Store!Rename \/ Store!Commit
  PROVE  StoreInv'
<1>1. ASSUME Store!Failed, UNCHANGED <<file, durable, ignored>>
      PROVE  StoreInv'
  BY <1>1, CallFails
<1>2. op \in StoreStates
  BY DEF StoreInv, StoreTypes, StoreStates
<1>3. ASSUME op.at = "open", op' = [op EXCEPT !.at = "write"], UNCHANGED <<file, durable, promised, ignored>>
      PROVE  StoreInv'
  <2> QED
    BY <1>2, <1>3, CallGoesOn DEF StoreStates, Replacing
<1>4. ASSUME op.at = "write", op' = [op EXCEPT !.at = "sync"], UNCHANGED <<file, durable, promised, ignored>>
      PROVE  StoreInv'
  <2> QED
    BY <1>2, <1>4, CallGoesOn DEF StoreStates, Replacing
<1>5. CASE Store!SyncTemporary
  <2>1. PICK synced \in BOOLEAN :
          /\ op' = [op EXCEPT !.at = "directory", !.synced = synced]
          /\ ignored' = IF synced THEN ignored ELSE ignored \cup {op.key}
    BY <1>5 DEF Store!SyncTemporary
  <2>2. op.at = "sync" /\ UNCHANGED <<file, durable, promised>>
    BY <1>5 DEF Store!SyncTemporary
  <2> QED
    BY <1>2, <2>1, <2>2, CallGoesOn DEF StoreStates, Replacing
<1>6. ASSUME op.at = "directory", op' = [op EXCEPT !.at = "rename"], UNCHANGED <<file, durable, promised, ignored>>
      PROVE  StoreInv'
  <2>1. op.synced \/ op.key \in ignored
    BY <1>6 DEF StoreInv, StoreCall
  <2> QED
    BY <1>2, <1>6, <2>1, CallGoesOn DEF StoreStates, Replacing
<1>7. ASSUME op.at = "rename",
             file' = [file EXCEPT ![op.key] = op.value],
             durable' = [durable EXCEPT ![op.key] = @ \cup Store!Found],
             op' = [op EXCEPT !.at = "commit"],
             UNCHANGED <<promised, ignored>>
      PROVE  StoreInv'
  <2>1. op.key \in Keys /\ op.value \in promised[op.key] /\ (op.synced \/ op.key \in ignored)
    BY <1>7 DEF StoreInv, StoreCall, Replacing
  <2>2. StoreTypes' /\ StoreCall'
    BY <1>2, <1>7, <2>1 DEF StoreInv, StoreTypes, StoreStates, StoreCall, Replacing, Removing
  <2>3. op.key \notin ignored => Store!Found \subseteq promised[op.key]
    BY <2>1 DEF Store!Found
  <2>4. Store!StoreAtomic'
    BY <1>7, <2>1, <2>3 DEF StoreInv, StoreTypes, StoreStates, Store!StoreAtomic
  <2> QED
    BY <2>2, <2>4 DEF StoreInv
<1>8. ASSUME op.at = "commit",
             durable' = [durable EXCEPT ![op.key] = Store!Found],
             op' = Store!NoCall, promised' = [promised EXCEPT ![op.key] = {op.value}],
             UNCHANGED <<file, ignored>>
      PROVE  StoreInv'
  <2>1. op.key \in Keys /\ file[op.key] = op.value /\ (op.synced \/ op.key \in ignored)
    BY <1>8 DEF StoreInv, StoreCall, Replacing
  <2>2. StoreTypes' /\ StoreCall'
    BY <1>8, <2>1 DEF StoreInv, StoreTypes, StoreStates, StoreCall, Store!NoCall, Replacing, Removing
  <2>3. Store!StoreAtomic'
    BY <1>8, <2>1 DEF StoreInv, StoreTypes, StoreStates, Store!StoreAtomic, Store!Found
  <2> QED
    BY <2>2, <2>3 DEF StoreInv
<1> QED
  BY <1>1, <1>3, <1>4, <1>5, <1>6, <1>7, <1>8
     DEF Store!OpenTemporary, Store!WriteTemporary, Store!SyncDirectory, Store!Rename, Store!Commit, Store!Succeeded

\* The steps of a removal, and of one after the other
LEMMA StoreRemoves ==
  ASSUME StoreInv, Store!Unlink \/ Store!Removed
  PROVE  StoreInv'
<1>1. CASE Store!Unlink /\ Store!Failed /\ UNCHANGED <<file, durable>>
  BY <1>1, CallFails DEF Store!Unlink
<1>2. op \in StoreStates /\ op.at \in {"unlink", "unlinked"} /\ op.key \in Keys /\ Absent \in promised[op.key]
  BY DEF StoreInv, StoreTypes, StoreStates, StoreCall, Removing, Store!Unlink, Store!Removed
<1>3. ASSUME file' = [file EXCEPT ![op.key] = Absent],
             durable' = [durable EXCEPT ![op.key] = @ \cup {Absent}],
             op' = [op EXCEPT !.at = "unlinked"],
             UNCHANGED <<promised, ignored>>
      PROVE  StoreInv'
  <2>1. StoreTypes' /\ StoreCall'
    BY <1>2, <1>3 DEF StoreInv, StoreTypes, StoreStates, StoreCall, Replacing, Removing
  <2>2. Store!StoreAtomic'
    BY <1>2, <1>3 DEF StoreInv, StoreTypes, StoreStates, Store!StoreAtomic
  <2> QED
    BY <2>1, <2>2 DEF StoreInv
<1>4. CASE Store!Removed
  <2>1. /\ \/ durable' = [durable EXCEPT ![op.key] = {Absent}] /\ UNCHANGED ignored
           \/ ignored' = ignored \cup {op.key} /\ UNCHANGED durable
        /\ UNCHANGED file
        /\ promised' = [k \in Keys |->
                          IF k = op.key THEN {Absent}
                          ELSE IF op'.key = k THEN promised[k] \cup {Absent} ELSE promised[k]]
    BY <1>4 DEF Store!Removed
  <2>2. file[op.key] = Absent
    BY <1>4 DEF StoreInv, StoreCall, Store!Removed
  <2>3. Store!StoreAtomic'
    BY <1>2, <2>1, <2>2 DEF StoreInv, StoreTypes, StoreStates, Store!StoreAtomic
  <2>4. op' = Store!NoCall \/ \E k \in Keys : op' = [op EXCEPT !.at = "unlink", !.key = k]
    BY <1>4 DEF Store!Removed, Store!NextPurged, Store!Enumerated
  <2>5. StoreTypes' /\ StoreCall'
    <3>1. CASE op' = Store!NoCall
      BY <2>1, <3>1 DEF StoreInv, StoreTypes, StoreStates, StoreCall, Store!NoCall, Replacing, Removing
    <3>2. ASSUME NEW k \in Keys, op' = [op EXCEPT !.at = "unlink", !.key = k]
          PROVE  StoreTypes' /\ StoreCall'
      BY <1>2, <2>1, <3>2 DEF StoreInv, StoreTypes, StoreStates, StoreCall, Replacing, Removing
    <3> QED
      BY <2>4, <3>1, <3>2
  <2> QED
    BY <2>3, <2>5 DEF StoreInv
<1> QED
  BY <1>1, <1>3, <1>4 DEF Store!Unlink

\* Wherever the process ends or the power fails, every key is found with the old or the new
\* content, and after a call that has succeeded with the new one, unless an error of fsync was
\* ignored: for any keys, contents and number of calls.
THEOREM StoreIsAtomic == Store!Spec => []StoreAtomic
<1>1. Store!Init => StoreInv
  BY DEF Store!Init, Store!NoCall, StoreInv, StoreTypes, StoreStates, StoreCall, Store!StoreAtomic, Replacing, Removing
<1>2. StoreInv /\ [Store!Next]_storePart => StoreInv'
  <2> SUFFICES ASSUME StoreInv, [Store!Next]_storePart PROVE StoreInv'
    OBVIOUS
  <2>1. CASE Store!ProcessCrash
    BY <2>1, CallFails DEF Store!ProcessCrash
  <2>2. CASE Store!PowerFailure
    <3>1. /\ file' \in [Keys -> UNION {durable[k] : k \in Keys}]
          /\ durable' = [k \in Keys |-> {file'[k]}] /\ promised' = durable' /\ op' = Store!NoCall
      BY <2>2 DEF Store!PowerFailure
    <3> QED
      BY <3>1 DEF StoreInv, StoreTypes, StoreStates, StoreCall, Store!StoreAtomic, Store!NoCall, Replacing, Removing
  <2>3. CASE UNCHANGED storePart
    BY <2>3 DEF storePart, StoreInv, StoreTypes, StoreStates, StoreCall, Store!StoreAtomic
  <2> QED
    BY <2>1, <2>2, <2>3, StoreCalls, StoreReplaces, StoreRemoves DEF Store!Next, Store!Step
<1>3. StoreInv => StoreAtomic
  BY DEF StoreInv, StoreAtomic
<1> QED
  BY <1>1, <1>2, <1>3, PTL DEF Store!Spec, Store!vars, storePart

-----------------------------------------------------------------------------
(* What is advertised. The numbers after the one a key was made for, up to *)
(* the one at which it expires, are counted around the end of their range  *)
(* (Distance): those sealed lie behind, those the controllers know of are  *)
(* fewer than the key may live, and so no number comes round.              *)

Distance(x, y) == IF x <= y THEN y - x ELSE y - x + MaxGSN

GSNs == 1 .. MaxGSN
Counters == [n : GSNs, didIncrement : BOOLEAN]
Expirations == 0 .. MaxGSN
Advertisements ==
  {Advertising!Silent} \cup [kind : {"broadcast"}, n : GSNs, value : Values]
    \cup [kind : {"regular"}, n : GSNs, fast : BOOLEAN]
BroadcastedEvents == [on : {FALSE}] \cup [on : {TRUE}, value : Values]
AdvertisingStates ==
  [gsn : Counters, keyExpiration : Expirations,
   running : BOOLEAN, connected : BOOLEAN, timer : BOOLEAN, fastTimer : BOOLEAN, fastStarted : BOOLEAN,
   broadcastedEvent : BroadcastedEvents, air : Advertisements,
   fault : {"none", "keyMissing", "startedTwice", "broadcasting", "advertising", "notStarted", "fastTimer",
            "timer", "expiredWhileConnected"},
   sealed : SUBSET (GSNs \X Values), sameKey : BOOLEAN, known : GSNs, changed : BOOLEAN]

\* What was sealed with the key lies behind, and the event on the air was sealed with the number.
KeySound(v) ==
  /\ \A p, q \in v.sealed : p[1] = q[1] => p[2] = q[2]
  /\ v.connected /\ v.sameKey => v.sealed = {}
  /\ v.keyExpiration # 0 =>
       \A p \in v.sealed : Distance(v.gsn.n, v.keyExpiration) <= Distance(p[1], v.keyExpiration)
  /\ v.broadcastedEvent.on =>
       /\ v.gsn.didIncrement /\ ~v.connected
       /\ \A p \in v.sealed : p[1] = v.gsn.n => p[2] = v.broadcastedEvent.value

\* The number has gone on since the controllers knew it by no more than a key lives.
CountSound(v) ==
  /\ ~v.gsn.didIncrement => v.known = v.gsn.n
  /\ v.gsn.didIncrement => v.known # v.gsn.n
  /\ Distance(v.known, v.gsn.n) <= KeyLife
  /\ v.connected => Distance(v.known, v.gsn.n) <= 1
  /\ v.keyExpiration # 0 =>
       Distance(v.known, v.gsn.n) + Distance(v.gsn.n, v.keyExpiration) <= KeyLife

\* What has changed has been counted.
ChangeCounted(v) == v.changed => v.gsn.didIncrement

AdvertisingSound(v) == v \in AdvertisingStates /\ KeySound(v) /\ CountSound(v)

Shown(v) ==
  v.fault = "none" =>
    IF v.running /\ ~v.connected
    THEN /\ v.air.kind = (IF v.broadcastedEvent.on THEN "broadcast" ELSE "regular")
         /\ v.air.n = v.gsn.n
         /\ v.broadcastedEvent.on => v.air.value = v.broadcastedEvent.value
    ELSE v.air = Advertising!Silent

AdvertisingInv == AdvertisingSound(a) /\ ChangeCounted(a) /\ Shown(a)

\* The numbers on their way around
LEMMA NextNumber ==
  ASSUME Advertising!BLEAdvertisingAssumption, NEW n \in GSNs
  PROVE  (n % MaxGSN) + 1 = IF n = MaxGSN THEN 1 ELSE n + 1
BY DEF Advertising!BLEAdvertisingAssumption, GSNs

LEMMA Distances ==
  ASSUME Advertising!BLEAdvertisingAssumption, NEW n \in GSNs, NEW e \in GSNs
  PROVE  LET next == (n % MaxGSN) + 1
         IN  /\ next \in GSNs /\ next # n
             /\ Distance(n, e) \in 0 .. MaxGSN - 1 /\ (Distance(n, e) = 0 => n = e)
             /\ n # e => Distance(next, e) = Distance(n, e) - 1
             /\ Distance(e, n) < MaxGSN - 1 => Distance(e, next) = Distance(e, n) + 1
<1> DEFINE next == (n % MaxGSN) + 1
<1>1. MaxGSN \in Nat /\ MaxGSN > 1 /\ n \in 1 .. MaxGSN /\ e \in 1 .. MaxGSN
  BY DEF Advertising!BLEAdvertisingAssumption, GSNs
<1>2. next = IF n = MaxGSN THEN 1 ELSE n + 1
  BY NextNumber
<1> HIDE DEF next
<1>3. next \in GSNs /\ next # n
  BY <1>1, <1>2 DEF GSNs
<1>4. Distance(n, e) \in 0 .. MaxGSN - 1 /\ (Distance(n, e) = 0 => n = e)
  BY <1>1 DEF Distance
<1>5. n # e => Distance(next, e) = Distance(n, e) - 1
  BY <1>1, <1>2 DEF Distance
<1>6. Distance(e, n) < MaxGSN - 1 => Distance(e, next) = Distance(e, n) + 1
  BY <1>1, <1>2 DEF Distance
<1> QED
  BY <1>3, <1>4, <1>5, <1>6 DEF next

\* What the invariant is about does not depend on timers and advertisements.
LEMMA Alike ==
  ASSUME NEW v, AdvertisingSound(v), NEW u \in AdvertisingStates,
         u.gsn = v.gsn, u.keyExpiration = v.keyExpiration, u.connected = v.connected,
         u.broadcastedEvent = v.broadcastedEvent, u.sealed = v.sealed, u.sameKey = v.sameKey,
         u.known = v.known
  PROVE  AdvertisingSound(u)
BY DEF AdvertisingSound, KeySound, CountSound

\* The number goes on: at the first event, or for a value that is broadcasted while there is a key.
LEMMA Increments ==
  ASSUME Advertising!BLEAdvertisingAssumption, NEW v, AdvertisingSound(v), ~v.broadcastedEvent.on,
         v.gsn.didIncrement => Advertising!MayBroadcast(v),
         NEW w, w = Advertising!IncrementGSN(v)
  PROVE  /\ AdvertisingSound(w) /\ w.gsn.didIncrement
         /\ w.broadcastedEvent = v.broadcastedEvent /\ w.connected = v.connected
         /\ w.air = v.air /\ w.fault = v.fault
         /\ Advertising!MayBroadcast(v) => w.keyExpiration # 0
         /\ w.keyExpiration # 0 => \A p \in w.sealed : p[1] # w.gsn.n
<1> DEFINE next == (v.gsn.n % MaxGSN) + 1
<1>1. v \in AdvertisingStates /\ v.gsn.n \in GSNs /\ v.keyExpiration \in Expirations /\ v.known \in GSNs
      /\ v.sealed \in SUBSET (GSNs \X Values) /\ 0 \in Expirations
  BY DEF AdvertisingSound, AdvertisingStates, Counters, Expirations, Advertising!BLEAdvertisingAssumption
<1>2. next \in GSNs /\ next # v.gsn.n
  BY <1>1, Distances
<1> DEFINE x == IF v.gsn.n = v.keyExpiration THEN [v EXCEPT !.keyExpiration = 0] ELSE v
<1>3. /\ x \in AdvertisingStates
      /\ x.keyExpiration = IF v.gsn.n = v.keyExpiration THEN 0 ELSE v.keyExpiration
      /\ x.connected = v.connected /\ x.broadcastedEvent = v.broadcastedEvent
      /\ x.air = v.air /\ x.fault = v.fault
      /\ x.sealed = v.sealed /\ x.sameKey = v.sameKey /\ x.known = v.known /\ x.changed = v.changed
  BY <1>1 DEF AdvertisingStates
<1> DEFINE g == [n |-> next, didIncrement |-> TRUE]
<1>4. w = [x EXCEPT !.gsn = g] /\ g \in Counters
  BY <1>2 DEF Counters, Advertising!IncrementGSN, Advertising!ExpireKey
<1> HIDE DEF x, g
<1>5. /\ w \in AdvertisingStates
      /\ w.gsn = g
      /\ w.keyExpiration = IF v.gsn.n = v.keyExpiration THEN 0 ELSE v.keyExpiration
      /\ w.connected = v.connected /\ w.broadcastedEvent = v.broadcastedEvent
      /\ w.air = v.air /\ w.fault = v.fault
      /\ w.sealed = v.sealed /\ w.sameKey = v.sameKey /\ w.known = v.known /\ w.changed = v.changed
  BY <1>3, <1>4 DEF AdvertisingStates
<1>6. v.keyExpiration # 0 =>
        /\ v.keyExpiration \in GSNs
        /\ Distance(v.gsn.n, v.keyExpiration) \in 0 .. MaxGSN - 1
        /\ v.gsn.n # v.keyExpiration =>
             /\ Distance(v.gsn.n, v.keyExpiration) # 0
             /\ Distance(next, v.keyExpiration) = Distance(v.gsn.n, v.keyExpiration) - 1
  BY <1>1, Distances DEF Expirations, GSNs, Advertising!BLEAdvertisingAssumption
<1>7. /\ Distance(v.known, v.gsn.n) \in 0 .. MaxGSN - 1
      /\ Distance(v.known, v.gsn.n) < MaxGSN - 1 => Distance(v.known, next) = Distance(v.known, v.gsn.n) + 1
      /\ Distance(v.known, next) = 0 => v.known = next
  BY <1>1, <1>2, Distances
<1>8. /\ Distance(v.known, v.gsn.n) < KeyLife /\ (v.connected => Distance(v.known, v.gsn.n) = 0)
  <2>1. CASE v.gsn.didIncrement
    <3>1. ~v.connected /\ v.keyExpiration # 0 /\ v.keyExpiration # v.gsn.n
      BY <2>1 DEF Advertising!MayBroadcast
    <3>2. Distance(v.known, v.gsn.n) + Distance(v.gsn.n, v.keyExpiration) <= KeyLife
      BY <3>1 DEF AdvertisingSound, CountSound
    <3> QED
      BY <1>6, <1>7, <3>1, <3>2 DEF Advertising!BLEAdvertisingAssumption
  <2>2. CASE ~v.gsn.didIncrement
    <3>1. v.known = v.gsn.n
      BY <2>2 DEF AdvertisingSound, CountSound
    <3> QED
      BY <1>1, <3>1 DEF Distance, GSNs, Advertising!BLEAdvertisingAssumption
  <2> QED
    BY <2>1, <2>2
<1>9. Distance(v.known, next) = Distance(v.known, v.gsn.n) + 1 /\ Distance(v.known, next) <= KeyLife
  BY <1>7, <1>8 DEF Advertising!BLEAdvertisingAssumption
<1>10. w.gsn.n = next /\ w.gsn.didIncrement
  BY <1>5 DEF g
<1> HIDE DEF next
<1>11. CountSound(w)
  <2>1. v.known # next /\ (v.connected => Distance(v.known, next) <= 1)
    <3>1. Distance(next, next) = 0
      BY <1>2 DEF Distance, GSNs, Advertising!BLEAdvertisingAssumption
    <3> QED
      BY <1>7, <1>8, <1>9, <3>1 DEF Advertising!BLEAdvertisingAssumption
  <2>2. w.keyExpiration # 0 =>
          Distance(v.known, next) + Distance(next, w.keyExpiration) <= KeyLife
    BY <1>5, <1>6, <1>7, <1>9 DEF AdvertisingSound, CountSound
  <2> QED
    BY <1>5, <1>9, <1>10, <2>1, <2>2 DEF AdvertisingSound, CountSound
<1>12. ASSUME NEW p \in v.sealed, w.keyExpiration # 0
       PROVE  /\ p[1] # next
              /\ Distance(next, w.keyExpiration) <= Distance(p[1], w.keyExpiration)
  <2>1. p[1] \in GSNs /\ w.keyExpiration = v.keyExpiration /\ v.gsn.n # v.keyExpiration
    BY <1>1, <1>5, <1>12
  <2>2. Distance(v.gsn.n, v.keyExpiration) <= Distance(p[1], v.keyExpiration)
    BY <1>12, <2>1 DEF AdvertisingSound, KeySound
  <2>3. Distance(p[1], v.keyExpiration) \in 0 .. MaxGSN - 1
    BY <1>6, <1>12, <2>1, Distances
  <2> QED
    BY <1>6, <1>12, <2>1, <2>2, <2>3 DEF Advertising!BLEAdvertisingAssumption
<1>13. KeySound(w)
  BY <1>5, <1>10, <1>12 DEF AdvertisingSound, KeySound
<1> QED
  BY <1>5, <1>10, <1>11, <1>12, <1>13 DEF AdvertisingSound, Advertising!MayBroadcast

\* UpdateAdvertisingData: the advertisement is brought up to date, and nothing else that the
\* invariant is about changes but what has been sealed.
LEMMA Updates ==
  ASSUME Advertising!BLEAdvertisingAssumption, NEW v, AdvertisingSound(v),
         NEW u \in Advertising!UpdateAdvertisingData(v)
  PROVE  /\ AdvertisingSound(u) /\ Shown(u)
         /\ u.gsn = v.gsn /\ u.keyExpiration = v.keyExpiration /\ u.connected = v.connected
         /\ u.broadcastedEvent = v.broadcastedEvent /\ u.changed = v.changed
<1>1. v \in AdvertisingStates /\ v.gsn.n \in GSNs /\ v.gsn.didIncrement \in BOOLEAN
      /\ v.broadcastedEvent \in BroadcastedEvents
      /\ v.sealed \in SUBSET (GSNs \X Values) /\ {v.timer, v.fastTimer, v.fastStarted} \subseteq BOOLEAN
  BY DEF AdvertisingSound, AdvertisingStates, Counters
<1>2. CASE ~v.running \/ v.connected
  <2>1. u = [v EXCEPT !.air = Advertising!Silent] /\ Advertising!Silent \in Advertisements
    BY <1>2 DEF Advertising!UpdateAdvertisingData, Advertisements
  <2>2. /\ u \in AdvertisingStates /\ u.air = Advertising!Silent
        /\ u.gsn = v.gsn /\ u.keyExpiration = v.keyExpiration /\ u.connected = v.connected /\ u.running = v.running
        /\ u.broadcastedEvent = v.broadcastedEvent /\ u.sealed = v.sealed /\ u.sameKey = v.sameKey
        /\ u.known = v.known /\ u.changed = v.changed
    BY <1>1, <2>1 DEF AdvertisingStates
  <2> QED
    BY <1>2, <2>2 DEF AdvertisingSound, KeySound, CountSound, Shown
<1>3. CASE /\ ~(~v.running \/ v.connected)
           /\ v.broadcastedEvent.on /\ v.keyExpiration = 0
  <2>1. u = IF v.fault = "none" THEN [v EXCEPT !.fault = "keyMissing"] ELSE v
    BY <1>3 DEF Advertising!UpdateAdvertisingData, Advertising!Fault
  <2>2. /\ u \in AdvertisingStates /\ u.fault # "none"
        /\ u.gsn = v.gsn /\ u.keyExpiration = v.keyExpiration /\ u.connected = v.connected
        /\ u.broadcastedEvent = v.broadcastedEvent /\ u.sealed = v.sealed /\ u.sameKey = v.sameKey
        /\ u.known = v.known /\ u.changed = v.changed
    BY <1>1, <2>1 DEF AdvertisingStates
  <2> QED
    BY <2>2 DEF AdvertisingSound, KeySound, CountSound, Shown
<1>4. CASE /\ ~(~v.running \/ v.connected)
           /\ ~(v.broadcastedEvent.on /\ v.keyExpiration = 0)
  <2> DEFINE air == Advertising!AdvertisingParameters(v)
             added == IF v.broadcastedEvent.on
                      THEN v.sealed \cup {<<v.gsn.n, v.broadcastedEvent.value>>} ELSE v.sealed
             x == [v EXCEPT !.air = air]
             y == [x EXCEPT !.sealed = added]
  <2>1. /\ air \in Advertisements /\ air.n = v.gsn.n
        /\ air.kind = IF v.broadcastedEvent.on THEN "broadcast" ELSE "regular"
        /\ v.broadcastedEvent.on => air.value = v.broadcastedEvent.value /\ v.broadcastedEvent.value \in Values
    BY <1>1 DEF Advertising!AdvertisingParameters, Advertisements, BroadcastedEvents
  <2>2. added \in SUBSET (GSNs \X Values)
    BY <1>1, <2>1
  <2>3. u \in Advertising!DidStartAdvertising(y)
    BY <1>4 DEF Advertising!UpdateAdvertisingData
  <2> HIDE DEF air, added
  <2>4. /\ x \in AdvertisingStates /\ x.air = air
        /\ x.gsn = v.gsn /\ x.keyExpiration = v.keyExpiration /\ x.connected = v.connected /\ x.running = v.running
        /\ x.broadcastedEvent = v.broadcastedEvent /\ x.sameKey = v.sameKey
        /\ x.known = v.known /\ x.changed = v.changed
    BY <1>1, <2>1 DEF AdvertisingStates
  <2> HIDE DEF x
  <2>5. /\ y \in AdvertisingStates /\ y.air = air /\ y.sealed = added
        /\ y.gsn = v.gsn /\ y.keyExpiration = v.keyExpiration /\ y.connected = v.connected /\ y.running = v.running
        /\ y.broadcastedEvent = v.broadcastedEvent /\ y.sameKey = v.sameKey
        /\ y.known = v.known /\ y.changed = v.changed
    BY <2>2, <2>4 DEF AdvertisingStates
  <2> HIDE DEF y
  <2>6. /\ u \in AdvertisingStates /\ u.air = air /\ u.sealed = added
        /\ u.gsn = v.gsn /\ u.keyExpiration = v.keyExpiration /\ u.connected = v.connected /\ u.running = v.running
        /\ u.broadcastedEvent = v.broadcastedEvent /\ u.sameKey = v.sameKey
        /\ u.known = v.known /\ u.changed = v.changed
    <3>1. CASE y.fastStarted
      BY <2>3, <2>5, <3>1 DEF Advertising!DidStartAdvertising
    <3>2. ASSUME ~y.fastStarted,
                 NEW on \in BOOLEAN, NEW z \in {y, [y EXCEPT !.fault = "startedTwice"]},
                 u = [z EXCEPT !.fastStarted = TRUE, !.fastTimer = on]
          PROVE  /\ u \in AdvertisingStates /\ u.air = air /\ u.sealed = added
                 /\ u.gsn = v.gsn /\ u.keyExpiration = v.keyExpiration
                 /\ u.connected = v.connected /\ u.running = v.running
                 /\ u.broadcastedEvent = v.broadcastedEvent /\ u.sameKey = v.sameKey
                 /\ u.known = v.known /\ u.changed = v.changed
      <4>1. /\ z \in AdvertisingStates /\ z.air = air /\ z.sealed = added
            /\ z.gsn = v.gsn /\ z.keyExpiration = v.keyExpiration
            /\ z.connected = v.connected /\ z.running = v.running
            /\ z.broadcastedEvent = v.broadcastedEvent /\ z.sameKey = v.sameKey
            /\ z.known = v.known /\ z.changed = v.changed
        BY <2>5 DEF AdvertisingStates
      <4> QED
        BY <3>2, <4>1 DEF AdvertisingStates
    <3>3. CASE ~y.fastStarted
      BY <2>3, <3>2, <3>3, Zenon
         DEF Advertising!DidStartAdvertising, Advertising!Assert, Advertising!Fault
    <3> QED
      BY <3>1, <3>3
  <2>7. v.broadcastedEvent.on =>
          /\ Distance(v.gsn.n, v.keyExpiration) \in Int
          /\ ~v.connected /\ v.keyExpiration # 0 /\ v.gsn.didIncrement
    <3>1. v.keyExpiration \in Expirations
      BY DEF AdvertisingSound, AdvertisingStates
    <3> QED
      BY <1>1, <1>4, <3>1 DEF Distance, GSNs, Expirations, Advertising!BLEAdvertisingAssumption, AdvertisingSound, KeySound
  <2>8. KeySound(u)
    <3>1. CASE v.broadcastedEvent.on
      <4>1. added = v.sealed \cup {<<v.gsn.n, v.broadcastedEvent.value>>}
        BY <3>1 DEF added
      <4> QED
        BY <2>6, <2>7, <3>1, <4>1 DEF AdvertisingSound, KeySound
    <3>2. CASE ~v.broadcastedEvent.on
      BY <2>6, <3>2 DEF AdvertisingSound, KeySound, added
    <3> QED
      BY <3>1, <3>2
  <2>9. CountSound(u)
    BY <2>6 DEF AdvertisingSound, CountSound
  <2>10. Shown(u)
    BY <1>4, <2>1, <2>6 DEF Shown
  <2> QED
    BY <2>6, <2>8, <2>9, <2>10 DEF AdvertisingSound
<1> QED
  BY <1>2, <1>3, <1>4

\* The first event of a connection, or between two
LEMMA FirstEvents ==
  ASSUME Advertising!BLEAdvertisingAssumption, NEW v, AdvertisingSound(v), ~v.gsn.didIncrement,
         NEW w, w = Advertising!FirstEvent(v)
  PROVE  /\ AdvertisingSound(w) /\ w.gsn.didIncrement
         /\ w.connected = v.connected /\ w.broadcastedEvent = v.broadcastedEvent
         /\ w.air = v.air /\ (w.fault = "none" => v.fault = "none")
<1>1. ASSUME NEW x, AdvertisingSound(x), NEW f \in {"broadcasting", "advertising"},
             NEW y, y = [x EXCEPT !.fault = f]
      PROVE  /\ AdvertisingSound(y)
             /\ y.gsn = x.gsn /\ y.broadcastedEvent = x.broadcastedEvent /\ y.connected = x.connected
             /\ y.air = x.air /\ y.fault # "none"
  <2>1. /\ y \in AdvertisingStates
        /\ y.gsn = x.gsn /\ y.keyExpiration = x.keyExpiration /\ y.connected = x.connected
        /\ y.broadcastedEvent = x.broadcastedEvent /\ y.sealed = x.sealed /\ y.sameKey = x.sameKey
        /\ y.known = x.known /\ y.air = x.air /\ y.fault # "none"
    BY <1>1 DEF AdvertisingSound, AdvertisingStates
  <2> QED
    BY <1>1, <2>1, Alike
<1> DEFINE x == Advertising!Assert(v, ~v.broadcastedEvent.on, "broadcasting")
           y == Advertising!Assert(x, ~v.timer, "advertising")
<1>2. x.air = v.air /\ (x.fault = "none" => v.fault = "none") /\ AdvertisingSound(x) /\ x.gsn = v.gsn /\ x.broadcastedEvent = v.broadcastedEvent /\ x.connected = v.connected
  BY <1>1 DEF Advertising!Assert, Advertising!Fault
<1> HIDE DEF x
<1>3. y.air = v.air /\ (y.fault = "none" => v.fault = "none") /\ AdvertisingSound(y) /\ y.gsn = v.gsn /\ y.broadcastedEvent = v.broadcastedEvent /\ y.connected = v.connected
  BY <1>1, <1>2 DEF Advertising!Assert, Advertising!Fault
<1>4. w = Advertising!IncrementGSN(y)
  BY DEF Advertising!FirstEvent, x, y
<1> HIDE DEF y
<1>5. ~y.broadcastedEvent.on
  BY <1>3 DEF AdvertisingSound, KeySound
<1> QED
  BY <1>3, <1>4, <1>5, Increments

\* A value is broadcasted.
LEMMA Broadcasting ==
  ASSUME Advertising!BLEAdvertisingAssumption, NEW v, AdvertisingSound(v), ChangeCounted(v),
         Advertising!MayBroadcast(v), NEW value \in Values, NEW r \in Advertising!Broadcast(v, value)
  PROVE  AdvertisingSound(r) /\ ChangeCounted(r) /\ Shown(r)
<1> DEFINE c == [v EXCEPT !.timer = FALSE, !.broadcastedEvent = Advertising!NoEvent]
           counted(u) == [Advertising!IncrementGSN(u) EXCEPT !.changed = TRUE]
           sent(u) == [counted(u) EXCEPT !.timer = TRUE, !.broadcastedEvent = Advertising!Event(value)]
<1>1. PICK u \in Advertising!UpdateAdvertisingData(c) :
        \E o \in {u, counted(u), sent(u)} : r \in Advertising!UpdateAdvertisingData(o)
  BY Zenon DEF Advertising!Broadcast
<1>2. /\ c \in AdvertisingStates /\ ~c.broadcastedEvent.on
      /\ c.gsn = v.gsn /\ c.keyExpiration = v.keyExpiration /\ c.connected = v.connected
      /\ c.sealed = v.sealed /\ c.sameKey = v.sameKey /\ c.known = v.known /\ c.changed = v.changed
  <2>1. /\ Advertising!NoEvent \in BroadcastedEvents /\ ~Advertising!NoEvent.on
        /\ v \in AdvertisingStates
    BY DEF Advertising!NoEvent, BroadcastedEvents, AdvertisingSound
  <2> QED
    BY <2>1 DEF AdvertisingStates
<1>3. AdvertisingSound(c)
  BY <1>2 DEF AdvertisingSound, KeySound, CountSound
<1> HIDE DEF c
<1>4. /\ AdvertisingSound(u) /\ ChangeCounted(u) /\ ~u.broadcastedEvent.on
      /\ Advertising!MayBroadcast(u)
  BY <1>1, <1>2, <1>3, Updates DEF ChangeCounted, Advertising!MayBroadcast
<1> DEFINE w == Advertising!IncrementGSN(u)
<1>5. /\ AdvertisingSound(w) /\ w.gsn.didIncrement /\ ~w.connected
      /\ w.keyExpiration # 0 /\ \A p \in w.sealed : p[1] # w.gsn.n
  BY <1>4, Increments DEF Advertising!MayBroadcast
<1> HIDE DEF w
<1> DEFINE x == [w EXCEPT !.changed = TRUE]
           y == [x EXCEPT !.timer = TRUE, !.broadcastedEvent = Advertising!Event(value)]
<1>6. /\ AdvertisingSound(x) /\ ChangeCounted(x)
      /\ x \in AdvertisingStates /\ x.gsn = w.gsn /\ x.keyExpiration = w.keyExpiration
      /\ x.connected = w.connected /\ x.sealed = w.sealed
  <2>1. /\ x \in AdvertisingStates
        /\ x.gsn = w.gsn /\ x.keyExpiration = w.keyExpiration /\ x.connected = w.connected
        /\ x.broadcastedEvent = w.broadcastedEvent /\ x.sealed = w.sealed /\ x.sameKey = w.sameKey
        /\ x.known = w.known
    BY <1>5 DEF AdvertisingSound, AdvertisingStates
  <2> QED
    BY <1>5, <2>1, Alike DEF ChangeCounted
<1> HIDE DEF x
<1>7. /\ AdvertisingSound(y) /\ ChangeCounted(y)
  <2>1. /\ Advertising!Event(value) \in BroadcastedEvents
        /\ Advertising!Event(value).value = value
    BY DEF Advertising!Event, BroadcastedEvents
  <2>2. /\ y \in AdvertisingStates /\ y.broadcastedEvent = Advertising!Event(value)
        /\ y.gsn = x.gsn /\ y.keyExpiration = x.keyExpiration /\ y.connected = x.connected
        /\ y.sealed = x.sealed /\ y.sameKey = x.sameKey
        /\ y.known = x.known /\ y.changed = x.changed
    BY <1>6, <2>1 DEF AdvertisingStates
  <2>3. KeySound(y)
    BY <1>5, <1>6, <2>1, <2>2 DEF AdvertisingSound, KeySound
  <2>4. CountSound(y) /\ ChangeCounted(y)
    BY <1>6, <2>2 DEF AdvertisingSound, CountSound, ChangeCounted
  <2> QED
    BY <2>2, <2>3, <2>4 DEF AdvertisingSound
<1>8. ASSUME NEW o, AdvertisingSound(o), ChangeCounted(o), r \in Advertising!UpdateAdvertisingData(o)
      PROVE  AdvertisingSound(r) /\ ChangeCounted(r) /\ Shown(r)
  BY <1>8, Updates DEF ChangeCounted
<1> QED
  BY <1>1, <1>4, <1>6, <1>7, <1>8 DEF w, x

\* What happens while no central is connected and is not broadcasted
LEMMA DisconnectedEvents ==
  ASSUME Advertising!BLEAdvertisingAssumption, AdvertisingInv,
         NEW r \in Advertising!DisconnectedEvent([a EXCEPT !.changed = TRUE])
  PROVE  AdvertisingSound(r) /\ ChangeCounted(r) /\ Shown(r)
<1> DEFINE v == [a EXCEPT !.changed = TRUE]
<1>1. /\ v \in AdvertisingStates
      /\ v.gsn = a.gsn /\ v.keyExpiration = a.keyExpiration /\ v.connected = a.connected
      /\ v.broadcastedEvent = a.broadcastedEvent /\ v.sealed = a.sealed /\ v.sameKey = a.sameKey
      /\ v.known = a.known /\ v.fault = a.fault /\ v.air = a.air /\ v.running = a.running
  BY DEF AdvertisingInv, AdvertisingSound, AdvertisingStates
<1>2. AdvertisingSound(v) /\ Shown(v)
  BY <1>1, Alike DEF AdvertisingInv, Shown
<1>0. r \in Advertising!DisconnectedEvent(v)
  OBVIOUS
<1> HIDE DEF v
<1>3. CASE v.gsn.didIncrement
  BY <1>0, <1>2, <1>3 DEF Advertising!DisconnectedEvent, ChangeCounted
<1> DEFINE w == Advertising!FirstEvent(v)
<1>4. CASE ~v.gsn.didIncrement
  <2>1. /\ AdvertisingSound(w) /\ w.gsn.didIncrement
        /\ w.connected = v.connected /\ w.broadcastedEvent = v.broadcastedEvent
        /\ w.air = v.air /\ (w.fault = "none" => v.fault = "none")
    BY <1>2, <1>4, FirstEvents
  <2>2. CASE v.connected
    <3>1. r = w
      BY <1>0, <1>4, <2>2 DEF Advertising!DisconnectedEvent
    <3> QED
      BY <1>2, <2>1, <2>2, <3>1 DEF Shown, ChangeCounted
  <2>3. CASE ~v.connected
    <3>1. PICK on \in BOOLEAN : r \in Advertising!UpdateAdvertisingData([w EXCEPT !.timer = on])
      BY <1>0, <1>4, <2>3, Zenon DEF Advertising!DisconnectedEvent
    <3> HIDE DEF w
    <3> DEFINE x == [w EXCEPT !.timer = on]
    <3>2. /\ x \in AdvertisingStates
          /\ x.gsn = w.gsn /\ x.keyExpiration = w.keyExpiration /\ x.connected = w.connected
          /\ x.broadcastedEvent = w.broadcastedEvent /\ x.sealed = w.sealed /\ x.sameKey = w.sameKey
          /\ x.known = w.known
      BY <2>1 DEF AdvertisingSound, AdvertisingStates
    <3> HIDE DEF x
    <3>3. AdvertisingSound(x)
      BY <2>1, <3>2, Alike
    <3>4. r \in Advertising!UpdateAdvertisingData(x)
      BY <3>1 DEF x
    <3> QED
      BY <2>1, <3>2, <3>3, <3>4, Updates DEF ChangeCounted
  <2> QED
    BY <2>2, <2>3
<1> QED
  BY <1>3, <1>4

\* The numbers before are done with: a connection begins or ends, or another process starts.
LEMMA Coalesced ==
  ASSUME Advertising!BLEAdvertisingAssumption, NEW v, AdvertisingSound(v), NEW u \in AdvertisingStates,
         u.gsn.n = v.gsn.n, ~u.gsn.didIncrement, u.known = v.gsn.n, ~u.changed,
         u.keyExpiration = v.keyExpiration, ~u.broadcastedEvent.on,
         u.sealed = v.sealed, ~u.connected \/ ~u.sameKey
  PROVE  AdvertisingSound(u) /\ ChangeCounted(u)
<1>1. v.known \in GSNs /\ v.gsn.n \in GSNs /\ v.keyExpiration \in Expirations
  BY DEF AdvertisingSound, AdvertisingStates, Counters
<1>2. Distance(v.gsn.n, v.gsn.n) = 0 /\ Distance(v.known, v.gsn.n) \in Nat
  BY <1>1 DEF Distance, GSNs, Advertising!BLEAdvertisingAssumption
<1>3. v.keyExpiration # 0 =>
        Distance(v.gsn.n, v.keyExpiration) \in Nat /\ Distance(v.gsn.n, v.keyExpiration) <= KeyLife
  <2>1. v.keyExpiration # 0 => Distance(v.gsn.n, v.keyExpiration) \in Nat
    BY <1>1 DEF Distance, GSNs, Expirations, Advertising!BLEAdvertisingAssumption
  <2> QED
    BY <1>2, <2>1 DEF AdvertisingSound, CountSound, Advertising!BLEAdvertisingAssumption
<1>4. CountSound(u)
  BY <1>2, <1>3 DEF CountSound, Advertising!BLEAdvertisingAssumption
<1>5. KeySound(u)
  BY DEF AdvertisingSound, KeySound
<1> QED
  BY <1>4, <1>5 DEF AdvertisingSound, ChangeCounted

LEMMA CoalescedFields ==
  ASSUME NEW v \in AdvertisingStates, NEW u, u = Advertising!ResetCoalescing(v)
  PROVE  /\ u \in AdvertisingStates
         /\ u.gsn.n = v.gsn.n /\ ~u.gsn.didIncrement /\ u.known = v.gsn.n /\ ~u.changed
         /\ u.keyExpiration = v.keyExpiration /\ u.sealed = v.sealed
         /\ u.connected = v.connected /\ u.broadcastedEvent = v.broadcastedEvent
<1> DEFINE g == [v.gsn EXCEPT !.didIncrement = FALSE]
           x == [v EXCEPT !.gsn = g]
           y == [x EXCEPT !.known = v.gsn.n]
<1>1. g \in Counters /\ g.n = v.gsn.n /\ ~g.didIncrement /\ v.gsn.n \in GSNs
  BY DEF AdvertisingStates, Counters
<1> HIDE DEF g
<1>2. /\ x \in AdvertisingStates
      /\ x.gsn = g /\ x.keyExpiration = v.keyExpiration /\ x.sealed = v.sealed
      /\ x.connected = v.connected /\ x.broadcastedEvent = v.broadcastedEvent
  BY <1>1 DEF AdvertisingStates
<1>3. u = [y EXCEPT !.changed = FALSE]
  BY DEF Advertising!ResetCoalescing, g
<1> HIDE DEF x
<1>4. /\ y \in AdvertisingStates /\ y.known = v.gsn.n
      /\ y.gsn = g /\ y.keyExpiration = v.keyExpiration /\ y.sealed = v.sealed
      /\ y.connected = v.connected /\ y.broadcastedEvent = v.broadcastedEvent
  BY <1>1, <1>2 DEF AdvertisingStates
<1> HIDE DEF y
<1> QED
  BY <1>1, <1>3, <1>4 DEF AdvertisingStates

LEMMA Renewed ==
  ASSUME Advertising!BLEAdvertisingAssumption, NEW v, AdvertisingSound(v), ChangeCounted(v),
         a' \in Advertising!UpdateAdvertisingData(v)
  PROVE  AdvertisingInv'
BY Updates DEF AdvertisingInv, ChangeCounted

\* Connections
LEMMA ConnectionsKept ==
  ASSUME Advertising!BLEAdvertisingAssumption, AdvertisingInv,
         Advertising!DidConnect \/ Advertising!DidDisconnect
  PROVE  AdvertisingInv'
<1>1. a \in AdvertisingStates /\ AdvertisingSound(a)
  BY DEF AdvertisingInv, AdvertisingSound
<1>2. CASE Advertising!DidConnect
  <2> DEFINE r == Advertising!ResetCoalescing(a)
             x == [r EXCEPT !.connected = TRUE, !.fastTimer = FALSE, !.timer = FALSE]
             y == [x EXCEPT !.broadcastedEvent = Advertising!NoEvent, !.sameKey = FALSE]
  <2>1. a' \in Advertising!UpdateAdvertisingData(
                 [r EXCEPT !.connected = TRUE, !.fastTimer = FALSE, !.timer = FALSE,
                           !.broadcastedEvent = Advertising!NoEvent, !.sameKey = FALSE])
    BY <1>2 DEF Advertising!DidConnect
  <2>2. /\ r \in AdvertisingStates
        /\ r.gsn.n = a.gsn.n /\ ~r.gsn.didIncrement /\ r.known = a.gsn.n /\ ~r.changed
        /\ r.keyExpiration = a.keyExpiration /\ r.sealed = a.sealed
    BY <1>1, CoalescedFields
  <2> HIDE DEF r
  <2>3. a' \in Advertising!UpdateAdvertisingData(y)
    BY <2>1
  <2>4. /\ x \in AdvertisingStates /\ x.gsn = r.gsn /\ x.known = r.known /\ x.changed = r.changed
        /\ x.keyExpiration = r.keyExpiration /\ x.sealed = r.sealed
    BY <2>2 DEF AdvertisingStates
  <2>5. Advertising!NoEvent \in BroadcastedEvents /\ ~Advertising!NoEvent.on
    BY DEF Advertising!NoEvent, BroadcastedEvents
  <2> HIDE DEF x
  <2>6. /\ y \in AdvertisingStates /\ y.gsn = r.gsn /\ y.known = r.known /\ y.changed = r.changed
        /\ y.keyExpiration = r.keyExpiration /\ y.sealed = r.sealed /\ ~y.sameKey /\ ~y.broadcastedEvent.on
    BY <2>4, <2>5 DEF AdvertisingStates
  <2> HIDE DEF y
  <2>7. AdvertisingSound(y) /\ ChangeCounted(y)
    BY <1>1, <2>2, <2>6, Coalesced
  <2> QED
    BY <2>3, <2>7, Renewed
<1>3. CASE Advertising!DidDisconnect
  <2> DEFINE w == [a EXCEPT !.connected = FALSE]
             w1 == Advertising!Assert(w, a.fastStarted, "notStarted")
             w2 == Advertising!Assert(w1, ~a.fastTimer, "fastTimer")
             v == Advertising!Assert(w2, ~a.timer /\ ~a.broadcastedEvent.on, "timer")
             r == Advertising!ResetCoalescing(v)
             Kept(x) == /\ x \in AdvertisingStates /\ ~x.connected
                        /\ x.gsn.n = a.gsn.n /\ x.keyExpiration = a.keyExpiration
                        /\ x.sealed = a.sealed /\ ~x.broadcastedEvent.on
  <2>1. PICK on \in BOOLEAN : a' \in Advertising!UpdateAdvertisingData([r EXCEPT !.fastTimer = on])
    BY <1>3 DEF Advertising!DidDisconnect
  <2>2. a.connected /\ ~a.broadcastedEvent.on
    BY <1>1, <1>3 DEF Advertising!DidDisconnect, AdvertisingSound, KeySound
  <2>3. Kept(w)
    BY <1>1, <2>2 DEF AdvertisingStates
  <2>4. ASSUME NEW x, Kept(x), NEW f \in {"notStarted", "fastTimer", "timer"}
        PROVE  Kept([x EXCEPT !.fault = f])
    BY <2>4 DEF AdvertisingStates
  <2> HIDE DEF w, Kept
  <2>5. Kept(w1)
    BY <2>3, <2>4 DEF Advertising!Assert, Advertising!Fault
  <2> HIDE DEF w1
  <2>6. Kept(w2)
    BY <2>4, <2>5 DEF Advertising!Assert, Advertising!Fault
  <2> HIDE DEF w2
  <2>7. Kept(v)
    BY <2>4, <2>6 DEF Advertising!Assert, Advertising!Fault
  <2> HIDE DEF v
  <2>8. /\ r \in AdvertisingStates
        /\ r.gsn.n = a.gsn.n /\ ~r.gsn.didIncrement /\ r.known = a.gsn.n /\ ~r.changed
        /\ r.keyExpiration = a.keyExpiration /\ r.sealed = a.sealed /\ ~r.connected /\ ~r.broadcastedEvent.on
    BY <2>7, CoalescedFields DEF Kept
  <2> HIDE DEF r
  <2> DEFINE y == [r EXCEPT !.fastTimer = on]
  <2>9. /\ y \in AdvertisingStates
        /\ y.gsn = r.gsn /\ y.known = r.known /\ y.changed = r.changed
        /\ y.keyExpiration = r.keyExpiration /\ y.sealed = r.sealed /\ y.connected = r.connected
        /\ y.broadcastedEvent = r.broadcastedEvent
    BY <2>8 DEF AdvertisingStates
  <2>10. a' \in Advertising!UpdateAdvertisingData(y)
    BY <2>1
  <2> HIDE DEF y
  <2>11. AdvertisingSound(y) /\ ChangeCounted(y)
    BY <1>1, <2>8, <2>9, Coalesced
  <2> QED
    BY <2>10, <2>11, Renewed
<1> QED
  BY <1>2, <1>3

\* The timers
LEMMA TimersKept ==
  ASSUME Advertising!BLEAdvertisingAssumption, AdvertisingInv,
         Advertising!AdvertisingTimerExpired \/ Advertising!FastTimerExpired
  PROVE  AdvertisingInv'
<1> DEFINE Kept(x) == AdvertisingSound(x) /\ ChangeCounted(x)
<1>1. ASSUME NEW x, Kept(x), NEW y \in AdvertisingStates,
             y.gsn = x.gsn, y.keyExpiration = x.keyExpiration, y.connected = x.connected,
             y.broadcastedEvent = x.broadcastedEvent \/ ~y.broadcastedEvent.on,
             y.sealed = x.sealed, y.sameKey = x.sameKey, y.known = x.known, y.changed = x.changed
      PROVE  Kept(y)
  BY <1>1 DEF AdvertisingSound, KeySound, CountSound, ChangeCounted
<1>2. Kept(a) /\ a \in AdvertisingStates
  BY DEF AdvertisingInv, AdvertisingSound
<1>3. PICK v \in {[a EXCEPT !.timer = FALSE], [a EXCEPT !.fastTimer = FALSE]} :
        a' \in Advertising!TimerExpired(v)
  BY DEF Advertising!AdvertisingTimerExpired, Advertising!FastTimerExpired
<1>4. Kept(v) /\ v \in AdvertisingStates
  <2>1. /\ v \in AdvertisingStates
        /\ v.gsn = a.gsn /\ v.keyExpiration = a.keyExpiration /\ v.connected = a.connected
        /\ v.broadcastedEvent = a.broadcastedEvent
        /\ v.sealed = a.sealed /\ v.sameKey = a.sameKey /\ v.known = a.known /\ v.changed = a.changed
    BY <1>2 DEF AdvertisingStates
  <2> QED
    BY <1>1, <1>2, <2>1
<1> DEFINE u == Advertising!Assert(v, ~v.connected, "expiredWhileConnected")
<1>5. Kept(u) /\ u \in AdvertisingStates
  <2>1. CASE u = v
    BY <1>4, <2>1
  <2>2. CASE u = [v EXCEPT !.fault = "expiredWhileConnected"]
    <3>1. /\ u \in AdvertisingStates
          /\ u.gsn = v.gsn /\ u.keyExpiration = v.keyExpiration /\ u.connected = v.connected
          /\ u.broadcastedEvent = v.broadcastedEvent
          /\ u.sealed = v.sealed /\ u.sameKey = v.sameKey /\ u.known = v.known /\ u.changed = v.changed
      BY <1>4, <2>2 DEF AdvertisingStates
    <3> QED
      BY <1>1, <1>4, <3>1
  <2> QED
    BY <2>1, <2>2 DEF Advertising!Assert, Advertising!Fault
<1> DEFINE ended(on) == [u EXCEPT !.broadcastedEvent = Advertising!NoEvent, !.timer = on]
<1>6. PICK x \in {u} \cup {ended(on) : on \in BOOLEAN} : a' \in Advertising!UpdateAdvertisingData(x)
  <2>1. PICK x \in IF u.broadcastedEvent.on /\ ~u.timer THEN {ended(on) : on \in BOOLEAN} ELSE {u} :
          a' \in Advertising!UpdateAdvertisingData(x)
    BY <1>3, Zenon DEF Advertising!TimerExpired
  <2> QED
    BY <2>1
<1> HIDE DEF u
<1>7. Kept(x)
  <2>1. ASSUME NEW on \in BOOLEAN, x = ended(on)
        PROVE  Kept(x)
    <3>1. Advertising!NoEvent \in BroadcastedEvents /\ ~Advertising!NoEvent.on
      BY DEF Advertising!NoEvent, BroadcastedEvents
    <3>2. /\ x \in AdvertisingStates
          /\ x.gsn = u.gsn /\ x.keyExpiration = u.keyExpiration /\ x.connected = u.connected
          /\ ~x.broadcastedEvent.on
          /\ x.sealed = u.sealed /\ x.sameKey = u.sameKey /\ x.known = u.known /\ x.changed = u.changed
      BY <1>5, <2>1, <3>1 DEF AdvertisingStates
    <3> QED
      BY <1>1, <1>5, <3>2
  <2> QED
    BY <1>5, <1>6, <2>1
<1> QED
  BY <1>6, <1>7, Renewed

\* A new key expires at the number before the one that is KeyLife further on.
LEMMA ExpirationAhead ==
  ASSUME Advertising!BLEAdvertisingAssumption, NEW n \in GSNs
  PROVE  /\ Advertising!Expiration(n) \in GSNs
         /\ Distance(n, Advertising!Expiration(n)) = KeyLife - 1
<1>1. /\ MaxGSN \in Nat /\ KeyLife \in Nat /\ 1 < KeyLife /\ KeyLife < MaxGSN
      /\ n \in Nat /\ 1 <= n /\ n <= MaxGSN
  BY DEF Advertising!BLEAdvertisingAssumption, GSNs
<1>2. CASE n + KeyLife - 1 > MaxGSN
  BY <1>1, <1>2 DEF Advertising!Expiration, Distance, GSNs
<1>3. CASE n + KeyLife - 1 <= MaxGSN
  BY <1>1, <1>3 DEF Advertising!Expiration, Distance, GSNs
<1> QED
  BY <1>1, <1>2, <1>3

\* Keys
LEMMA KeysKept ==
  ASSUME Advertising!BLEAdvertisingAssumption, AdvertisingInv,
         Advertising!GenerateKey \/ Advertising!NewSession \/ Advertising!CleanupPairings
  PROVE  AdvertisingInv'
<1>1. /\ a \in AdvertisingStates /\ KeySound(a) /\ CountSound(a) /\ ChangeCounted(a) /\ Shown(a)
      /\ a.gsn.n \in GSNs
  BY DEF AdvertisingInv, AdvertisingSound, AdvertisingStates, Counters
<1>2. CASE Advertising!GenerateKey
  <2> DEFINE e == Advertising!Expiration(a.gsn.n)
             x == [a EXCEPT !.keyExpiration = e]
  <2>1. e \in GSNs /\ e # 0 /\ e \in Expirations /\ Distance(a.gsn.n, e) = KeyLife - 1
    BY <1>1, ExpirationAhead DEF GSNs, Expirations, Advertising!BLEAdvertisingAssumption
  <2>2. a.connected /\ a' = [x EXCEPT !.sameKey = TRUE, !.sealed = {}]
    BY <1>1, <1>2 DEF Advertising!GenerateKey, KeySound
  <2> HIDE DEF e
  <2>3. x \in AdvertisingStates /\ x.keyExpiration = e
        /\ x.gsn = a.gsn /\ x.connected = a.connected /\ x.running = a.running
        /\ x.broadcastedEvent = a.broadcastedEvent /\ x.known = a.known /\ x.changed = a.changed
        /\ x.air = a.air /\ x.fault = a.fault
    BY <1>1, <2>1 DEF AdvertisingStates
  <2> HIDE DEF x
  <2>4. a' \in AdvertisingStates /\ a'.keyExpiration = e
        /\ a'.gsn = a.gsn /\ a'.connected = a.connected /\ a'.running = a.running
        /\ a'.broadcastedEvent = a.broadcastedEvent /\ a'.known = a.known /\ a'.changed = a.changed
        /\ a'.air = a.air /\ a'.fault = a.fault /\ a'.sealed = {}
    BY <2>2, <2>3 DEF AdvertisingStates
  <2>5. KeySound(a')
    BY <1>1, <2>4 DEF KeySound
  <2>6. Distance(a.known, a.gsn.n) <= 1 /\ Distance(a.known, a.gsn.n) \in Int
    BY <1>1, <2>2 DEF CountSound, AdvertisingStates, Distance, GSNs, Advertising!BLEAdvertisingAssumption
  <2>7. CountSound(a')
    BY <1>1, <2>1, <2>4, <2>6 DEF CountSound, Advertising!BLEAdvertisingAssumption
  <2>8. ChangeCounted(a') /\ Shown(a')
    BY <1>1, <2>4 DEF ChangeCounted, Shown
  <2> QED
    BY <2>4, <2>5, <2>7, <2>8 DEF AdvertisingInv, AdvertisingSound
<1>3. CASE Advertising!NewSession
  <2>1. a' \in AdvertisingStates /\ ~a'.sameKey
        /\ a'.keyExpiration = a.keyExpiration /\ a'.sealed = a.sealed
        /\ a'.gsn = a.gsn /\ a'.connected = a.connected /\ a'.running = a.running
        /\ a'.broadcastedEvent = a.broadcastedEvent /\ a'.known = a.known /\ a'.changed = a.changed
        /\ a'.air = a.air /\ a'.fault = a.fault
    BY <1>1, <1>3 DEF Advertising!NewSession, AdvertisingStates
  <2> QED
    BY <1>1, <2>1 DEF AdvertisingInv, AdvertisingSound, KeySound, CountSound, ChangeCounted, Shown
<1>4. CASE Advertising!CleanupPairings
  <2>1. 0 \in Expirations
    BY DEF Expirations, Advertising!BLEAdvertisingAssumption
  <2>2. a' \in AdvertisingStates /\ a'.sameKey = a.sameKey
        /\ a'.keyExpiration = 0 /\ a'.sealed = a.sealed
        /\ a'.gsn = a.gsn /\ a'.connected = a.connected /\ a'.running = a.running
        /\ a'.broadcastedEvent = a.broadcastedEvent /\ a'.known = a.known /\ a'.changed = a.changed
        /\ a'.air = a.air /\ a'.fault = a.fault
    BY <1>1, <1>4, <2>1 DEF Advertising!CleanupPairings, AdvertisingStates
  <2> QED
    BY <1>1, <2>2 DEF AdvertisingInv, AdvertisingSound, KeySound, CountSound, ChangeCounted, Shown
<1> QED
  BY <1>2, <1>3, <1>4

\* Events
LEMMA EventsKept ==
  ASSUME Advertising!BLEAdvertisingAssumption, AdvertisingInv,
         \/ \E value \in Values, broadcasted \in BOOLEAN : Advertising!DidRaiseEvent(value, broadcasted)
         \/ Advertising!DidSendEventNotification
  PROVE  AdvertisingInv'
<1>1. AdvertisingSound(a) /\ ChangeCounted(a) /\ Shown(a) /\ a \in AdvertisingStates
  BY DEF AdvertisingInv, AdvertisingSound
<1>2. ASSUME NEW value \in Values, NEW broadcasted \in BOOLEAN, Advertising!DidRaiseEvent(value, broadcasted)
      PROVE  AdvertisingInv'
  <2>1. CASE broadcasted /\ Advertising!MayBroadcast(a)
    <3>1. a' \in Advertising!Broadcast(a, value)
      BY <1>2, <2>1 DEF Advertising!DidRaiseEvent
    <3> QED
      BY <1>1, <2>1, <3>1, Broadcasting DEF AdvertisingInv
  <2>2. CASE ~(broadcasted /\ Advertising!MayBroadcast(a))
    <3>1. a' \in Advertising!DisconnectedEvent([a EXCEPT !.changed = TRUE])
      BY <1>2, <2>2 DEF Advertising!DidRaiseEvent
    <3> QED
      BY <3>1, DisconnectedEvents DEF AdvertisingInv
  <2> QED
    BY <2>1, <2>2
<1>3. CASE Advertising!DidSendEventNotification
  <2> DEFINE v == [a EXCEPT !.changed = TRUE]
  <2>1. /\ v \in AdvertisingStates
        /\ v.gsn = a.gsn /\ v.keyExpiration = a.keyExpiration /\ v.connected = a.connected
        /\ v.broadcastedEvent = a.broadcastedEvent /\ v.sealed = a.sealed /\ v.sameKey = a.sameKey
        /\ v.known = a.known /\ v.fault = a.fault /\ v.air = a.air
    BY <1>1 DEF AdvertisingStates
  <2>2. a.connected /\ a' = IF v.gsn.didIncrement THEN v ELSE Advertising!FirstEvent(v)
    BY <1>3 DEF Advertising!DidSendEventNotification
  <2> HIDE DEF v
  <2>3. AdvertisingSound(v)
    BY <1>1, <2>1, Alike
  <2>4. v.fault = "none" => v.air = Advertising!Silent
    BY <1>1, <2>1, <2>2 DEF Shown
  <2>5. CASE v.gsn.didIncrement
    BY <2>1, <2>2, <2>3, <2>4, <2>5 DEF AdvertisingInv, ChangeCounted, Shown
  <2>6. CASE ~v.gsn.didIncrement
    <3>1. /\ AdvertisingSound(a') /\ a'.gsn.didIncrement /\ a'.connected = v.connected
          /\ a'.air = v.air /\ (a'.fault = "none" => v.fault = "none")
      BY <2>2, <2>3, <2>6, FirstEvents
    <3> QED
      BY <2>1, <2>2, <2>4, <3>1 DEF AdvertisingInv, ChangeCounted, Shown
  <2> QED
    BY <2>5, <2>6
<1> QED
  BY <1>2, <1>3

\* The server starts or stops.
LEMMA ServerKept ==
  ASSUME Advertising!BLEAdvertisingAssumption, AdvertisingInv, Advertising!Start \/ Advertising!Stop
  PROVE  AdvertisingInv'
<1>1. AdvertisingSound(a) /\ ChangeCounted(a) /\ a \in AdvertisingStates
  BY DEF AdvertisingInv, AdvertisingSound
<1>2. PICK on \in BOOLEAN : a' \in Advertising!UpdateAdvertisingData([a EXCEPT !.running = on])
  BY DEF Advertising!Start, Advertising!Stop
<1> DEFINE x == [a EXCEPT !.running = on]
<1>3. /\ x \in AdvertisingStates
      /\ x.gsn = a.gsn /\ x.keyExpiration = a.keyExpiration /\ x.connected = a.connected
      /\ x.broadcastedEvent = a.broadcastedEvent /\ x.sealed = a.sealed /\ x.sameKey = a.sameKey
      /\ x.known = a.known /\ x.changed = a.changed
  BY <1>1 DEF AdvertisingStates
<1>4. a' \in Advertising!UpdateAdvertisingData(x)
  BY <1>2
<1> HIDE DEF x
<1>5. AdvertisingSound(x) /\ ChangeCounted(x)
  BY <1>1, <1>3, Alike DEF ChangeCounted
<1> QED
  BY <1>4, <1>5, Renewed

\* A process starts with what is stored.
LEMMA CreatedFields ==
  ASSUME Advertising!BLEAdvertisingAssumption, NEW g \in Counters, NEW e \in Expirations
  PROVE  LET c == Advertising!Created(g, e)
         IN  /\ c \in AdvertisingStates /\ c.gsn = g /\ c.keyExpiration = e /\ c.sealed = {}
             /\ c.known = g.n /\ ~c.changed
             /\ ~c.connected /\ ~c.running /\ ~c.broadcastedEvent.on /\ c.air = Advertising!Silent
<1>1. Advertising!NoEvent \in BroadcastedEvents /\ ~Advertising!NoEvent.on /\ Advertising!Silent \in Advertisements
  BY DEF Advertising!NoEvent, BroadcastedEvents, Advertisements
<1>2. g.n \in GSNs
  BY DEF Counters
<1> QED
  BY <1>1, <1>2 DEF Advertising!Created, AdvertisingStates

LEMMA FirstCounter ==
  ASSUME Advertising!BLEAdvertisingAssumption
  PROVE  LET g == [n |-> 1, didIncrement |-> FALSE]
         IN  /\ g \in Counters /\ g.n = 1 /\ ~g.didIncrement /\ 0 \in Expirations
             /\ Distance(1, 1) = 0 /\ KeyLife \in Nat
BY DEF Counters, Expirations, GSNs, Distance, Advertising!BLEAdvertisingAssumption

\* The process ends and starts again, with another firmware perhaps.
LEMMA RestartKept ==
  ASSUME Advertising!BLEAdvertisingAssumption, AdvertisingInv, Advertising!Restart \/ Advertising!FirmwareUpdate
  PROVE  AdvertisingInv'
<1>1. /\ a \in AdvertisingStates /\ KeySound(a) /\ CountSound(a) /\ ChangeCounted(a)
      /\ a.gsn \in Counters /\ a.keyExpiration \in Expirations /\ a.known \in GSNs /\ a.changed \in BOOLEAN
      /\ a.sealed \in SUBSET (GSNs \X Values)
  BY DEF AdvertisingInv, AdvertisingSound, AdvertisingStates
<1>2. CASE Advertising!Restart
  <2>1. PICK u \in {a, [a EXCEPT !.keyExpiration = 0]} :
          a' = [Advertising!Created(u.gsn, u.keyExpiration) EXCEPT
                  !.sealed = u.sealed, !.known = u.known, !.changed = u.changed]
    BY <1>2 DEF Advertising!Restart, Advertising!ExpireKey
  <2>2. 0 \in Expirations
    BY DEF Expirations, Advertising!BLEAdvertisingAssumption
  <2>3. /\ u.gsn = a.gsn /\ u.keyExpiration \in {0, a.keyExpiration} /\ u.sealed = a.sealed
        /\ u.known = a.known /\ u.changed = a.changed
    BY <1>1, <2>1 DEF AdvertisingStates
  <2> DEFINE x == Advertising!Created(u.gsn, u.keyExpiration)
             y == [x EXCEPT !.sealed = u.sealed]
             z == [y EXCEPT !.known = u.known]
  <2>4. /\ x \in AdvertisingStates /\ x.gsn = u.gsn /\ x.keyExpiration = u.keyExpiration
        /\ ~x.connected /\ ~x.running /\ ~x.broadcastedEvent.on /\ x.air = Advertising!Silent
    BY <1>1, <2>2, <2>3, CreatedFields
  <2>5. a' = [z EXCEPT !.changed = u.changed]
    BY <2>1
  <2> HIDE DEF x
  <2>6. /\ y \in AdvertisingStates /\ y.gsn = u.gsn /\ y.keyExpiration = u.keyExpiration /\ y.sealed = u.sealed
        /\ ~y.connected /\ ~y.running /\ ~y.broadcastedEvent.on /\ y.air = Advertising!Silent
    BY <1>1, <2>3, <2>4 DEF AdvertisingStates
  <2> HIDE DEF y
  <2>7. /\ z \in AdvertisingStates /\ z.gsn = u.gsn /\ z.keyExpiration = u.keyExpiration /\ z.sealed = u.sealed
        /\ z.known = u.known
        /\ ~z.connected /\ ~z.running /\ ~z.broadcastedEvent.on /\ z.air = Advertising!Silent
    BY <1>1, <2>3, <2>6 DEF AdvertisingStates
  <2> HIDE DEF z
  <2>8. /\ a' \in AdvertisingStates /\ a'.gsn = u.gsn /\ a'.keyExpiration = u.keyExpiration
        /\ a'.sealed = u.sealed /\ a'.known = u.known /\ a'.changed = u.changed
        /\ ~a'.connected /\ ~a'.running /\ ~a'.broadcastedEvent.on /\ a'.air = Advertising!Silent
    BY <1>1, <2>3, <2>5, <2>7 DEF AdvertisingStates
  <2> QED
    BY <1>1, <2>3, <2>8 DEF AdvertisingInv, AdvertisingSound, KeySound, CountSound, ChangeCounted, Shown
<1>3. CASE Advertising!FirmwareUpdate
  <2> DEFINE g == [n |-> 1, didIncrement |-> FALSE]
             x == Advertising!Created(g, 0)
  <2>1. /\ g.n = 1 /\ ~g.didIncrement /\ Distance(1, 1) = 0 /\ KeyLife \in Nat
        /\ x \in AdvertisingStates /\ x.gsn = g /\ x.keyExpiration = 0 /\ x.known = g.n /\ ~x.changed
        /\ ~x.connected /\ ~x.running /\ ~x.broadcastedEvent.on /\ x.air = Advertising!Silent
    BY FirstCounter, CreatedFields
  <2>2. a' = [x EXCEPT !.sealed = a.sealed]
    BY <1>3 DEF Advertising!FirmwareUpdate
  <2> HIDE DEF x, g
  <2>3. /\ a' \in AdvertisingStates /\ a'.gsn = g /\ a'.keyExpiration = 0 /\ a'.sealed = a.sealed
        /\ a'.known = g.n /\ ~a'.changed
        /\ ~a'.connected /\ ~a'.running /\ ~a'.broadcastedEvent.on /\ a'.air = Advertising!Silent
    BY <1>1, <2>1, <2>2 DEF AdvertisingStates
  <2> QED
    BY <1>1, <2>1, <2>3 DEF AdvertisingInv, AdvertisingSound, KeySound, CountSound, ChangeCounted, Shown
<1> QED
  BY <1>2, <1>3

\* What has been said of the advertisements holds in all states.
LEMMA AdvertisingIsSound ==
  ASSUME Advertising!BLEAdvertisingAssumption
  PROVE  Advertising!Spec => []AdvertisingInv
<1>1. Advertising!Init => AdvertisingInv
  <2> SUFFICES ASSUME Advertising!Init PROVE AdvertisingInv
    OBVIOUS
  <2> DEFINE g == [n |-> 1, didIncrement |-> FALSE]
  <2>1. /\ g.n = 1 /\ ~g.didIncrement /\ Distance(1, 1) = 0 /\ KeyLife \in Nat
        /\ a \in AdvertisingStates /\ a.gsn = g /\ a.keyExpiration = 0 /\ a.sealed = {}
        /\ a.known = g.n /\ ~a.changed
        /\ ~a.connected /\ ~a.running /\ ~a.broadcastedEvent.on /\ a.air = Advertising!Silent
    BY FirstCounter, CreatedFields DEF Advertising!Init
  <2> HIDE DEF g
  <2> QED
    BY <2>1 DEF AdvertisingInv, AdvertisingSound, KeySound, CountSound, ChangeCounted, Shown
<1>2. AdvertisingInv /\ [Advertising!Next]_a => AdvertisingInv'
  <2>1. AdvertisingInv /\ UNCHANGED a => AdvertisingInv'
    BY DEF AdvertisingInv, AdvertisingSound, KeySound, CountSound, ChangeCounted, Shown
  <2>2. AdvertisingInv /\ Advertising!Next => AdvertisingInv'
    BY EventsKept, ConnectionsKept, TimersKept, KeysKept, ServerKept, RestartKept, Zenon DEF Advertising!Next
  <2> QED
    BY <2>1, <2>2
<1> QED
  BY <1>1, <1>2, PTL DEF Advertising!Spec

\* No two values are ever sealed with the same key and nonce: for any range of the numbers, any
\* shorter life of a key, and any number of events, connections and restarts.
THEOREM NoncesAreFresh ==
  ASSUME Advertising!BLEAdvertisingAssumption
  PROVE  Advertising!Spec => []NonceNotReused
<1>1. AdvertisingInv => NonceNotReused
  BY DEF AdvertisingInv, AdvertisingSound, KeySound, NonceNotReused, Advertising!NonceNotReused
<1> QED
  BY <1>1, AdvertisingIsSound, PTL

-----------------------------------------------------------------------------
(* Which characteristics are broadcasted. The list stays sorted, so that   *)
(* the search finds what it holds (Says), and has room for one more.       *)

Items == [cid : Supporting, interval : Intervals]

Says(list, c, interval) ==
  \/ \E i \in 1 .. Len(list) : list[i].cid = c /\ list[i].interval = interval
  \/ interval = Broadcasts!Disabled /\ \A i \in 1 .. Len(list) : list[i].cid # c

Sorted(list) == \A i, j \in 1 .. Len(list) : i < j => list[i].cid < list[j].cid

ListSound(list) ==
  list \in Seq(Items) /\ Sorted(list) /\ Broadcasts!NumBytes(list) < Broadcasts!MaxBytes

BroadcastsInv ==
  /\ broadcasts = [list |-> broadcasts.list, asked |-> broadcasts.asked]
  /\ broadcasts.asked = [c \in Supporting |-> broadcasts.asked[c]]
  /\ ListSound(broadcasts.list)
  /\ \A c \in Supporting : \A interval \in Intervals \cup {Broadcasts!Disabled} :
       Says(broadcasts.list, c, interval) => interval \in broadcasts.asked[c]

\* The search ends behind the items of smaller IIDs, and at an item that is not one of them.
LEMMA SearchEnds ==
  ASSUME Broadcasts!BLECharacteristicConfigurationAssumption,
         NEW list \in Seq(Items), Sorted(list), NEW c \in Nat,
         NEW i, i = Broadcasts!Position(list, c)
  PROVE  /\ Len(list) \in Nat /\ i \in 1 .. Len(list) + 1
         /\ \A j \in 1 .. Len(list) : j < i => list[j].cid < c
         /\ \A j \in 1 .. Len(list) : i <= j => list[j].cid >= c
         /\ ~Broadcasts!IsAt(list, i, c) => \A j \in 1 .. Len(list) : list[j].cid # c
<1> DEFINE Ends == {k \in 1 .. Len(list) + 1 : k <= Len(list) => list[k].cid >= c}
<1>1. Len(list) \in Nat /\ \A j \in 1 .. Len(list) : list[j].cid \in Nat
  <2>1. \A j \in 1 .. Len(list) : list[j] \in Items
    BY ElementOfSeq
  <2> QED
    BY <2>1, LenProperties DEF Items, Broadcasts!BLECharacteristicConfigurationAssumption
<1>2. Ends \subseteq Nat /\ Len(list) + 1 \in Ends
  BY <1>1
<1>3. PICK x \in Ends : \A y \in Ends : ~(<<y, x>> \in OpToRel(<, Nat))
  BY <1>2, WFMin, NatLessThanWellFounded, ZenonT(60)
<1>4. \A y \in Ends : ~(y < x)
  BY <1>2, <1>3, Zenon DEF OpToRel
<1>5. \E k \in Ends : \A j \in Ends : k <= j
  BY <1>2, <1>4
<1>6. i = CHOOSE k \in Ends : \A j \in Ends : k <= j
  BY DEF Broadcasts!Position, Broadcasts!Min
<1>7. i \in Ends /\ \A j \in Ends : i <= j
  BY <1>5, <1>6
<1>8. \A j \in 1 .. Len(list) : j < i => list[j].cid < c
  BY <1>1, <1>7
<1>9. \A j \in 1 .. Len(list) : i <= j => list[j].cid >= c
  <2>1. ASSUME NEW j \in 1 .. Len(list), i < j PROVE list[i].cid < list[j].cid
    BY <1>1, <1>7, <2>1 DEF Sorted
  <2> QED
    BY <1>1, <1>7, <2>1
<1>10. ~Broadcasts!IsAt(list, i, c) => \A j \in 1 .. Len(list) : list[j].cid # c
  <2>1. ASSUME NEW j \in 1 .. Len(list), i < j PROVE list[i].cid < list[j].cid
    BY <1>1, <1>7, <2>1 DEF Sorted
  <2> QED
    BY <1>1, <1>7, <1>8, <2>1 DEF Broadcasts!IsAt
<1> QED
  BY <1>1, <1>7, <1>8, <1>9, <1>10

LEMMA Inserted ==
  ASSUME NEW S, NEW list \in Seq(S), NEW i \in 1 .. Len(list) + 1, NEW e \in S
  PROVE  LET r == Broadcasts!InsertAt(list, i, e)
         IN  /\ r \in Seq(S) /\ Len(r) = Len(list) + 1
             /\ \A k \in 1 .. Len(list) + 1 :
                  r[k] = IF k < i THEN list[k] ELSE IF k = i THEN e ELSE list[k - 1]
<1> DEFINE front == SubSeq(list, 1, i - 1)
           mid == <<e>>
           rear == SubSeq(list, i, Len(list))
           most == front \o mid
<1>1. Len(list) \in Nat /\ i \in Nat /\ \A k \in 1 .. Len(list) : list[k] \in S
  BY LenProperties, ElementOfSeq
<1>2. front \in Seq(S) /\ Len(front) = i - 1 /\ \A k \in 1 .. i - 1 : front[k] = list[k]
  BY <1>1, SubSeqProperties
<1>3. rear \in Seq(S) /\ Len(rear) = Len(list) - i + 1
      /\ \A k \in 1 .. Len(list) - i + 1 : rear[k] = list[i + k - 1]
  BY <1>1, SubSeqProperties
<1>4. mid \in Seq(S) /\ Len(mid) = 1 /\ mid[1] = e
  OBVIOUS
<1> HIDE DEF front, mid, rear
<1>5. /\ most \in Seq(S) /\ Len(most) = i
      /\ \A k \in 1 .. i : most[k] = IF k < i THEN list[k] ELSE e
  <2>1. /\ most \in Seq(S) /\ Len(most) = Len(front) + Len(mid)
        /\ \A k \in 1 .. Len(front) + Len(mid) :
             most[k] = IF k <= Len(front) THEN front[k] ELSE mid[k - Len(front)]
    BY <1>2, <1>4, ConcatProperties
  <2> HIDE DEF most
  <2>2. Len(most) = i
    BY <1>1, <1>2, <1>4, <2>1
  <2>3. ASSUME NEW k \in 1 .. i PROVE most[k] = IF k < i THEN list[k] ELSE e
    <3>1. CASE k < i
      BY <1>1, <1>2, <1>4, <2>1, <3>1
    <3>2. CASE k = i
      <4>1. most[k] = mid[k - Len(front)] /\ k - Len(front) = 1
        BY <1>1, <1>2, <1>4, <2>1, <3>2
      <4> QED
        BY <1>4, <3>2, <4>1
    <3> QED
      BY <1>1, <3>1, <3>2
  <2> QED
    BY <2>1, <2>2, <2>3
<1> HIDE DEF most
<1> DEFINE r == most \o rear
<1>6. /\ r \in Seq(S) /\ Len(r) = Len(list) + 1
      /\ \A k \in 1 .. Len(list) + 1 : r[k] = IF k <= i THEN most[k] ELSE rear[k - i]
  <2>1. /\ r \in Seq(S) /\ Len(r) = Len(most) + Len(rear)
        /\ \A k \in 1 .. Len(most) + Len(rear) :
             r[k] = IF k <= Len(most) THEN most[k] ELSE rear[k - Len(most)]
    BY <1>3, <1>5, ConcatProperties
  <2>2. Len(most) + Len(rear) = Len(list) + 1 /\ Len(most) = i
    BY <1>1, <1>3, <1>5
  <2> HIDE DEF r
  <2> QED
    BY <2>1, <2>2
<1> HIDE DEF r
<1>7. ASSUME NEW k \in 1 .. Len(list) + 1
      PROVE  r[k] = IF k < i THEN list[k] ELSE IF k = i THEN e ELSE list[k - 1]
  <2>1. CASE k <= i
    BY <1>1, <1>5, <1>6, <2>1
  <2>2. CASE k > i
    <3>1. k - i \in 1 .. Len(list) - i + 1 /\ i + (k - i) - 1 = k - 1 /\ ~(k <= i)
      BY <1>1, <2>2
    <3>3. r[k] = rear[k - i]
      BY <1>6, <3>1, Zenon
    <3>2. rear[k - i] = list[i + (k - i) - 1]
      BY <1>3, <3>1
    <3> QED
      BY <1>1, <2>2, <3>1, <3>2, <3>3
  <2> QED
    BY <1>1, <2>1, <2>2
<1> QED
  BY <1>6, <1>7 DEF Broadcasts!InsertAt, r, most, front, mid, rear

LEMMA Removed ==
  ASSUME NEW S, NEW list \in Seq(S), NEW i \in 1 .. Len(list)
  PROVE  LET r == Broadcasts!RemoveAt(list, i)
         IN  /\ r \in Seq(S) /\ Len(r) = Len(list) - 1
             /\ \A k \in 1 .. Len(list) - 1 : r[k] = IF k < i THEN list[k] ELSE list[k + 1]
<1> DEFINE front == SubSeq(list, 1, i - 1)
           rear == SubSeq(list, i + 1, Len(list))
           r == front \o rear
<1>1. Len(list) \in Nat /\ i \in Nat /\ \A k \in 1 .. Len(list) : list[k] \in S
  BY LenProperties, ElementOfSeq
<1>2. front \in Seq(S) /\ Len(front) = i - 1 /\ \A k \in 1 .. i - 1 : front[k] = list[k]
  BY <1>1, SubSeqProperties
<1>3. rear \in Seq(S) /\ Len(rear) = Len(list) - i
      /\ \A k \in 1 .. Len(list) - i : rear[k] = list[i + k]
  BY <1>1, SubSeqProperties
<1> HIDE DEF front, rear
<1>4. /\ r \in Seq(S) /\ Len(r) = Len(list) - 1
      /\ \A k \in 1 .. Len(list) - 1 : r[k] = IF k <= i - 1 THEN front[k] ELSE rear[k - (i - 1)]
  <2>1. /\ r \in Seq(S) /\ Len(r) = Len(front) + Len(rear)
        /\ \A k \in 1 .. Len(front) + Len(rear) :
             r[k] = IF k <= Len(front) THEN front[k] ELSE rear[k - Len(front)]
    BY <1>2, <1>3, ConcatProperties, Zenon
  <2>2. Len(front) + Len(rear) = Len(list) - 1 /\ Len(front) = i - 1
    BY <1>1, <1>2, <1>3
  <2> HIDE DEF r
  <2> QED
    BY <2>1, <2>2
<1> HIDE DEF r
<1>5. ASSUME NEW k \in 1 .. Len(list) - 1
      PROVE  r[k] = IF k < i THEN list[k] ELSE list[k + 1]
  <2>1. CASE k < i
    BY <1>1, <1>2, <1>4, <2>1
  <2>2. CASE k >= i
    <3>1. r[k] = rear[k - (i - 1)] /\ k - (i - 1) \in 1 .. Len(list) - i /\ i + (k - (i - 1)) = k + 1
      BY <1>1, <1>4, <2>2
    <3>2. rear[k - (i - 1)] = list[i + (k - (i - 1))]
      BY <1>3, <3>1
    <3> QED
      BY <1>1, <2>2, <3>1, <3>2
  <2> QED
    BY <1>1, <2>1, <2>2
<1> QED
  BY <1>4, <1>5 DEF Broadcasts!RemoveAt, r, front, rear

\* What a list with an item more, less or changed says of that characteristic and of others
Changed(list, c, interval, r) ==
  /\ ListSound(r)
  /\ \A d \in Supporting, v \in Intervals \cup {Broadcasts!Disabled} :
       Says(r, d, v) => IF d = c THEN v = interval ELSE Says(list, d, v)

LEMMA ItemChanged ==
  ASSUME Broadcasts!BLECharacteristicConfigurationAssumption,
         NEW list, ListSound(list), NEW c \in Supporting, NEW interval \in Intervals,
         NEW i \in 1 .. Len(list), list[i].cid = c
  PROVE  Changed(list, c, interval, [list EXCEPT ![i].interval = interval])
<1> DEFINE e == [list[i] EXCEPT !.interval = interval]
           r == [list EXCEPT ![i] = e]
<1>1. list \in Seq(Items) /\ Sorted(list) /\ Len(list) \in Nat /\ list[i] \in Items
  BY LenProperties, ElementOfSeq DEF ListSound
<1>2. e \in Items /\ e.cid = c /\ e.interval = interval
  BY <1>1 DEF Items
<1> HIDE DEF e
<1>3. /\ r \in Seq(Items) /\ Len(r) = Len(list)
      /\ \A j \in 1 .. Len(list) : r[j] = IF j = i THEN e ELSE list[j]
  BY <1>1, <1>2, ExceptSeq
<1> HIDE DEF r
<1>4. \A j \in 1 .. Len(list) : r[j].cid = list[j].cid
  BY <1>2, <1>3
<1>5. ListSound(r)
  BY <1>1, <1>3, <1>4 DEF ListSound, Sorted, Broadcasts!NumBytes
<1>6. \A j \in 1 .. Len(list) : list[j].cid = c => j = i
  <2>1. \A j \in 1 .. Len(list) : list[j] \in Items
    BY <1>1, ElementOfSeq
  <2> QED
    BY <1>1, <2>1 DEF Sorted, Items, Broadcasts!BLECharacteristicConfigurationAssumption
<1>7. ASSUME NEW d \in Supporting, NEW v, Says(r, d, v)
      PROVE  IF d = c THEN v = interval ELSE Says(list, d, v)
  BY <1>2, <1>3, <1>4, <1>6, <1>7 DEF Says
<1>8. r = [list EXCEPT ![i].interval = interval]
  BY DEF r, e
<1> QED
  BY <1>5, <1>7, <1>8 DEF Changed

LEMMA ItemAdded ==
  ASSUME Broadcasts!BLECharacteristicConfigurationAssumption,
         NEW list, ListSound(list), NEW c \in Supporting, NEW interval \in Intervals,
         NEW i, i = Broadcasts!Position(list, c), ~Broadcasts!IsAt(list, i, c), ~Broadcasts!IsFull(list)
  PROVE  Changed(list, c, interval, Broadcasts!InsertAt(list, i, Broadcasts!Item(c, interval)))
<1> DEFINE e == Broadcasts!Item(c, interval)
           r == Broadcasts!InsertAt(list, i, e)
<1>1. list \in Seq(Items) /\ Sorted(list) /\ c \in Nat
  BY DEF ListSound, Broadcasts!BLECharacteristicConfigurationAssumption
<1>2. e \in Items /\ e.cid = c /\ e.interval = interval
  BY DEF Broadcasts!Item, Items
<1>3. /\ Len(list) \in Nat /\ i \in 1 .. Len(list) + 1
      /\ \A j \in 1 .. Len(list) : j < i => list[j].cid < c
      /\ \A j \in 1 .. Len(list) : i <= j => list[j].cid >= c
      /\ \A j \in 1 .. Len(list) : list[j].cid # c
  BY <1>1, SearchEnds
<1> HIDE DEF e
<1>4. /\ r \in Seq(Items) /\ Len(r) = Len(list) + 1
      /\ \A k \in 1 .. Len(list) + 1 :
           r[k] = IF k < i THEN list[k] ELSE IF k = i THEN e ELSE list[k - 1]
  BY <1>1, <1>2, <1>3, Inserted
<1> HIDE DEF r
<1>5. \A j \in 1 .. Len(list) : list[j].cid \in Nat
  <2>1. \A j \in 1 .. Len(list) : list[j] \in Items
    BY <1>1, ElementOfSeq
  <2> QED
    BY <2>1 DEF Items, Broadcasts!BLECharacteristicConfigurationAssumption
<1>6. Sorted(r)
  <2> SUFFICES ASSUME NEW j \in 1 .. Len(list) + 1, NEW k \in 1 .. Len(list) + 1, j < k
               PROVE  r[j].cid < r[k].cid
    BY <1>4 DEF Sorted
  <2>1. CASE k < i
    BY <1>1, <1>3, <1>4, <2>1, SMTT(60) DEF Sorted
  <2>2. CASE k = i
    BY <1>2, <1>3, <1>4, <2>2
  <2>3. CASE k > i /\ j = i
    <3>1. r[j].cid = c /\ r[k] = list[k - 1] /\ k - 1 \in 1 .. Len(list) /\ i <= k - 1
      BY <1>2, <1>3, <1>4, <2>3
    <3> QED
      BY <1>1, <1>3, <1>5, <3>1
  <2>4. CASE k > i /\ j < i
    <3>1. r[j] = list[j] /\ r[k] = list[k - 1] /\ j \in 1 .. Len(list) /\ k - 1 \in 1 .. Len(list) /\ j < k - 1
      BY <1>3, <1>4, <2>4
    <3> QED
      BY <1>1, <3>1 DEF Sorted
  <2>5. CASE k > i /\ j > i
    <3>1. r[j] = list[j - 1] /\ r[k] = list[k - 1]
          /\ j - 1 \in 1 .. Len(list) /\ k - 1 \in 1 .. Len(list) /\ j - 1 < k - 1
      BY <1>3, <1>4, <2>5
    <3> QED
      BY <1>1, <3>1 DEF Sorted
  <2> QED
    BY <1>3, <2>1, <2>2, <2>3, <2>4, <2>5
<1>7. Broadcasts!NumBytes(r) < Broadcasts!MaxBytes
  BY <1>3, <1>4 DEF Broadcasts!IsFull, Broadcasts!NumBytes, Broadcasts!MaxBytes,
                    Broadcasts!BLECharacteristicConfigurationAssumption
<1>8. r[i] = e /\ i \in 1 .. Len(r)
  BY <1>3, <1>4
<1>9. ASSUME NEW j \in 1 .. Len(list)
      PROVE  \E k \in 1 .. Len(r) : r[k] = list[j]
  <2>1. CASE j < i
    BY <1>3, <1>4, <2>1
  <2>2. CASE j >= i
    <3>1. j + 1 \in 1 .. Len(r) /\ r[j + 1] = list[j]
      BY <1>3, <1>4, <2>2
    <3> QED
      BY <3>1
  <2> QED
    BY <1>3, <2>1, <2>2
<1>10. ASSUME NEW k \in 1 .. Len(r)
       PROVE  r[k] = e \/ \E j \in 1 .. Len(list) : r[k] = list[j]
  BY <1>3, <1>4
<1>11. ASSUME NEW d \in Supporting, NEW v, Says(r, d, v)
       PROVE  IF d = c THEN v = interval ELSE Says(list, d, v)
  <2>1. CASE d = c
    BY <1>2, <1>3, <1>8, <1>10, <1>11, <2>1 DEF Says
  <2>2. CASE d # c
    BY <1>2, <1>9, <1>10, <1>11, <2>2 DEF Says
  <2> QED
    BY <2>1, <2>2
<1> QED
  BY <1>4, <1>6, <1>7, <1>11 DEF Changed, ListSound, r, e

LEMMA ItemRemoved ==
  ASSUME Broadcasts!BLECharacteristicConfigurationAssumption,
         NEW list, ListSound(list), NEW c \in Supporting,
         NEW i \in 1 .. Len(list), list[i].cid = c
  PROVE  Changed(list, c, Broadcasts!Disabled, Broadcasts!RemoveAt(list, i))
<1> DEFINE r == Broadcasts!RemoveAt(list, i)
<1>1. list \in Seq(Items) /\ Sorted(list) /\ Len(list) \in Nat /\ c \in Nat
  BY LenProperties DEF ListSound, Broadcasts!BLECharacteristicConfigurationAssumption
<1>2. /\ r \in Seq(Items) /\ Len(r) = Len(list) - 1
      /\ \A k \in 1 .. Len(list) - 1 : r[k] = IF k < i THEN list[k] ELSE list[k + 1]
  BY <1>1, Removed
<1> HIDE DEF r
<1>3. ASSUME NEW k \in 1 .. Len(r)
      PROVE  \E j \in 1 .. Len(list) : j # i /\ r[k] = list[j]
  BY <1>1, <1>2
<1>4. ASSUME NEW j \in 1 .. Len(list), j # i
      PROVE  \E k \in 1 .. Len(r) : r[k] = list[j]
  <2>1. CASE j < i
    BY <1>1, <1>2, <1>4, <2>1
  <2>2. CASE j > i
    <3>1. j - 1 \in 1 .. Len(r) /\ r[j - 1] = list[j]
      BY <1>1, <1>2, <2>2
    <3> QED
      BY <3>1
  <2> QED
    BY <1>4, <2>1, <2>2
<1>5. Sorted(r)
  <2> SUFFICES ASSUME NEW j \in 1 .. Len(list) - 1, NEW k \in 1 .. Len(list) - 1, j < k
               PROVE  r[j].cid < r[k].cid
    BY <1>2 DEF Sorted
  <2>1. CASE k < i
    BY <1>1, <1>2, <2>1 DEF Sorted
  <2>2. CASE k >= i
    BY <1>1, <1>2, <2>2 DEF Sorted
  <2> QED
    BY <1>1, <2>1, <2>2
<1>6. Broadcasts!NumBytes(r) < Broadcasts!MaxBytes
  BY <1>1, <1>2 DEF ListSound, Broadcasts!NumBytes, Broadcasts!MaxBytes,
                    Broadcasts!BLECharacteristicConfigurationAssumption
<1>7. \A j \in 1 .. Len(list) : list[j].cid = c => j = i
  <2>1. \A j \in 1 .. Len(list) : list[j] \in Items
    BY <1>1, ElementOfSeq
  <2> QED
    BY <1>1, <2>1 DEF Sorted, Items, Broadcasts!BLECharacteristicConfigurationAssumption
<1>8. ASSUME NEW d \in Supporting, NEW v, Says(r, d, v)
      PROVE  IF d = c THEN v = Broadcasts!Disabled ELSE Says(list, d, v)
  <2>1. CASE d = c
    BY <1>3, <1>7, <1>8, <2>1 DEF Says
  <2>2. CASE d # c
    BY <1>3, <1>4, <1>8, <2>2, ZenonT(60) DEF Says
  <2> QED
    BY <2>1, <2>2
<1> QED
  BY <1>2, <1>5, <1>6, <1>8 DEF Changed, ListSound, r

\* The changed list is stored, or that fails, or both.
LEMMA Stored ==
  ASSUME BroadcastsInv, NEW c \in Supporting, NEW interval \in Intervals \cup {Broadcasts!Disabled},
         NEW list, Changed(broadcasts.list, c, interval, list), Broadcasts!Stores(list, c, interval)
  PROVE  BroadcastsInv'
<1> DEFINE before == broadcasts.list
           asked == broadcasts.asked
<1>1. /\ broadcasts = [list |-> before, asked |-> asked] /\ asked = [d \in Supporting |-> asked[d]]
      /\ ListSound(before) /\ ListSound(list)
      /\ \A d \in Supporting : \A v \in Intervals \cup {Broadcasts!Disabled} : Says(before, d, v) => v \in asked[d]
      /\ \A d \in Supporting, v \in Intervals \cup {Broadcasts!Disabled} :
           Says(list, d, v) => IF d = c THEN v = interval ELSE Says(before, d, v)
  BY DEF BroadcastsInv, Changed
<1>2. CASE broadcasts' = [broadcasts EXCEPT !.list = list, !.asked[c] = {interval}]
  <2>1. /\ broadcasts'.list = list /\ broadcasts'.asked = [asked EXCEPT ![c] = {interval}]
        /\ broadcasts' = [list |-> broadcasts'.list, asked |-> broadcasts'.asked]
    BY <1>1, <1>2
  <2> QED
    BY <1>1, <2>1 DEF BroadcastsInv
<1>3. ASSUME NEW kept \in {before, list},
             broadcasts' = [broadcasts EXCEPT !.list = kept, !.asked[c] = @ \cup {interval}]
      PROVE  BroadcastsInv'
  <2>1. /\ broadcasts'.list = kept /\ broadcasts'.asked = [asked EXCEPT ![c] = asked[c] \cup {interval}]
        /\ broadcasts' = [list |-> broadcasts'.list, asked |-> broadcasts'.asked]
    BY <1>1, <1>3
  <2> QED
    BY <1>1, <1>3, <2>1 DEF BroadcastsInv
<1> QED
  BY <1>2, <1>3 DEF Broadcasts!Stores

\* Nothing has to be stored, as the list says so already.
LEMMA SaidAlready ==
  ASSUME BroadcastsInv, NEW c \in Supporting, NEW interval \in Intervals \cup {Broadcasts!Disabled},
         \A v \in Intervals \cup {Broadcasts!Disabled} : Says(broadcasts.list, c, v) => v = interval,
         Broadcasts!AlreadySo(c, interval)
  PROVE  BroadcastsInv'
<1>1. /\ broadcasts'.list = broadcasts.list
      /\ broadcasts'.asked = [broadcasts.asked EXCEPT ![c] = {interval}]
      /\ broadcasts' = [list |-> broadcasts'.list, asked |-> broadcasts'.asked]
  BY DEF BroadcastsInv, Broadcasts!AlreadySo
<1> QED
  BY <1>1 DEF BroadcastsInv

\* Of a sorted list, what it says of a characteristic is what its item says.
LEMMA SaysItsItem ==
  ASSUME Broadcasts!BLECharacteristicConfigurationAssumption, NEW list, ListSound(list),
         NEW c, NEW i \in 1 .. Len(list), list[i].cid = c, NEW v, Says(list, c, v)
  PROVE  v = list[i].interval
<1>1. list \in Seq(Items) /\ Sorted(list) /\ Len(list) \in Nat
  BY LenProperties DEF ListSound
<1>2. \A j \in 1 .. Len(list) : list[j] \in Items
  BY <1>1, ElementOfSeq
<1>3. \A j \in 1 .. Len(list) : list[j].cid = c => j = i
  BY <1>1, <1>2 DEF Sorted, Items, Broadcasts!BLECharacteristicConfigurationAssumption
<1> QED
  BY <1>3 DEF Says

\* Requests
LEMMA RequestsKept ==
  ASSUME Broadcasts!BLECharacteristicConfigurationAssumption, BroadcastsInv,
         NEW c \in Supporting \cup Others, NEW properties,
         NEW interval \in {Broadcasts!NotGiven, Broadcasts!Invalid} \cup Intervals,
         Broadcasts!HandleConfigurationRequest(c, properties, interval)
  PROVE  BroadcastsInv'
<1> DEFINE list == broadcasts.list
           i == Broadcasts!Position(list, c)
           wanted == IF interval = Broadcasts!NotGiven THEN Broadcasts!Default ELSE interval
<1>1. CASE UNCHANGED broadcasts
  BY <1>1 DEF BroadcastsInv
<1>2. ListSound(list) /\ list \in Seq(Items) /\ Sorted(list)
  BY DEF BroadcastsInv, ListSound
<1>3. ASSUME c \in Supporting
      PROVE  /\ Len(list) \in Nat /\ i \in 1 .. Len(list) + 1
             /\ ~Broadcasts!IsAt(list, i, c) => \A j \in 1 .. Len(list) : list[j].cid # c
             /\ Broadcasts!IsAt(list, i, c) => i \in 1 .. Len(list) /\ list[i].cid = c
  <2>1. c \in Nat
    BY DEF Broadcasts!BLECharacteristicConfigurationAssumption
  <2> HIDE DEF list
  <2>2. /\ Len(list) \in Nat /\ i \in 1 .. Len(list) + 1
        /\ ~Broadcasts!IsAt(list, i, c) => \A j \in 1 .. Len(list) : list[j].cid # c
    BY <1>2, <2>1, SearchEnds
  <2> QED
    BY <2>2 DEF Broadcasts!IsAt
<1>4. ASSUME c \in Supporting, wanted \in Intervals, Broadcasts!Enable(list, i, c, wanted)
      PROVE  BroadcastsInv'
  <2> HIDE DEF wanted, i
  <2>1. CASE Broadcasts!IsAt(list, i, c) /\ list[i].interval = wanted /\ Broadcasts!AlreadySo(c, wanted)
    <3>1. \A v \in Intervals \cup {Broadcasts!Disabled} : Says(list, c, v) => v = wanted
      BY <1>2, <1>3, <1>4, <2>1, SaysItsItem
    <3> QED
      BY <1>4, <2>1, <3>1, SaidAlready
  <2>2. CASE /\ Broadcasts!IsAt(list, i, c)
             /\ Broadcasts!Stores([list EXCEPT ![i].interval = wanted], c, wanted)
    <3>1. Changed(list, c, wanted, [list EXCEPT ![i].interval = wanted])
      BY <1>2, <1>3, <1>4, <2>2, ItemChanged
    <3> QED
      BY <1>4, <2>2, <3>1, Stored
  <2>3. CASE /\ ~Broadcasts!IsAt(list, i, c) /\ ~Broadcasts!IsFull(list)
             /\ Broadcasts!Stores(Broadcasts!InsertAt(list, i, Broadcasts!Item(c, wanted)), c, wanted)
    <3>1. Changed(list, c, wanted, Broadcasts!InsertAt(list, i, Broadcasts!Item(c, wanted)))
      BY <1>2, <1>4, <2>3, ItemAdded DEF i
    <3> QED
      BY <1>4, <2>3, <3>1, Stored
  <2> QED
    BY <1>1, <1>4, <2>1, <2>2, <2>3 DEF Broadcasts!Enable, Broadcasts!Place, i
<1>5. ASSUME c \in Supporting, Broadcasts!Disable(list, i, c)
      PROVE  BroadcastsInv'
  <2> HIDE DEF i
  <2>1. CASE Broadcasts!IsAt(list, i, c)
    <3>1. Changed(list, c, Broadcasts!Disabled, Broadcasts!RemoveAt(list, i))
      BY <1>2, <1>3, <1>5, <2>1, ItemRemoved
    <3> QED
      BY <1>5, <2>1, <3>1, Stored DEF Broadcasts!Disable
  <2>2. CASE ~Broadcasts!IsAt(list, i, c)
    <3>1. \A v \in Intervals \cup {Broadcasts!Disabled} : Says(list, c, v) => v = Broadcasts!Disabled
      BY <1>3, <1>5, <2>2 DEF Says
    <3> QED
      BY <1>5, <2>2, <3>1, SaidAlready DEF Broadcasts!Disable
  <2> QED
    BY <2>1, <2>2
<1>6. ASSUME ~Broadcasts!IsWrong(c, properties, interval), properties = Broadcasts!EnableBroadcasts
      PROVE  wanted \in Intervals
  BY <1>6 DEF Broadcasts!IsWrong, Broadcasts!Default, Broadcasts!BLECharacteristicConfigurationAssumption
<1> QED
  BY <1>1, <1>4, <1>5, <1>6 DEF Broadcasts!HandleConfigurationRequest

\* What is found for every characteristic is what was asked for, for any characteristics,
\* intervals and size of the list.
LEMMA BroadcastsAreAsAsked ==
  ASSUME Broadcasts!BLECharacteristicConfigurationAssumption
  PROVE  Broadcasts!Init /\ [][Broadcasts!Next]_broadcasts => []Broadcasts!BroadcastsAsAsked
<1>1. ListSound(<<>>) /\ \A c, v : Says(<<>>, c, v) => v = Broadcasts!Disabled
  <2>1. <<>> \in Seq(Items) /\ Len(<<>>) = 0
    BY EmptySeq
  <2> QED
    BY <2>1 DEF ListSound, Sorted, Says, Broadcasts!NumBytes, Broadcasts!MaxBytes,
                Broadcasts!BLECharacteristicConfigurationAssumption
<1>2. Broadcasts!Init => BroadcastsInv
  BY <1>1 DEF Broadcasts!Init, Broadcasts!Unset, BroadcastsInv
<1>3. BroadcastsInv /\ [Broadcasts!Next]_broadcasts => BroadcastsInv'
  <2> SUFFICES ASSUME BroadcastsInv, [Broadcasts!Next]_broadcasts PROVE BroadcastsInv'
    OBVIOUS
  <2>1. CASE Broadcasts!RestoreFactorySettings
    <3>1. CASE broadcasts' = Broadcasts!Unset
      BY <1>1, <3>1 DEF Broadcasts!Unset, BroadcastsInv
    <3>2. ASSUME NEW kept \in {broadcasts.list, <<>>},
                 broadcasts' = [list |-> kept, asked |-> [c \in Supporting |-> broadcasts.asked[c] \cup {Broadcasts!Disabled}]]
          PROVE  BroadcastsInv'
      BY <1>1, <3>2 DEF BroadcastsInv
    <3> QED
      BY <2>1, <3>1, <3>2 DEF Broadcasts!RestoreFactorySettings
  <2>2. CASE UNCHANGED broadcasts
    BY <2>2 DEF BroadcastsInv
  <2> QED
    BY <2>1, <2>2, RequestsKept DEF Broadcasts!Next
<1>4. BroadcastsInv => Broadcasts!BroadcastsAsAsked
  <2> SUFFICES ASSUME BroadcastsInv, NEW c \in Supporting
               PROVE  Broadcasts!GetBroadcastConfiguration(broadcasts.list, c) \in broadcasts.asked[c]
    BY DEF BroadcastsInv, ListSound, Broadcasts!BroadcastsAsAsked
  <2> DEFINE list == broadcasts.list
             i == Broadcasts!Position(list, c)
  <2>1. list \in Seq(Items) /\ Sorted(list) /\ c \in Nat
    BY DEF BroadcastsInv, ListSound, Broadcasts!BLECharacteristicConfigurationAssumption
  <2>2. /\ Len(list) \in Nat /\ i \in 1 .. Len(list) + 1
        /\ ~Broadcasts!IsAt(list, i, c) => \A j \in 1 .. Len(list) : list[j].cid # c
    <3> HIDE DEF list
    <3> QED
      BY <2>1, SearchEnds
  <2>3. CASE Broadcasts!IsAt(list, i, c)
    <3> HIDE DEF i
    <3>1. i \in 1 .. Len(list) /\ list[i].cid = c /\ list[i].interval \in Intervals
      <4>1. i \in 1 .. Len(list) /\ list[i].cid = c
        BY <2>2, <2>3 DEF Broadcasts!IsAt
      <4> HIDE DEF list
      <4>2. list[i] \in Items
        BY <2>1, <4>1, ElementOfSeq
      <4> QED
        BY <4>1, <4>2 DEF Items
    <3>2. Says(list, c, list[i].interval)
      BY <3>1 DEF Says
    <3> QED
      BY <2>3, <3>1, <3>2 DEF BroadcastsInv, Broadcasts!GetBroadcastConfiguration, i
  <2>4. CASE ~Broadcasts!IsAt(list, i, c)
    <3>1. Says(list, c, Broadcasts!Disabled)
      BY <2>2, <2>4 DEF Says
    <3> QED
      BY <2>4, <3>1 DEF BroadcastsInv, Broadcasts!GetBroadcastConfiguration
  <2> QED
    BY <2>3, <2>4
<1> QED
  BY <1>2, <1>3, <1>4, PTL

\* Controllers learn of every change from the number and see the current one, and what is
\* broadcasted for them is what they asked for, for any values of the constants.
THEOREM ControllersAreInformed ==
  ASSUME Advertising!BLEAdvertisingAssumption, Broadcasts!BLECharacteristicConfigurationAssumption
  PROVE  Advertising!Spec /\ Broadcasts!Init /\ [][Broadcasts!Next]_broadcasts => []ControllersInformed
<1>1. AdvertisingInv => Advertising!ControllersInformed
  BY DEF AdvertisingInv, AdvertisingSound, CountSound, ChangeCounted, Shown, Advertising!ControllersInformed,
         Advertising!EventNoticed, Advertising!OnAirIsCurrent
<1>2. AdvertisingInv /\ Broadcasts!BroadcastsAsAsked => ControllersInformed
  BY <1>1 DEF ControllersInformed
<1> QED
  BY <1>2, AdvertisingIsSound, BroadcastsAreAsAsked, PTL

-----------------------------------------------------------------------------
(* The coprocessor. An access of a register changes nothing about the      *)
(* power; of a signature that is read it is known, once all accesses       *)
(* before have succeeded, which challenge it is of.                        *)

PowerOffTimers == -1 .. 3
Counts == 0 .. MaxCounter
Statuses == {"none", "signed", "refused"}

CoprocessorStates(v) ==
  [created : BOOLEAN, powerOffTimer : PowerOffTimers, fault : {"none"}, on : BOOLEAN, protocol : {1, 2, 3},
   counter : Counts, error : BOOLEAN, challenge : {v.challenge}, response : {v.response}, status : Statuses,
   err : {"None", "Unknown", "OutOfResources"},
   result : {v.result}, cutOff : {FALSE}, leftOn : BOOLEAN]

PowerSound(v) ==
  /\ v \in CoprocessorStates(v)
  /\ v.powerOffTimer # Coprocessor!NoTimer => v.on
  /\ v.on /\ ~v.leftOn => v.powerOffTimer # Coprocessor!NoTimer

SignatureSound(v) ==
  v.result # <<>> /\ v.result[1] = "signature" /\ v.err = "None" => v.result[2] = <<v.result[3]>>

CoprocessorInv == PowerSound(m) /\ SignatureSound(m)

\* v has been accessed, without anything being read or written that a signature depends on.
Accessed(v, u) ==
  /\ PowerSound(u) /\ (u.err = "None" => v.err = "None")
  /\ u.result = v.result /\ u.challenge = v.challenge /\ u.response = v.response /\ u.status = v.status

LEMMA FailedAccess ==
  ASSUME NEW v, PowerSound(v)
  PROVE  Accessed(v, Coprocessor!Failed(v)) /\ Coprocessor!Failed(v).err # "None"
BY DEF PowerSound, CoprocessorStates, Accessed, Coprocessor!Failed

LEMMA ErrorSet ==
  ASSUME NEW v, PowerSound(v), NEW error \in BOOLEAN
  PROVE  Accessed(v, [v EXCEPT !.error = error])
BY DEF PowerSound, CoprocessorStates, Accessed

\* The accesses that come before and after the ones for a signature
LEMMA Accesses ==
  ASSUME NEW v, PowerSound(v),
         NEW u \in Coprocessor!ResetError(v) \cup Coprocessor!Unchanged(v) \cup Coprocessor!CheckError(v)
                     \cup Coprocessor!SelfTest(v) \cup Coprocessor!OrRefused(v)
                     \cup Coprocessor!SupportedVersion(v) \cup Coprocessor!ReadStatus(v)
                     \cup {Coprocessor!Failed(v), v}
  PROVE  Accessed(v, u)
<1>1. Accessed(v, v)
  BY DEF Accessed
<1>2. ASSUME NEW w, Accessed(v, w) PROVE Accessed(v, Coprocessor!Failed(w))
  BY <1>2, FailedAccess DEF Accessed
<1>3. u \in {v, Coprocessor!Failed(v), [v EXCEPT !.error = FALSE], [v EXCEPT !.error = TRUE],
             Coprocessor!Failed([v EXCEPT !.error = FALSE])}
  BY DEF Coprocessor!ResetError, Coprocessor!Unchanged, Coprocessor!CheckError, Coprocessor!SelfTest,
         Coprocessor!OrRefused, Coprocessor!SupportedVersion, Coprocessor!ReadStatus
<1> QED
  BY <1>1, <1>2, <1>3, FailedAccess, ErrorSet

LEMMA Begun ==
  ASSUME CoprocessorInv
  PROVE  /\ PowerSound(Coprocessor!Begin) /\ Coprocessor!Begin.result = <<>>
         /\ Coprocessor!Begin.on = m.on /\ Coprocessor!Begin.created = m.created
<1> DEFINE x == [m EXCEPT !.err = "None"]
           r == <<>>
           b == [x EXCEPT !.result = r]
<1>1. PowerSound(x) /\ x.on = m.on /\ x.created = m.created
  BY DEF CoprocessorInv, PowerSound, CoprocessorStates
<1>2. b = Coprocessor!Begin
  BY DEF Coprocessor!Begin
<1> HIDE DEF x, r
<1>3. PowerSound(b) /\ b.result = r /\ b.on = m.on /\ b.created = m.created
  BY <1>1 DEF PowerSound, CoprocessorStates
<1> QED
  BY <1>2, <1>3 DEF r

\* A call begins, and needs power.
LEMMA Enabled ==
  ASSUME CoprocessorInv, NEW u \in Coprocessor!Enable(Coprocessor!Begin)
  PROVE  PowerSound(u) /\ u.result = <<>>
<1> DEFINE b == Coprocessor!Begin
<1>1. PowerSound(b) /\ b.result = <<>>
  BY Begun
<1> HIDE DEF b
<1>2. CASE u \in {b, Coprocessor!Failed(b)}
  BY <1>1, <1>2, FailedAccess DEF Accessed
<1>3. CASE ~b.on /\ u = [b EXCEPT !.on = TRUE, !.powerOffTimer = 3]
  <2> DEFINE x == [b EXCEPT !.on = TRUE]
  <2>1. x \in CoprocessorStates(b) /\ x.on /\ b \in CoprocessorStates(b)
    BY <1>1 DEF PowerSound, CoprocessorStates
  <2>2. u = [x EXCEPT !.powerOffTimer = 3]
    BY <1>3
  <2> HIDE DEF x
  <2>3. 3 \in PowerOffTimers /\ 3 # Coprocessor!NoTimer
    BY DEF PowerOffTimers, Coprocessor!NoTimer
  <2>4. u \in CoprocessorStates(b) /\ u.on /\ u.powerOffTimer = 3
    BY <2>1, <2>2, <2>3 DEF CoprocessorStates
  <2> QED
    BY <1>1, <2>3, <2>4 DEF PowerSound, CoprocessorStates
<1>4. CASE ~b.on /\ u = [b EXCEPT !.on = TRUE, !.leftOn = TRUE]
  BY <1>1, <1>4 DEF PowerSound, CoprocessorStates, Coprocessor!NoTimer
<1> QED
  BY <1>2, <1>3, <1>4 DEF Coprocessor!Enable, b

\* The calls that return no signature
NotSigned(v) == PowerSound(v) /\ (v.result = <<>> \/ v.result[1] # "signature")

LEMMA AvailableKept ==
  ASSUME CoprocessorInv, Coprocessor!IsAvailable
  PROVE  CoprocessorInv'
<1> DEFINE s0 == Coprocessor!Enable(Coprocessor!Begin)
           s1 == Coprocessor!Then(s0, Coprocessor!ResetError)
           s2 == Coprocessor!Then(s1, Coprocessor!Unchanged)
           s3 == Coprocessor!Then(s2, Coprocessor!CheckError)
           s4 == Coprocessor!Then(s3, Coprocessor!SelfTest)
           s5 == Coprocessor!Then(s4, Coprocessor!OrRefused)
<1>1. ASSUME NEW v, NotSigned(v), NEW u, Accessed(v, u)
      PROVE  NotSigned(u)
  BY <1>1 DEF NotSigned, Accessed
<1>2. \A u \in s0 : NotSigned(u)
  BY Enabled DEF NotSigned
<1> HIDE DEF s0
<1>3. \A u \in s1 : \E v \in s0 : u \in Coprocessor!ResetError(v) \cup {Coprocessor!Failed(v), v}
  BY Zenon DEF Coprocessor!Then
<1>4. \A u \in s1 : NotSigned(u)
  BY <1>1, <1>2, <1>3, Accesses DEF NotSigned
<1> HIDE DEF s1
<1>5. \A u \in s2 : \E v \in s1 : u \in Coprocessor!Unchanged(v) \cup {Coprocessor!Failed(v), v}
  BY Zenon DEF Coprocessor!Then
<1>6. \A u \in s2 : NotSigned(u)
  BY <1>1, <1>4, <1>5, Accesses DEF NotSigned
<1> HIDE DEF s2
<1>7. \A u \in s3 : \E v \in s2 : u \in Coprocessor!CheckError(v) \cup {Coprocessor!Failed(v), v}
  BY Zenon DEF Coprocessor!Then
<1>8. \A u \in s3 : NotSigned(u)
  BY <1>1, <1>6, <1>7, Accesses DEF NotSigned
<1> HIDE DEF s3
<1>9. \A u \in s4 : \E v \in s3 : u \in Coprocessor!SelfTest(v) \cup {Coprocessor!Failed(v), v}
  BY Zenon DEF Coprocessor!Then
<1>10. \A u \in s4 : NotSigned(u)
  BY <1>1, <1>8, <1>9, Accesses DEF NotSigned
<1> HIDE DEF s4
<1>11. \A u \in s5 : \E v \in s4 : u \in Coprocessor!OrRefused(v) \cup {Coprocessor!Failed(v), v}
  BY Zenon DEF Coprocessor!Then
<1>12. \A u \in s5 : NotSigned(u)
  BY <1>1, <1>10, <1>11, Accesses DEF NotSigned
<1> HIDE DEF s5
<1>13. m' \in s5
  BY DEF Coprocessor!IsAvailable, s0, s1, s2, s3, s4, s5
<1> QED
  BY <1>12, <1>13 DEF NotSigned, CoprocessorInv, SignatureSound

\* The certificate has no more parts than there are registers for it.
LEMMA CertificateRead ==
  ASSUME Coprocessor!MFiHWAuthAssumption, NEW v, PowerSound(v), NEW u \in Coprocessor!ReadCertificate(v)
  PROVE  PowerSound(u) /\ (u.result = v.result \/ \E n \in CertificateLengths : u.result = <<"certificate", n>>)
<1>1. PICK n \in CertificateLengths :
        u = IF n \notin (IF v.protocol = 3 THEN 607 .. 609 ELSE 0 .. 1280) THEN Coprocessor!Failed(v)
            ELSE IF n > MaxCertificateBytes THEN [v EXCEPT !.err = "OutOfResources"]
            ELSE [v EXCEPT !.result = <<"certificate", n>>,
                           !.fault = IF Coprocessor!NumParts(n) <= (IF v.protocol = 3 THEN 5 ELSE 10)
                                     THEN @ ELSE "tooManyParts"]
  BY ZenonT(60) DEF Coprocessor!ReadCertificate
<1>2. CASE u \in {Coprocessor!Failed(v), [v EXCEPT !.err = "OutOfResources"]}
  <2>1. CASE u = [v EXCEPT !.err = "OutOfResources"]
    BY <2>1 DEF PowerSound, CoprocessorStates
  <2> QED
    BY <1>2, <2>1, FailedAccess DEF Accessed
<1>3. CASE n \in (IF v.protocol = 3 THEN 607 .. 609 ELSE 0 .. 1280) /\ n <= MaxCertificateBytes
  <2> DEFINE r == <<"certificate", n>>
             x == [v EXCEPT !.result = r]
  <2>1. Coprocessor!NumParts(n) <= (IF v.protocol = 3 THEN 5 ELSE 10)
    BY <1>3 DEF Coprocessor!NumParts, Coprocessor!MFiHWAuthAssumption
  <2>2. u = [x EXCEPT !.fault = v.fault]
    BY <1>1, <1>3, <2>1 DEF Coprocessor!MFiHWAuthAssumption
  <2>3. r = <<"certificate", n>>
    OBVIOUS
  <2> HIDE DEF r
  <2>4. PowerSound(x) /\ x.result = r /\ x.fault = v.fault /\ v.fault = "none"
    BY DEF PowerSound, CoprocessorStates
  <2> HIDE DEF x
  <2>5. PowerSound(u) /\ u.result = r
    BY <2>2, <2>4 DEF PowerSound, CoprocessorStates
  <2> QED
    BY <2>3, <2>5
<1>4. n > MaxCertificateBytes \/ n <= MaxCertificateBytes
  BY DEF Coprocessor!MFiHWAuthAssumption
<1>5. CASE n \notin (IF v.protocol = 3 THEN 607 .. 609 ELSE 0 .. 1280)
  BY <1>1, <1>2, <1>5
<1>6. CASE n \in (IF v.protocol = 3 THEN 607 .. 609 ELSE 0 .. 1280) /\ n > MaxCertificateBytes
  BY <1>1, <1>2, <1>6
<1> QED
  BY <1>3, <1>4, <1>5, <1>6, Zenon

LEMMA CertificateKept ==
  ASSUME Coprocessor!MFiHWAuthAssumption, CoprocessorInv, Coprocessor!CopyCertificate
  PROVE  CoprocessorInv'
<1> DEFINE s0 == Coprocessor!Enable(Coprocessor!Begin)
           s1 == Coprocessor!Then(s0, Coprocessor!ResetError)
           s2 == Coprocessor!Then(s1, Coprocessor!SupportedVersion)
           s3 == Coprocessor!Then(s2, Coprocessor!ReadCertificate)
           s4 == Coprocessor!Then(s3, Coprocessor!OrRefused)
           s5 == Coprocessor!Then(s4, Coprocessor!CheckError)
<1>1. ASSUME NEW v, NotSigned(v), NEW u, Accessed(v, u)
      PROVE  NotSigned(u)
  BY <1>1 DEF NotSigned, Accessed
<1>2. \A u \in s0 : NotSigned(u)
  BY Enabled DEF NotSigned
<1> HIDE DEF s0
<1>3. \A u \in s1 : \E v \in s0 : u \in Coprocessor!ResetError(v) \cup {Coprocessor!Failed(v), v}
  BY Zenon DEF Coprocessor!Then
<1>4. \A u \in s1 : NotSigned(u)
  BY <1>1, <1>2, <1>3, Accesses DEF NotSigned
<1> HIDE DEF s1
<1>5. \A u \in s2 : \E v \in s1 : u \in Coprocessor!SupportedVersion(v) \cup {Coprocessor!Failed(v), v}
  BY Zenon DEF Coprocessor!Then
<1>6. \A u \in s2 : NotSigned(u)
  BY <1>1, <1>4, <1>5, Accesses DEF NotSigned
<1> HIDE DEF s2
<1>7. \A u \in s3 : \E v \in s2 : u \in Coprocessor!ReadCertificate(v) \cup {Coprocessor!Failed(v), v}
  BY Zenon DEF Coprocessor!Then
<1>8. \A u \in s3 : NotSigned(u)
  <2>1. ASSUME NEW v, NotSigned(v), NEW u \in Coprocessor!ReadCertificate(v)
        PROVE  NotSigned(u)
    BY <2>1, CertificateRead DEF NotSigned
  <2> QED
    BY <1>1, <1>6, <1>7, <2>1, Accesses DEF NotSigned
<1> HIDE DEF s3
<1>9. \A u \in s4 : \E v \in s3 : u \in Coprocessor!OrRefused(v) \cup {Coprocessor!Failed(v), v}
  BY Zenon DEF Coprocessor!Then
<1>10. \A u \in s4 : NotSigned(u)
  BY <1>1, <1>8, <1>9, Accesses DEF NotSigned
<1> HIDE DEF s4
<1>11. \A u \in s5 : \E v \in s4 : u \in Coprocessor!CheckError(v) \cup {Coprocessor!Failed(v), v}
  BY Zenon DEF Coprocessor!Then
<1>12. \A u \in s5 : NotSigned(u)
  BY <1>1, <1>10, <1>11, Accesses DEF NotSigned
<1> HIDE DEF s5
<1>13. m' \in s5
  BY DEF Coprocessor!CopyCertificate, s0, s1, s2, s3, s4, s5
<1> QED
  BY <1>12, <1>13 DEF NotSigned, CoprocessorInv, SignatureSound

\* The accesses for a signature
LEMMA ChallengeWritten ==
  ASSUME NEW v, PowerSound(v), NEW c, NEW u \in Coprocessor!WriteChallenge(c, v)
  PROVE  PowerSound(u) /\ u.challenge = <<c>>
<1> DEFINE r == <<c>>
<1>1. u = [v EXCEPT !.challenge = r]
  BY DEF Coprocessor!WriteChallenge
<1> HIDE DEF r
<1>2. PowerSound(u) /\ u.challenge = r
  BY <1>1 DEF PowerSound, CoprocessorStates
<1> QED
  BY <1>2 DEF r

LEMMA Signed ==
  ASSUME Coprocessor!MFiHWAuthAssumption, NEW v, PowerSound(v), NEW u \in Coprocessor!Sign(v)
  PROVE  PowerSound(u) /\ (u.status = "signed" => u.response = v.challenge)
<1>1. MaxCounter \in Counts /\ v.counter \in Counts /\ {"signed", "refused"} \subseteq Statuses
  BY DEF Coprocessor!MFiHWAuthAssumption, PowerSound, CoprocessorStates, Counts, Statuses
<1>2. PICK n \in {v.counter, MaxCounter} :
        \/ u = [v EXCEPT !.counter = n, !.response = v.challenge, !.status = "signed"]
        \/ \E error \in BOOLEAN : u = [v EXCEPT !.counter = n, !.status = "refused", !.error = error]
  <2>1. \E n \in {v.counter, MaxCounter} :
          u = Coprocessor!Signed(v, n) \/ \E error \in BOOLEAN : u = Coprocessor!Refused(v, n, error)
    BY DEF Coprocessor!Sign
  <2> QED
    BY <2>1 DEF Coprocessor!Signed, Coprocessor!Refused
<1> DEFINE x == [v EXCEPT !.counter = n]
<1>3. PowerSound(x)
  BY <1>1 DEF PowerSound, CoprocessorStates
<1>4. \/ u = [x EXCEPT !.response = v.challenge, !.status = "signed"]
      \/ \E error \in BOOLEAN : u = [x EXCEPT !.status = "refused", !.error = error]
  BY <1>2
<1> HIDE DEF x
<1>5. CASE u = [x EXCEPT !.response = v.challenge, !.status = "signed"]
  <2> DEFINE y == [x EXCEPT !.response = v.challenge]
  <2>1. PowerSound(y) /\ y.response = v.challenge
    BY <1>3 DEF PowerSound, CoprocessorStates
  <2>2. u = [y EXCEPT !.status = "signed"]
    BY <1>5
  <2> HIDE DEF y
  <2> QED
    BY <1>1, <2>1, <2>2 DEF PowerSound, CoprocessorStates
<1>6. ASSUME NEW error \in BOOLEAN, u = [x EXCEPT !.status = "refused", !.error = error]
      PROVE  PowerSound(u) /\ (u.status = "signed" => u.response = v.challenge)
  <2> DEFINE y == [x EXCEPT !.status = "refused"]
  <2>1. PowerSound(y) /\ y.status = "refused"
    BY <1>1, <1>3 DEF PowerSound, CoprocessorStates
  <2>2. u = [y EXCEPT !.error = error]
    BY <1>6
  <2> HIDE DEF y
  <2> QED
    BY <2>1, <2>2, ErrorSet DEF Accessed
<1> QED
  BY <1>4, <1>5, <1>6

LEMMA ResponseRead ==
  ASSUME NEW v, PowerSound(v), NEW u \in Coprocessor!ReadResponse(v)
  PROVE  PowerSound(u) /\ (u.err = "None" => u.result = <<"signature", v.response>>)
<1>1. CASE u = Coprocessor!Failed(v)
  BY <1>1, FailedAccess DEF Accessed
<1>2. CASE u # Coprocessor!Failed(v)
  <2> DEFINE r == <<"signature", v.response>>
  <2>1. u = [v EXCEPT !.result = r]
    BY <1>2 DEF Coprocessor!ReadResponse
  <2> HIDE DEF r
  <2>2. PowerSound(u) /\ u.result = r
    BY <2>1 DEF PowerSound, CoprocessorStates
  <2> QED
    BY <2>2 DEF r
<1> QED
  BY <1>1, <1>2

LEMMA StatusRead ==
  ASSUME NEW v, PowerSound(v), NEW u \in Coprocessor!ReadStatus(v)
  PROVE  PowerSound(u) /\ u.response = v.response /\ (u.err = "None" => v.err = "None" /\ v.status = "signed")
BY FailedAccess DEF Accessed, Coprocessor!ReadStatus

\* The challenge is written and signed, and the signature read, in this order.
LEMMA SignatureKept ==
  ASSUME Coprocessor!MFiHWAuthAssumption, CoprocessorInv,
         NEW c \in Challenges, Coprocessor!CreateSignature(c)
  PROVE  CoprocessorInv'
<1> DEFINE Challenge(v) == Coprocessor!WriteChallenge(c, v)
           s0 == Coprocessor!Enable(Coprocessor!Begin)
           s1 == Coprocessor!Then(s0, Coprocessor!ResetError)
           s2 == Coprocessor!Then(s1, Coprocessor!SupportedVersion)
           s3 == Coprocessor!Then(s2, Challenge)
           s4 == Coprocessor!Then(s3, Coprocessor!Sign)
           s5 == Coprocessor!Then(s4, Coprocessor!ReadStatus)
           s6 == Coprocessor!Then(s5, Coprocessor!ReadResponse)
           s7 == Coprocessor!Then(s6, Coprocessor!CheckError)
           signature == <<"signature", <<c>>>>
<1>1. \A u \in s0 : PowerSound(u)
  BY Enabled
<1> HIDE DEF s0
<1>2. \A u \in s1 : \E v \in s0 : u \in Coprocessor!ResetError(v) \cup {Coprocessor!Failed(v), v}
  BY Zenon DEF Coprocessor!Then
<1>3. \A u \in s1 : PowerSound(u)
  BY <1>1, <1>2, Accesses DEF Accessed
<1> HIDE DEF s1
<1>4. \A u \in s2 : \E v \in s1 : u \in Coprocessor!SupportedVersion(v) \cup {Coprocessor!Failed(v), v}
  BY Zenon DEF Coprocessor!Then
<1>5. \A u \in s2 : PowerSound(u)
  BY <1>3, <1>4, Accesses DEF Accessed
<1> HIDE DEF s2
<1>6. \A u \in s3 :
        \E v \in s2 : u = Coprocessor!Failed(v) \/ u \in Challenge(v) \/ (u = v /\ v.err # "None")
  BY Zenon DEF Coprocessor!Then
<1>7. \A u \in s3 : PowerSound(u) /\ (u.err = "None" => u.challenge = <<c>>)
  BY <1>5, <1>6, FailedAccess, ChallengeWritten DEF Accessed
<1> HIDE DEF s3
<1>8. \A u \in s4 :
        \E v \in s3 : u = Coprocessor!Failed(v) \/ (v.err = "None" /\ u \in Coprocessor!Sign(v)) \/ (v.err # "None" /\ u = v)
  BY Zenon DEF Coprocessor!Then
<1>9. \A u \in s4 : PowerSound(u) /\ (u.err = "None" /\ u.status = "signed" => u.response = <<c>>)
  <2> SUFFICES ASSUME NEW u \in s4
               PROVE  PowerSound(u) /\ (u.err = "None" /\ u.status = "signed" => u.response = <<c>>)
    OBVIOUS
  <2>1. PICK v \in s3 : u = Coprocessor!Failed(v) \/ (v.err = "None" /\ u \in Coprocessor!Sign(v)) \/ (v.err # "None" /\ u = v)
    BY <1>8
  <2>2. PowerSound(v) /\ (v.err = "None" => v.challenge = <<c>>)
    BY <1>7
  <2> QED
    BY <2>1, <2>2, FailedAccess, Signed DEF Accessed
<1> HIDE DEF s4
<1>10. \A u \in s5 :
        \E v \in s4 : u = Coprocessor!Failed(v) \/ (v.err = "None" /\ u \in Coprocessor!ReadStatus(v)) \/ (v.err # "None" /\ u = v)
  BY Zenon DEF Coprocessor!Then
<1>11. \A u \in s5 : PowerSound(u) /\ (u.err = "None" => u.response = <<c>>)
  <2> SUFFICES ASSUME NEW u \in s5
               PROVE  PowerSound(u) /\ (u.err = "None" => u.response = <<c>>)
    OBVIOUS
  <2>1. PICK v \in s4 : u = Coprocessor!Failed(v) \/ (v.err = "None" /\ u \in Coprocessor!ReadStatus(v)) \/ (v.err # "None" /\ u = v)
    BY <1>10
  <2>2. PowerSound(v) /\ (v.err = "None" /\ v.status = "signed" => v.response = <<c>>)
    BY <1>9
  <2> QED
    BY <2>1, <2>2, FailedAccess, StatusRead DEF Accessed
<1> HIDE DEF s5
<1>12. \A u \in s6 :
        \E v \in s5 : u = Coprocessor!Failed(v) \/ (v.err = "None" /\ u \in Coprocessor!ReadResponse(v)) \/ (v.err # "None" /\ u = v)
  BY Zenon DEF Coprocessor!Then
<1>13. \A u \in s6 : PowerSound(u) /\ (u.err = "None" => u.result = signature)
  <2> SUFFICES ASSUME NEW u \in s6
               PROVE  PowerSound(u) /\ (u.err = "None" => u.result = signature)
    OBVIOUS
  <2>1. PICK v \in s5 : u = Coprocessor!Failed(v) \/ (v.err = "None" /\ u \in Coprocessor!ReadResponse(v)) \/ (v.err # "None" /\ u = v)
    BY <1>12
  <2>2. PowerSound(v) /\ (v.err = "None" => v.response = <<c>>)
    BY <1>11
  <2> QED
    BY <2>1, <2>2, FailedAccess, ResponseRead DEF Accessed
<1> HIDE DEF s6
<1> HIDE DEF signature
<1>14. \A u \in s7 : \E v \in s6 : u \in Coprocessor!CheckError(v) \cup {Coprocessor!Failed(v), v}
  BY Zenon DEF Coprocessor!Then
<1>15. \A u \in s7 : PowerSound(u) /\ (u.err = "None" => u.result = signature)
  <2> SUFFICES ASSUME NEW u \in s7
               PROVE  PowerSound(u) /\ (u.err = "None" => u.result = signature)
    OBVIOUS
  <2>1. PICK v \in s6 : u \in Coprocessor!CheckError(v) \cup {Coprocessor!Failed(v), v}
    BY <1>14
  <2>2. Accessed(v, u)
    BY <1>13, <2>1, Accesses
  <2> QED
    BY <1>13, <2>2 DEF Accessed
<1> HIDE DEF s7
<1>16. PICK v \in s7 : m' = IF v.err = "None" THEN [v EXCEPT !.result = @ \o <<c>>] ELSE v
  BY Zenon DEF Coprocessor!CreateSignature, s0, s1, s2, s3, s4, s5, s6, s7
<1>17. CASE v.err = "None"
  <2> DEFINE S == {"signature", c, <<c>>}
             r == signature \o <<c>>
  <2>1. signature \in Seq(S) /\ Len(signature) = 2 /\ signature[2] = <<c>>
    BY DEF signature
  <2>2. <<c>> \in Seq(S) /\ Len(<<c>>) = 1 /\ <<c>>[1] = c
    OBVIOUS
  <2>3. r[2] = <<c>> /\ r[3] = c
    <3> HIDE DEF S
    <3>1. \A i \in 1 .. 3 : r[i] = IF i <= 2 THEN signature[i] ELSE <<c>>[i - 2]
      <4>1. \A i \in 1 .. Len(signature) + Len(<<c>>) :
               r[i] = IF i <= Len(signature) THEN signature[i] ELSE <<c>>[i - Len(signature)]
        BY <2>1, <2>2, ConcatProperties, Zenon
      <4> HIDE DEF r, signature
      <4> QED
        BY <2>1, <2>2, <4>1
    <3> HIDE DEF r
    <3> QED
      BY <2>1, <2>2, <3>1
  <2>4. m' = [v EXCEPT !.result = r]
    BY <1>15, <1>16, <1>17
  <2> HIDE DEF r
  <2> DEFINE n == [v EXCEPT !.result = r]
  <2>5. PowerSound(v)
    BY <1>15
  <2>6. PowerSound(n) /\ n.result = r
    BY <2>5 DEF PowerSound, CoprocessorStates
  <2>7. m' = n
    BY <2>4
  <2> HIDE DEF n
  <2>8. SignatureSound(n)
    BY <2>3, <2>6 DEF SignatureSound
  <2> QED
    BY <2>6, <2>7, <2>8 DEF CoprocessorInv, PowerSound, SignatureSound, CoprocessorStates
<1>18. CASE v.err # "None"
  BY <1>15, <1>16, <1>18 DEF CoprocessorInv, SignatureSound
<1> QED
  BY <1>17, <1>18

\* The signature of the last call is none of the timer's business.
LEMMA Alone ==
  ASSUME SignatureSound(m), NEW w, PowerSound(w), w.result = m.result, w.err = m.err, m' = w
  PROVE  CoprocessorInv'
<1>1. PowerSound(w) /\ SignatureSound(w)
  BY DEF SignatureSound
<1> QED
  BY <1>1 DEF CoprocessorInv, PowerSound, SignatureSound, CoprocessorStates

\* The timer, and time: it is not before the event counter has run down that it is safe.
LEMMA PowerKept ==
  ASSUME Coprocessor!MFiHWAuthAssumption, CoprocessorInv,
         Coprocessor!PowerOffTimerExpired \/ Coprocessor!Tick
  PROVE  CoprocessorInv'
<1>1. PowerSound(m) /\ SignatureSound(m) /\ m \in CoprocessorStates(m)
  BY DEF CoprocessorInv, PowerSound
<1>2. CASE Coprocessor!PowerOffTimerExpired
  <2> DEFINE v == [m EXCEPT !.powerOffTimer = Coprocessor!NoTimer, !.fault = IF m.on THEN @ ELSE "poweredOff"]
             x == [m EXCEPT !.powerOffTimer = Coprocessor!NoTimer]
             off == [x EXCEPT !.on = FALSE, !.error = FALSE, !.status = "none"]
  <2>1. PICK unreadable \in Coprocessor!Safety :
          IF Coprocessor!IsSafeToRelease(v, unreadable)
          THEN m' = [Coprocessor!PoweredOff(v) EXCEPT
                       !.cutOff = v.protocol = 2 /\ v.counter > 0 /\ unreadable = "none"]
          ELSE \/ m' = [v EXCEPT !.powerOffTimer = 1]
               \/ m' = [v EXCEPT !.leftOn = TRUE]
    BY <1>2 DEF Coprocessor!PowerOffTimerExpired
  <2>2. {Coprocessor!NoTimer, 1} \subseteq PowerOffTimers /\ 1 # Coprocessor!NoTimer /\ 0 # Coprocessor!NoTimer
        /\ "none" \in Statuses
    BY DEF PowerOffTimers, Coprocessor!NoTimer, Statuses
  <2>3. m.powerOffTimer = 0 /\ m.on
    BY <1>1, <1>2, <2>2 DEF Coprocessor!PowerOffTimerExpired, PowerSound
  <2>4. v = [x EXCEPT !.fault = m.fault]
    BY <2>3
  <2>5. x \in CoprocessorStates(m) /\ x.powerOffTimer = Coprocessor!NoTimer /\ x.on /\ x.fault = m.fault
        /\ x.result = m.result /\ x.err = m.err
    BY <1>1, <2>2, <2>3 DEF CoprocessorStates
  <2> HIDE DEF x
  <2>6. v = x
    BY <2>4, <2>5 DEF CoprocessorStates
  <2> HIDE DEF v
  <2>7. CASE Coprocessor!IsSafeToRelease(v, unreadable)
    <3> DEFINE c == Coprocessor!NoChallenge
               y == [off EXCEPT !.challenge = c]
               z == [y EXCEPT !.response = c]
    <3>1. ~(x.protocol = 2 /\ x.counter > 0 /\ unreadable = "none")
      BY <2>6, <2>7 DEF Coprocessor!IsSafeToRelease, Coprocessor!IsSafe
    <3>2. m' = [z EXCEPT !.cutOff = FALSE]
      BY <2>1, <2>6, <2>7, <3>1 DEF Coprocessor!PoweredOff
    <3>3. /\ off \in CoprocessorStates(m) /\ off.powerOffTimer = Coprocessor!NoTimer /\ ~off.on
          /\ off.result = m.result /\ off.err = m.err
      BY <1>1, <2>2, <2>5 DEF CoprocessorStates
    <3> HIDE DEF off, c
    <3>4. PowerSound(y) /\ ~y.on /\ y.powerOffTimer = Coprocessor!NoTimer /\ y.result = m.result /\ y.err = m.err
      BY <3>3 DEF PowerSound, CoprocessorStates
    <3> HIDE DEF y
    <3>5. PowerSound(z) /\ z.result = m.result /\ z.err = m.err
      BY <3>4 DEF PowerSound, CoprocessorStates
    <3> HIDE DEF z
    <3> DEFINE w == [z EXCEPT !.cutOff = FALSE]
    <3>6. PowerSound(w) /\ w.result = m.result /\ w.err = m.err
      BY <3>5 DEF PowerSound, CoprocessorStates
    <3>7. m' = w
      BY <3>2
    <3> HIDE DEF w
    <3> QED
      BY <1>1, <3>6, <3>7, Alone
  <2>8. ASSUME NEW w, w \in {[x EXCEPT !.powerOffTimer = 1], [x EXCEPT !.leftOn = TRUE]}
        PROVE  PowerSound(w) /\ w.result = m.result /\ w.err = m.err
    <3>1. CASE w = [x EXCEPT !.powerOffTimer = 1]
      BY <2>2, <2>5, <3>1 DEF PowerSound, CoprocessorStates
    <3>2. CASE w = [x EXCEPT !.leftOn = TRUE]
      BY <2>2, <2>5, <3>2 DEF PowerSound, CoprocessorStates
    <3> QED
      BY <2>8, <3>1, <3>2
  <2>9. CASE m' \in {[v EXCEPT !.powerOffTimer = 1], [v EXCEPT !.leftOn = TRUE]}
    BY <1>1, <2>6, <2>8, <2>9, Alone
  <2> QED
    BY <2>1, <2>7, <2>9
<1>3. CASE Coprocessor!Tick
  <2> DEFINE t == IF m.powerOffTimer > 0 THEN m.powerOffTimer - 1 ELSE m.powerOffTimer
             n == IF m.on /\ m.counter > 0 THEN m.counter - 1 ELSE m.counter
             x == [m EXCEPT !.powerOffTimer = t]
             y == [x EXCEPT !.counter = n]
  <2>1. m.powerOffTimer \in PowerOffTimers /\ m.counter \in Counts
    BY <1>1 DEF CoprocessorStates
  <2>2. /\ t \in PowerOffTimers /\ n \in Counts
        /\ t = Coprocessor!NoTimer <=> m.powerOffTimer = Coprocessor!NoTimer
    BY <2>1 DEF PowerOffTimers, Counts, Coprocessor!NoTimer, Coprocessor!MFiHWAuthAssumption
  <2>3. m' = [m EXCEPT !.powerOffTimer = t, !.counter = n]
    BY <1>3 DEF Coprocessor!Tick
  <2>4. m' = y
    BY <2>3
  <2> HIDE DEF t, n
  <2>5. PowerSound(x) /\ x.result = m.result /\ x.err = m.err
    BY <1>1, <2>2 DEF PowerSound, CoprocessorStates
  <2> HIDE DEF x
  <2>6. PowerSound(y) /\ y.result = m.result /\ y.err = m.err
    BY <2>2, <2>5 DEF PowerSound, CoprocessorStates
  <2> HIDE DEF y
  <2> QED
    BY <1>1, <2>4, <2>6, Alone
<1> QED
  BY <1>2, <1>3

\* The server takes over the coprocessor and gives it back.
LEMMA ReleaseKept ==
  ASSUME CoprocessorInv, Coprocessor!Release \/ Coprocessor!Create
  PROVE  CoprocessorInv'
<1> DEFINE b == Coprocessor!Begin
           r == [b EXCEPT !.created = FALSE, !.powerOffTimer = Coprocessor!NoTimer, !.leftOn = m.on]
           c == [b EXCEPT !.created = TRUE]
<1>1. PowerSound(b) /\ b.result = <<>> /\ b.on = m.on /\ b \in CoprocessorStates(b)
  BY Begun DEF PowerSound
<1>2. m' = r \/ m' = c
  BY DEF Coprocessor!Release, Coprocessor!Create
<1> HIDE DEF b
<1>3. PowerSound(c) /\ c.result = <<>>
  BY <1>1 DEF PowerSound, CoprocessorStates
<1>4. PowerSound(r) /\ r.result = <<>>
  <2> DEFINE x == [b EXCEPT !.created = FALSE]
             y == [x EXCEPT !.powerOffTimer = Coprocessor!NoTimer]
             z == [y EXCEPT !.leftOn = y.on]
  <2>1. Coprocessor!NoTimer \in PowerOffTimers
    BY DEF PowerOffTimers, Coprocessor!NoTimer
  <2>2. PowerSound(x) /\ x.result = <<>> /\ x.on = m.on
    BY <1>1 DEF PowerSound, CoprocessorStates
  <2>3. r = [x EXCEPT !.powerOffTimer = Coprocessor!NoTimer, !.leftOn = m.on]
    OBVIOUS
  <2> HIDE DEF x, r
  <2>4. y \in CoprocessorStates(y) /\ y.result = <<>> /\ y.on = m.on /\ y.powerOffTimer = Coprocessor!NoTimer
    BY <2>1, <2>2 DEF PowerSound, CoprocessorStates
  <2>5. r = z
    BY <2>3, <2>4
  <2> HIDE DEF y
  <2>6. PowerSound(z) /\ z.result = <<>>
    BY <2>4 DEF PowerSound, CoprocessorStates
  <2> QED
    BY <2>5, <2>6
<1> HIDE DEF r, c
<1>5. PowerSound(m') /\ m'.result = <<>>
  <2>1. CASE m' = r
    BY <1>4, <2>1
  <2>2. CASE m' = c
    BY <1>3, <2>2
  <2> QED
    BY <1>2, <2>1, <2>2
<1> QED
  BY <1>5 DEF CoprocessorInv, PowerSound, SignatureSound, CoprocessorStates

LEMMA CoprocessorIsSound ==
  ASSUME Coprocessor!MFiHWAuthAssumption
  PROVE  Coprocessor!Init /\ [][Coprocessor!Next]_m => []CoprocessorInv
<1>1. Coprocessor!Init => CoprocessorInv
  BY DEF Coprocessor!Init, CoprocessorInv, PowerSound, SignatureSound, CoprocessorStates, PowerOffTimers, Counts,
         Statuses, Coprocessor!NoTimer, Coprocessor!NoChallenge, Coprocessor!MFiHWAuthAssumption
<1>2. CoprocessorInv /\ [Coprocessor!Next]_m => CoprocessorInv'
  BY AvailableKept, CertificateKept, SignatureKept, PowerKept, ReleaseKept
     DEF Coprocessor!Next, CoprocessorInv, PowerSound, SignatureSound, CoprocessorStates
<1> QED
  BY <1>1, <1>2, PTL

\* The coprocessor keeps its power until its event counter has run down, is switched off by a
\* timer, and a signature is of the challenge it was asked for, for any values of the constants
\* and whatever access of a register fails (HAPMFiHWAuth.c).
THEOREM CoprocessorIsServed ==
  ASSUME Coprocessor!MFiHWAuthAssumption
  PROVE  Coprocessor!Init /\ [][Coprocessor!Next]_m => []CoprocessorServed
<1>1. CoprocessorInv => CoprocessorServed
  BY DEF CoprocessorInv, PowerSound, SignatureSound, CoprocessorStates, CoprocessorServed, Coprocessor!CoprocessorServed
<1> QED
  BY <1>1, CoprocessorIsSound, PTL

-----------------------------------------------------------------------------
(* The run loop, for any number of handles, timers, descriptors and        *)
(* streams. The two lists are independent: HandlesInv is about the handles *)
(* and the pass over them, TimersInv about the timers. Both rest on what   *)
(* removing from a list, and inserting into it, does to positions.         *)
(* StreamsInv is about the owners of the handles.                          *)

USE RunLoopAssumption

(* Lists. *)

Injective(seq) == \A i, j \in DOMAIN seq : seq[i] = seq[j] => i = j

\* Removing position k moves what comes later by one.
LEMMA WithoutIsSeq ==
  ASSUME NEW S, NEW seq \in Seq(S), NEW k \in DOMAIN seq
  PROVE  /\ Without(seq, k) \in Seq(S)
         /\ Len(Without(seq, k)) = Len(seq) - 1
         /\ \A i \in 1..(Len(seq) - 1) :
              Without(seq, k)[i] = IF i < k THEN seq[i] ELSE seq[i + 1]
BY DEF Without

\* Inserting at position k moves what was there, and what comes later, by one.
LEMMA InsertedIsSeq ==
  ASSUME NEW S, NEW seq \in Seq(S), NEW k \in 1..(Len(seq) + 1), NEW e \in S
  PROVE  /\ InsertedAt(seq, k, e) \in Seq(S)
         /\ Len(InsertedAt(seq, k, e)) = Len(seq) + 1
         /\ \A i \in 1..(Len(seq) + 1) :
              InsertedAt(seq, k, e)[i] = IF i < k THEN seq[i] ELSE IF i = k THEN e ELSE seq[i - 1]
BY DEF InsertedAt

\* In a list without duplicates every element has one position.
LEMMA PositionIs ==
  ASSUME NEW seq, Injective(seq), NEW i \in DOMAIN seq
  PROVE  Position(seq, seq[i]) = i
BY DEF Position, Injective

\* What is in a list is at its position.
LEMMA PositionOf ==
  ASSUME NEW seq, NEW e \in Elements(seq)
  PROVE  /\ Position(seq, e) \in DOMAIN seq
         /\ seq[Position(seq, e)] = e
BY DEF Position, Elements

\* The elements left after a removal from a list without duplicates.
LEMMA WithoutElements ==
  ASSUME NEW S, NEW seq \in Seq(S), Injective(seq), NEW k \in DOMAIN seq
  PROVE  /\ Injective(Without(seq, k))
         /\ Elements(Without(seq, k)) = Elements(seq) \ {seq[k]}
<1> DEFINE w == Without(seq, k)
<1>1. /\ w \in Seq(S)
      /\ Len(w) = Len(seq) - 1
      /\ \A i \in 1..(Len(seq) - 1) : w[i] = IF i < k THEN seq[i] ELSE seq[i + 1]
  BY WithoutIsSeq
<1>2. Injective(w)
  BY <1>1, SMTT(60) DEF Injective
<1>3. ASSUME NEW e \in Elements(w)  PROVE  e \in Elements(seq) \ {seq[k]}
  BY <1>1 DEF Injective, Elements
<1>4. ASSUME NEW e \in Elements(seq) \ {seq[k]}  PROVE  e \in Elements(w)
  <2>1. PICK i \in DOMAIN seq : seq[i] = e
    BY DEF Elements
  <2>2. CASE i < k
    BY <1>1, <2>1, <2>2 DEF Elements
  <2>3. CASE i > k
    <3>1. i - 1 \in DOMAIN w /\ w[i - 1] = seq[i]
      BY <1>1, <2>3
    <3> QED BY <2>1, <3>1 DEF Elements
  <2> QED BY <2>1, <2>2, <2>3, <1>4
<1> QED BY <1>2, <1>3, <1>4

-----------------------------------------------------------------------------
(* Timers. *)

\* Deadline 0 is stored as 1.
TimerRecord ==
  {r \in [timer : Timers, deadline : Nat \ {0}, asked : Nat] :
     r.deadline = IF r.asked = 0 THEN 1 ELSE r.asked}

TimersType ==
  /\ timers \in Seq(TimerRecord)
  /\ \A i, j \in DOMAIN timers : timers[i].timer = timers[j].timer => i = j
  /\ earlier \subseteq Timers \X Timers

TimersSorted ==
  \A i, j \in DOMAIN timers : i < j => timers[i].deadline <= timers[j].deadline

\* The list is in the order in which the timers fire.
InFiringOrder ==
  \A i, j \in DOMAIN timers : i < j => FiresBefore(timers[i], timers[j])

TimersInv == TimersType /\ TimersSorted

\* A sequence over a set is one over a larger set.
LEMMA SeqOfMore ==
  ASSUME NEW A, NEW B, A \subseteq B, NEW seq \in Seq(A)
  PROVE  seq \in Seq(B)
OBVIOUS

\* The types of the list of timers and of its elements.
LEMMA TimerTypes ==
  ASSUME TimersInv
  PROVE  /\ timers \in Seq([timer : Timers, deadline : Nat, asked : Nat])
         /\ \A i \in DOMAIN timers :
              /\ timers[i].timer \in Timers /\ timers[i].deadline \in Nat \ {0}
              /\ timers[i].asked \in Nat
              /\ timers[i].deadline = IF timers[i].asked = 0 THEN 1 ELSE timers[i].asked
         /\ Registered \subseteq Timers
<1> DEFINE T == TimerRecord
           U == [timer : Timers, deadline : Nat, asked : Nat]
<1>1. timers \in Seq(T) /\ T \subseteq U
  BY DEF TimersInv, TimersType, TimerRecord
<1>2. \A x \in T : /\ x.timer \in Timers /\ x.deadline \in Nat \ {0}
                   /\ x.asked \in Nat
                   /\ x.deadline = IF x.asked = 0 THEN 1 ELSE x.asked
  BY DEF TimerRecord
<1> HIDE DEF T, U
<1>3. \A i \in DOMAIN timers : timers[i] \in T
  BY <1>1
<1>4. timers \in Seq(U)
  BY <1>1, SeqOfMore
<1> QED BY <1>2, <1>3, <1>4 DEF Registered, U

\* Removing a timer preserves the list.
LEMMA TimerRemoved ==
  ASSUME TimersInv, NEW k \in DOMAIN timers,
         timers' = Without(timers, k), earlier' = Forget(timers[k].timer)
  PROVE  /\ TimersInv'
         /\ InFiringOrder => InFiringOrder'
<1> DEFINE T == TimerRecord
<1>0. timers \in Seq(T)
  BY DEF TimersInv, TimersType
<1> HIDE DEF T
<1>1. /\ timers' \in Seq(T)
      /\ Len(timers') = Len(timers) - 1
      /\ \A i \in 1..(Len(timers) - 1) : timers'[i] = IF i < k THEN timers[i] ELSE timers[i + 1]
  BY <1>0, WithoutIsSeq
<1> DEFINE Old(i) == IF i < k THEN i ELSE i + 1
<1>2. \A i \in DOMAIN timers' :
        /\ Old(i) \in DOMAIN timers /\ Old(i) # k
        /\ timers'[i] = timers[Old(i)]
  BY <1>0, <1>1
<1>3. \A i, j \in DOMAIN timers' : (i < j => Old(i) < Old(j)) /\ (Old(i) = Old(j) => i = j)
  BY <1>0, <1>1
<1> HIDE DEF Old
<1>4. \A i \in DOMAIN timers' : timers'[i].timer # timers[k].timer
  BY <1>2 DEF TimersInv, TimersType
<1>5. TimersType'
  BY <1>1, <1>2, <1>3, SMTT(60) DEF TimersInv, TimersType, Forget, T
<1>6. TimersSorted'
  BY <1>2, <1>3 DEF TimersInv, TimersSorted
<1>7. ASSUME InFiringOrder, NEW i \in DOMAIN timers', NEW j \in DOMAIN timers', i < j
      PROVE  FiresBefore(timers[i], timers[j])'
  <2>1. FiresBefore(timers[Old(i)], timers[Old(j)])
    BY <1>2, <1>3, <1>7 DEF InFiringOrder
  <2>2. \A p \in earlier : p[1] # timers[k].timer /\ p[2] # timers[k].timer => p \in earlier'
    BY DEF Forget
  <2>3. /\ timers'[i] = timers[Old(i)] /\ timers'[j] = timers[Old(j)]
        /\ timers[Old(i)].timer # timers[k].timer /\ timers[Old(j)].timer # timers[k].timer
    BY <1>2, <1>4
  <2> QED BY <2>1, <2>2, <2>3 DEF FiresBefore
<1> QED BY <1>5, <1>6, <1>7 DEF TimersInv, InFiringOrder

\* Registering a timer preserves the list.
LEMMA TimerRegistered ==
  ASSUME TimersInv, NEW t \in Timers, NEW d \in Deadlines, TimerRegister(t, d)
  PROVE  /\ TimersInv'
         /\ InFiringOrder => InFiringOrder'
<1> DEFINE T == TimerRecord
           e == [timer |-> t, deadline |-> IF d = 0 THEN 1 ELSE d, asked |-> d]
<1>1. e \in T /\ d \in Nat
  BY DEF TimerRecord
<1>2. PICK k \in 1..(Len(timers) + 1) : IsSlot(k, d) /\ timers' = InsertedAt(timers, k, e)
  BY DEF TimerRegister
<1>3. timers \in Seq(T)
  BY DEF TimersInv, TimersType
<1> HIDE DEF e, T
<1>4. /\ timers' \in Seq(T)
      /\ Len(timers') = Len(timers) + 1
      /\ \A i \in 1..(Len(timers) + 1) :
           timers'[i] = IF i < k THEN timers[i] ELSE IF i = k THEN e ELSE timers[i - 1]
  <2>1. k \in 1..(Len(timers) + 1)
    BY <1>2
  <2>2. /\ InsertedAt(timers, k, e) \in Seq(T)
        /\ Len(InsertedAt(timers, k, e)) = Len(timers) + 1
        /\ \A i \in 1..(Len(timers) + 1) : InsertedAt(timers, k, e)[i] =
             IF i < k THEN timers[i] ELSE IF i = k THEN e ELSE timers[i - 1]
    BY <1>1, <1>3, <2>1, InsertedIsSeq
  <2> QED BY <1>2, <2>2
<1> DEFINE Old(i) == IF i < k THEN i ELSE i - 1
<1>5. \A i \in DOMAIN timers' \ {k} :
        /\ Old(i) \in DOMAIN timers
        /\ timers'[i] = timers[Old(i)]
        /\ i < k => Old(i) < k
        /\ i > k => Old(i) >= k
  BY <1>3, <1>4
<1>6. \A i, j \in DOMAIN timers' \ {k} : (i < j => Old(i) < Old(j)) /\ (Old(i) = Old(j) => i = j)
  BY <1>3, <1>4
<1>7. timers'[k] = e /\ k \in DOMAIN timers'
  BY <1>3, <1>4
<1> HIDE DEF Old
<1>8. \A i \in DOMAIN timers : timers[i].timer # t
  BY DEF TimerRegister, Registered
<1>9. e.timer = t /\ e.deadline = (IF d = 0 THEN 1 ELSE d) /\ e.asked = d
  BY DEF e
<1>10. earlier' = earlier \cup {<<u, t>> : u \in Registered}
  BY DEF TimerRegister
<1>11. /\ \A i \in DOMAIN timers : timers[i].timer \in Timers /\ timers[i].deadline \in Nat
       /\ \A i \in DOMAIN timers' :
            /\ timers'[i].timer \in Timers /\ timers'[i].deadline \in Nat \ {0}
            /\ timers'[i].asked \in Nat
            /\ timers'[i].deadline = IF timers'[i].asked = 0 THEN 1 ELSE timers'[i].asked
  <2>1. /\ \A i \in DOMAIN timers : timers[i] \in T
        /\ \A i \in DOMAIN timers' : timers'[i] \in T
    BY <1>3, <1>4
  <2> QED BY <2>1 DEF T, TimerRecord
<1>12. \A i \in DOMAIN timers' : /\ i < k => timers'[i].deadline <= d
                                 /\ i > k => timers'[i].deadline > d
  <2> TAKE i \in DOMAIN timers'
  <2>1. CASE i < k
    <3>1. timers'[i] = timers[i] /\ i \in 1..(k - 1)
      BY <1>3, <1>4, <2>1
    <3> QED BY <2>1, <3>1, <1>2 DEF IsSlot
  <2>2. CASE i > k
    <3>1. Old(i) \in DOMAIN timers /\ Old(i) >= k /\ timers'[i] = timers[Old(i)]
      BY <1>5, <2>2
    <3>2. k <= Len(timers) /\ timers[k].deadline > d /\ k \in DOMAIN timers
      BY <1>2, <1>3, <3>1 DEF IsSlot
    <3>4. timers[k].deadline \in Nat /\ timers[Old(i)].deadline \in Nat
      BY <3>1, <3>2, <1>11
    <3>3. timers[k].deadline <= timers[Old(i)].deadline
      <4>1. CASE k = Old(i)
        BY <4>1, <3>4
      <4>2. CASE k < Old(i)
        BY <4>2, <3>1, <3>2 DEF TimersInv, TimersSorted
      <4> QED BY <3>1, <3>2, <4>1, <4>2, <1>3
    <3>5. ~(i < k) /\ timers'[i].deadline > d
      BY <2>2, <3>1, <3>2, <3>3, <3>4, <1>1, <1>4
    <3> QED BY <3>5
  <2> QED BY <2>1, <2>2, <1>3, <1>4
<1>13. TimersType'
  <2>1. earlier' \subseteq Timers \X Timers
    BY <1>10, <1>11 DEF TimersInv, TimersType, Registered
  <2>2. ASSUME NEW i \in DOMAIN timers', NEW j \in DOMAIN timers', timers'[i].timer = timers'[j].timer
        PROVE  i = j
    BY <2>2, <1>5, <1>6, <1>7, <1>8, <1>9 DEF TimersInv, TimersType
  <2> QED BY <1>4, <2>1, <2>2 DEF TimersType, T
<1>14. TimersSorted'
  <2> SUFFICES ASSUME NEW i \in DOMAIN timers', NEW j \in DOMAIN timers', i < j
               PROVE  timers'[i].deadline <= timers'[j].deadline
    BY DEF TimersSorted
  <2>1. CASE i # k /\ j # k
    BY <2>1, <1>5, <1>6 DEF TimersInv, TimersSorted
  <2>2. CASE i = k
    <3>1. timers'[j].deadline > d /\ timers'[j].deadline \in Nat
      BY <2>2, <1>11, <1>12
    <3> QED BY <2>2, <3>1, <1>7, <1>9, <1>1
  <2>3. CASE j = k
    <3>1. timers'[i].deadline <= d
      <4>1. i < k
        BY <2>3
      <4> QED BY <4>1, <1>12
    <3>2. timers'[i].deadline \in Nat
      BY <1>11
    <3> QED BY <2>3, <3>1, <3>2, <1>7, <1>9, <1>1
  <2> QED BY <2>1, <2>2, <2>3
<1>15. ASSUME InFiringOrder  PROVE  InFiringOrder'
  <2> SUFFICES ASSUME NEW i \in DOMAIN timers', NEW j \in DOMAIN timers', i < j
               PROVE  FiresBefore(timers[i], timers[j])'
    BY DEF InFiringOrder
  <2>1. CASE i # k /\ j # k
    <3>1. FiresBefore(timers[Old(i)], timers[Old(j)])
      BY <2>1, <1>5, <1>6, <1>15 DEF InFiringOrder
    <3>2. timers'[i] = timers[Old(i)] /\ timers'[j] = timers[Old(j)]
      BY <2>1, <1>5
    <3> QED BY <3>1, <3>2, <1>10 DEF FiresBefore
  <2>2. CASE i = k
    <3>1. timers'[j].deadline > d
      BY <2>2, <1>12
    <3>2. <<timers'[j].timer, t>> \in earlier'
      <4>1. Old(j) \in DOMAIN timers /\ timers'[j] = timers[Old(j)]
        BY <2>2, <1>5
      <4> QED BY <4>1, <1>10 DEF Registered
    <3>3. /\ timers'[j].asked \in Nat
          /\ timers'[j].deadline = IF timers'[j].asked = 0 THEN 1 ELSE timers'[j].asked
      BY <1>11
    <3>4. d < timers'[j].asked \/ (timers'[j].asked = 0 /\ d = 0)
      BY <3>1, <3>3, <1>1
    <3> QED BY <3>2, <3>4, <2>2, <1>7, <1>9 DEF FiresBefore
  <2>3. CASE j = k
    <3>1. timers'[i].deadline <= d
      BY <2>3, <1>12
    <3>2. <<timers'[i].timer, t>> \in earlier'
      <4>1. Old(i) \in DOMAIN timers /\ timers'[i] = timers[Old(i)]
        BY <2>3, <1>5
      <4> QED BY <4>1, <1>10 DEF Registered
    <3>3. /\ timers'[i].asked \in Nat /\ timers'[i].deadline \in Nat \ {0}
          /\ timers'[i].deadline = IF timers'[i].asked = 0 THEN 1 ELSE timers'[i].asked
      BY <1>11
    <3>4. timers'[i].asked < d \/ (timers'[i].asked = d /\ d > 0)
      BY <3>1, <3>3, <1>1
    <3> QED BY <3>2, <3>3, <3>4, <2>3, <1>7, <1>9 DEF FiresBefore
  <2> QED BY <2>1, <2>2, <2>3
<1> QED BY <1>13, <1>14, <1>15 DEF TimersInv

\* An action that leaves the timers alone.
LEMMA TimersUnchanged ==
  ASSUME UNCHANGED timerVars
  PROVE  /\ TimersInv => TimersInv'
         /\ InFiringOrder => InFiringOrder'
BY DEF timerVars, TimersInv, TimersType, TimersSorted, InFiringOrder, FiresBefore

\* Every step preserves the list of timers.
LEMMA TimersStep ==
  ASSUME TimersInv, [Next]_vars
  PROVE  /\ TimersInv'
         /\ InFiringOrder => InFiringOrder'
<1>1. ASSUME NEW t \in Timers, NEW d \in Deadlines, TimerRegister(t, d)
      PROVE  /\ TimersInv'
             /\ InFiringOrder => InFiringOrder'
  BY <1>1, TimerRegistered
<1>2. ASSUME NEW t \in Timers, TimerDeregister(t)
      PROVE  /\ TimersInv'
             /\ InFiringOrder => InFiringOrder'
  <2>1. PICK k \in DOMAIN timers : timers[k].timer = t /\ timers' = Without(timers, k)
    BY <1>2 DEF TimerDeregister
  <2>2. earlier' = Forget(timers[k].timer)
    BY <1>2, <2>1 DEF TimerDeregister
  <2> QED BY <2>1, <2>2, TimerRemoved
<1>3. ASSUME FireTimer
      PROVE  /\ TimersInv'
             /\ InFiringOrder => InFiringOrder'
  <2>1. 1 \in DOMAIN timers
    BY <1>3 DEF FireTimer, Expired, TimersInv, TimersType
  <2> QED BY <1>3, <2>1, TimerRemoved DEF FireTimer
<1>4. ASSUME UNCHANGED timerVars
      PROVE  /\ TimersInv'
             /\ InFiringOrder => InFiringOrder'
  BY <1>4, TimersUnchanged
<1>5. CASE Calls
  BY <1>1, <1>2, <1>4, <1>5
     DEF Calls, FileHandleRegister, FileHandleUpdateInterests, FileHandleDeregister, RunLoopStop
<1>6. CASE Loop
  BY <1>3, <1>4, <1>6 DEF Loop, Select, TimersDone, VisitHandle, PassDone, Return
<1>7. CASE Run \/ Tick \/ UNCHANGED vars
  BY <1>4, <1>7 DEF Run, Tick, vars
<1> QED BY <1>5, <1>6, <1>7 DEF Next

-----------------------------------------------------------------------------
(* The loop. *)

\* The types of what the loop keeps. The timer whose callback runs has left the list.
LoopInv ==
  /\ state \in {"Idle", "Running", "Stopping"}
  /\ phase \in {"out", "select", "timers", "handles"}
  /\ (state = "Idle") = (phase = "out")
  /\ selected \in [Fds -> SUBSET Events]
  /\ now \in 0..MaxTime /\ passNow \in 0..now
  /\ running \in Handles \cup Timers \cup {None}
  /\ running \notin Registered

-----------------------------------------------------------------------------
(* File handles. *)

HandlesType ==
  /\ handles \in Seq(Handles)
  /\ Injective(handles)
  /\ handle \in [Handles -> [fd : Fds \cup {None}, interests : SUBSET Events, awaiting : BOOLEAN]]
  /\ \A h \in Handles : (h \in Elements(handles)) = (handle[h].fd # None)
  /\ \A g, h \in Elements(handles) : handle[g].fd = handle[h].fd => g = h
  /\ cursor \in Handles \cup {None}
  /\ polled \subseteq Handles

\* isAwaitingEvents is set on handles of the list that select was called with.
AwaitingArePolled ==
  \A h \in Handles : handle[h].awaiting => h \in polled /\ h \in Elements(handles)

HandlesInv == HandlesType /\ CursorIsLive /\ NoneSkipped /\ AwaitingArePolled

\* The successor of a handle is the sentinel or a handle further on.
LEMMA NextIsFurther ==
  ASSUME NEW S, handles \in Seq(S), Injective(handles), NEW h \in Elements(handles)
  PROVE  \/ NextOf(h) = None /\ Position(handles, h) = Len(handles)
         \/ /\ NextOf(h) \in Elements(handles)
            /\ Position(handles, NextOf(h)) = Position(handles, h) + 1
            /\ NextOf(h) = handles[Position(handles, h) + 1]
<1> DEFINE k == Position(handles, h)
<1>1. k \in 1..Len(handles)
  BY PositionOf
<1>2. CASE k = Len(handles)
  BY <1>2 DEF NextOf
<1>3. CASE k # Len(handles)
  <2>1. k + 1 \in DOMAIN handles
    BY <1>1, <1>3
  <2>2. NextOf(h) = handles[k + 1]
    BY <1>3 DEF NextOf
  <2>3. Position(handles, handles[k + 1]) = k + 1
    BY <2>1, PositionIs
  <2> QED BY <2>1, <2>2, <2>3 DEF Elements
<1> QED BY <1>2, <1>3

\* Registering a handle: it is added behind all others, and not awaiting.
LEMMA HandleRegistered ==
  ASSUME HandlesInv, NEW h \in Handles, NEW f \in Fds, NEW i \in SUBSET Events,
         FileHandleRegister(h, f, i)
  PROVE  HandlesInv'
<1> DEFINE n == Len(handles)
<1>1. /\ handles \in Seq(Handles) /\ Injective(handles) /\ h \notin Elements(handles)
      /\ handles' = Append(handles, h)
  BY DEF HandlesInv, HandlesType, FileHandleRegister
<1>2. /\ handles' \in Seq(Handles)
      /\ Len(handles') = n + 1 /\ n \in Nat
      /\ \A j \in 1..n : handles'[j] = handles[j]
      /\ handles'[n + 1] = h
  BY <1>1
<1>3. Injective(handles') /\ Elements(handles') = Elements(handles) \cup {h}
  <2>1. \A j \in 1..n : handles[j] # h
    BY <1>1 DEF Elements
  <2>2. Injective(handles')
    BY <1>1, <1>2, <2>1 DEF Injective
  <2>3. Elements(handles') = Elements(handles) \cup {h}
    <3>1. Elements(handles') \subseteq Elements(handles) \cup {h}
      BY <1>1, <1>2 DEF Elements
    <3>2. Elements(handles) \subseteq Elements(handles')
      BY <1>1, <1>2 DEF Elements
    <3>3. h \in Elements(handles')
      BY <1>1, <1>2 DEF Elements
    <3> QED BY <3>1, <3>2, <3>3
  <2> QED BY <2>2, <2>3
<1>4. /\ cursor' = cursor /\ phase' = phase /\ polled' = polled
      /\ handle' = [handle EXCEPT ![h] = [fd |-> f, interests |-> i, awaiting |-> FALSE]]
      /\ \A g \in Elements(handles) : handle[g].fd # f
  BY DEF FileHandleRegister, loopVars
<1>5. /\ handle' \in [Handles -> [fd : Fds \cup {None}, interests : SUBSET Events, awaiting : BOOLEAN]]
      /\ \A g \in Handles \ {h} : handle'[g] = handle[g]
      /\ handle'[h].fd = f /\ handle'[h].awaiting = FALSE
  BY <1>4 DEF HandlesInv, HandlesType
<1>6. Elements(handles) \subseteq Handles /\ f # None
  BY <1>1 DEF Elements
<1>7. HandlesType'
  BY <1>1, <1>2, <1>3, <1>4, <1>5, <1>6 DEF HandlesInv, HandlesType
<1>8. CursorIsLive'
  BY <1>3, <1>4 DEF HandlesInv, CursorIsLive
<1>9. NoneSkipped'
  <2> SUFFICES ASSUME phase = "handles", NEW j \in DOMAIN handles', handle'[handles'[j]].awaiting
               PROVE  cursor # None /\ Position(handles', cursor) <= j
    BY <1>4 DEF NoneSkipped
  <2>1. j \in 1..n /\ handles'[j] = handles[j] /\ handles[j] # h
    BY <1>1, <1>2, <1>5 DEF Elements
  <2>2. handle[handles[j]].awaiting
    BY <1>5, <1>6, <2>1, <1>1 DEF Elements
  <2>3. cursor # None /\ Position(handles, cursor) <= j
    BY <1>1, <2>1, <2>2 DEF HandlesInv, NoneSkipped
  <2>4. cursor \in Elements(handles)
    BY <2>3 DEF HandlesInv, CursorIsLive
  <2>5. Position(handles, cursor) \in 1..n /\ handles[Position(handles, cursor)] = cursor
    BY <1>1, <2>4, PositionOf
  <2>6. Position(handles', cursor) = Position(handles, cursor)
    <3>1. /\ Position(handles, cursor) \in DOMAIN handles'
          /\ handles'[Position(handles, cursor)] = cursor
      BY <1>2, <2>5
    <3> QED BY <1>3, <3>1, PositionIs
  <2> QED BY <2>3, <2>6
<1>10. AwaitingArePolled'
  BY <1>3, <1>4, <1>5 DEF HandlesInv, AwaitingArePolled
<1> QED BY <1>7, <1>8, <1>9, <1>10 DEF HandlesInv

\* Removing a handle: those behind it move up, and the cursor moves off it.
LEMMA HandleDeregistered ==
  ASSUME HandlesInv, NEW h \in Handles, FileHandleDeregister(h)
  PROVE  HandlesInv'
<1> DEFINE n == Len(handles)
           k == Position(handles, h)
<1>1. /\ handles \in Seq(Handles) /\ Injective(handles) /\ h \in Elements(handles)
      /\ handles' = Without(handles, k)
  BY DEF HandlesInv, HandlesType, FileHandleDeregister
<1>2. k \in 1..n /\ handles[k] = h /\ n \in Nat
  BY <1>1, PositionOf
<1> HIDE DEF k
<1>3. /\ handles' \in Seq(Handles)
      /\ Len(handles') = n - 1
      /\ \A j \in 1..(n - 1) : handles'[j] = IF j < k THEN handles[j] ELSE handles[j + 1]
  BY <1>1, <1>2, WithoutIsSeq
<1>4. Injective(handles') /\ Elements(handles') = Elements(handles) \ {h}
  BY <1>1, <1>2, WithoutElements
<1>5. /\ cursor' = CursorPast(h) /\ phase' = phase /\ polled' = polled \ {h}
      /\ handle' = [handle EXCEPT ![h] = Freed]
  BY DEF FileHandleDeregister, loopVars
<1>6. /\ handle' \in [Handles -> [fd : Fds \cup {None}, interests : SUBSET Events, awaiting : BOOLEAN]]
      /\ \A g \in Handles \ {h} : handle'[g] = handle[g]
      /\ handle'[h].fd = None /\ handle'[h].awaiting = FALSE
  BY <1>5 DEF HandlesInv, HandlesType, Freed
<1>7. Elements(handles) \subseteq Handles
  BY <1>1 DEF Elements
<1>8. \/ cursor' = None /\ (cursor = None \/ (cursor = h /\ k = n))
      \/ /\ cursor # None /\ phase = "handles"
         /\ cursor' \in Elements(handles) \ {h}
         /\ \/ cursor # h /\ cursor' = cursor
            \/ cursor = h /\ Position(handles, cursor') = k + 1
  <2>1. CASE cursor = h
    <3>1. phase = "handles" /\ h # None
      BY <2>1 DEF HandlesInv, CursorIsLive
    <3>2. \/ NextOf(h) = None /\ k = n
          \/ NextOf(h) \in Elements(handles) /\ Position(handles, NextOf(h)) = k + 1
      BY <1>1, NextIsFurther DEF k
    <3>3. Position(handles, NextOf(h)) = k + 1 => NextOf(h) # h
      BY <1>2 DEF k
    <3> QED BY <2>1, <3>1, <3>2, <3>3, <1>5 DEF CursorPast
  <2>2. CASE cursor # h
    BY <2>2, <1>5 DEF CursorPast, HandlesInv, CursorIsLive
  <2> QED BY <2>1, <2>2
<1>9. HandlesType'
  BY <1>3, <1>4, <1>5, <1>6, <1>7, <1>8 DEF HandlesInv, HandlesType
<1>10. CursorIsLive'
  BY <1>4, <1>5, <1>8 DEF CursorIsLive
<1>11. NoneSkipped'
  <2> SUFFICES ASSUME phase = "handles", NEW j \in DOMAIN handles', handle'[handles'[j]].awaiting
               PROVE  cursor' # None /\ Position(handles', cursor') <= j
    BY <1>5 DEF NoneSkipped
  <2> DEFINE o == IF j < k THEN j ELSE j + 1
  <2>1. j \in 1..(n - 1) /\ o \in 1..n /\ o # k /\ handles'[j] = handles[o]
    BY <1>2, <1>3
  <2>2. handles[o] \in Handles \ {h}
    BY <1>1, <1>2, <2>1 DEF Injective
  <2>3. cursor # None /\ Position(handles, cursor) <= o
    BY <1>1, <1>6, <2>1, <2>2 DEF HandlesInv, NoneSkipped
  <2>4. cursor \in Elements(handles)
    BY <2>3 DEF HandlesInv, CursorIsLive
  <2> DEFINE c == Position(handles, cursor)
  <2>5. c \in 1..n /\ handles[c] = cursor
    BY <1>1, <2>4, PositionOf
  <2>6. CASE cursor = h
    <3>1. c = k
      BY <2>6 DEF k
    <3>0. k # n
      BY <1>2, <2>1, <2>3, <2>5, <3>1
    <3>2. cursor' # None /\ Position(handles, cursor') = k + 1 /\ cursor' \in Elements(handles)
      <4>1. None \notin Elements(handles)
        BY <1>7
      <4> QED BY <1>8, <2>3, <2>6, <3>0, <4>1
    <3>3. k + 1 \in 1..n /\ handles[k + 1] = cursor'
      BY <1>1, <3>2, PositionOf
    <3>4. k \in DOMAIN handles' /\ handles'[k] = cursor'
      BY <1>2, <1>3, <3>3
    <3>5. Position(handles', cursor') = k
      BY <1>4, <3>4, PositionIs
    <3> QED BY <1>2, <2>1, <2>3, <3>1, <3>2, <3>5
  <2>7. CASE cursor # h
    <3>1. cursor' = cursor
      BY <1>8, <2>3, <2>7
    <3>2. c # k
      BY <1>2, <2>5, <2>7
    <3> DEFINE p == IF c < k THEN c ELSE c - 1
    <3>3. p \in DOMAIN handles' /\ handles'[p] = cursor
      <4>1. CASE c < k
        <5>1. p = c /\ p \in 1..(n - 1)
          BY <1>2, <2>5, <4>1
        <5> QED BY <1>3, <2>5, <4>1, <5>1
      <4>2. CASE c > k
        <5>1. p = c - 1 /\ p \in 1..(n - 1) /\ ~(p < k) /\ p + 1 = c
          BY <1>2, <2>5, <4>2
        <5> QED BY <1>3, <2>5, <4>2, <5>1
      <4> QED BY <1>2, <2>5, <3>2, <4>1, <4>2
    <3>4. Position(handles', cursor) = p
      BY <1>4, <3>3, PositionIs
    <3>5. p <= j
      BY <1>2, <2>1, <2>3, <2>5, <3>2
    <3> QED BY <2>3, <3>1, <3>4, <3>5
  <2> QED BY <2>6, <2>7
<1>12. AwaitingArePolled'
  BY <1>4, <1>5, <1>6 DEF HandlesInv, AwaitingArePolled
<1> QED BY <1>9, <1>10, <1>11, <1>12 DEF HandlesInv

\* A pass begins at the first handle.
LEMMA PassBegins ==
  ASSUME HandlesInv, TimersDone
  PROVE  HandlesInv'
<1>1. /\ handles' = handles /\ handle' = handle /\ polled' = polled
      /\ phase' = "handles" /\ cursor' = FirstHandle
  BY DEF TimersDone
<1>2. handles \in Seq(Handles) /\ Injective(handles)
  BY DEF HandlesInv, HandlesType
<1>3. CASE handles = <<>>
  BY <1>1, <1>3 DEF FirstHandle, HandlesInv, HandlesType, CursorIsLive, NoneSkipped,
                    AwaitingArePolled, Elements
<1>4. CASE handles # <<>>
  <2>1. 1 \in DOMAIN handles /\ cursor' = handles[1]
    BY <1>1, <1>2, <1>4 DEF FirstHandle
  <2>2. cursor' \in Handles /\ cursor' # None /\ Position(handles, cursor') = 1
    BY <1>2, <2>1, PositionIs
  <2> QED BY <1>1, <1>2, <2>1, <2>2
          DEF HandlesInv, HandlesType, CursorIsLive, NoneSkipped, AwaitingArePolled, Elements
<1> QED BY <1>3, <1>4

\* A visit leaves one more handle behind, which does not wait any more.
LEMMA HandleVisited ==
  ASSUME HandlesInv, VisitHandle
  PROVE  /\ HandlesInv'
         /\ running' # None => running' \in polled
<1>1. /\ handles' = handles /\ polled' = polled /\ phase' = phase /\ phase = "handles"
      /\ cursor' = NextOf(cursor) /\ cursor # None
      /\ handle' = [handle EXCEPT ![cursor].awaiting = FALSE]
      /\ running' = IF Called(cursor) THEN cursor ELSE None
  BY DEF VisitHandle, loopVars
<1>2. handles \in Seq(Handles) /\ Injective(handles) /\ cursor \in Elements(handles) /\ cursor \in Handles
  BY <1>1 DEF HandlesInv, HandlesType, CursorIsLive
<1>3. /\ handle' \in [Handles -> [fd : Fds \cup {None}, interests : SUBSET Events, awaiting : BOOLEAN]]
      /\ \A g \in Handles : handle'[g].fd = handle[g].fd
      /\ \A g \in Handles : handle'[g].awaiting => g # cursor /\ handle[g].awaiting
  <2>1. handle'[cursor] = [handle[cursor] EXCEPT !.awaiting = FALSE]
    BY <1>1, <1>2 DEF HandlesInv, HandlesType
  <2>2. \A g \in Handles \ {cursor} : handle'[g] = handle[g]
    BY <1>1, <1>2 DEF HandlesInv, HandlesType
  <2>3. DOMAIN handle' = Handles /\ handle' = [g \in Handles |-> handle'[g]]
    BY <1>1 DEF HandlesInv, HandlesType
  <2>4. /\ handle'[cursor] \in [fd : Fds \cup {None}, interests : SUBSET Events, awaiting : BOOLEAN]
        /\ handle'[cursor].fd = handle[cursor].fd
        /\ ~handle'[cursor].awaiting
    BY <1>2, <2>1 DEF HandlesInv, HandlesType
  <2> QED BY <2>2, <2>3, <2>4 DEF HandlesInv, HandlesType
<1>4. \/ NextOf(cursor) = None /\ Position(handles, cursor) = Len(handles)
      \/ /\ NextOf(cursor) \in Elements(handles)
         /\ Position(handles, NextOf(cursor)) = Position(handles, cursor) + 1
  BY <1>2, NextIsFurther
<1>5. Elements(handles) \subseteq Handles /\ None \notin Elements(handles)
  BY <1>2 DEF Elements
<1>6. HandlesType'
  BY <1>1, <1>2, <1>3, <1>4, <1>5 DEF HandlesInv, HandlesType
<1>7. CursorIsLive'
  BY <1>1, <1>4 DEF CursorIsLive
<1>8. NoneSkipped'
  <2> SUFFICES ASSUME NEW j \in DOMAIN handles, handle'[handles[j]].awaiting
               PROVE  cursor' # None /\ Position(handles, cursor') <= j
    BY <1>1 DEF NoneSkipped
  <2>1. handles[j] \in Handles /\ handles[j] # cursor /\ handle[handles[j]].awaiting
    BY <1>2, <1>3
  <2>2. Position(handles, cursor) <= j
    BY <1>1, <2>1 DEF HandlesInv, NoneSkipped
  <2>3. Position(handles, cursor) # j /\ Position(handles, cursor) \in 1..Len(handles)
    BY <1>2, <2>1, PositionOf
  <2>4. j \in 1..Len(handles) /\ Len(handles) \in Nat
    BY <1>2
  <2> QED BY <1>1, <1>4, <1>5, <2>2, <2>3, <2>4
<1>9. AwaitingArePolled'
  BY <1>1, <1>3 DEF HandlesInv, AwaitingArePolled
<1>10. ASSUME running' # None  PROVE  running' \in polled
  <2>1. running' = cursor /\ handle[cursor].awaiting
    BY <1>1, <1>10 DEF Called
  <2> QED BY <1>2, <2>1 DEF HandlesInv, AwaitingArePolled
<1> QED BY <1>6, <1>7, <1>8, <1>9, <1>10 DEF HandlesInv

\* select is called with all handles.
LEMMA HandlesSelected ==
  ASSUME HandlesInv, Select
  PROVE  HandlesInv'
<1>1. /\ handles' = handles /\ polled' = Elements(handles) /\ cursor' = cursor
      /\ phase = "select" /\ phase' = "timers"
      /\ handle' = [h \in Handles |->
                      IF h \in Elements(handles)
                      THEN [handle[h] EXCEPT !.awaiting = (handle[h].interests # {})]
                      ELSE handle[h]]
  BY DEF Select, AfterSelect
<1>2. /\ handle' \in [Handles -> [fd : Fds \cup {None}, interests : SUBSET Events, awaiting : BOOLEAN]]
      /\ \A h \in Handles : handle'[h].fd = handle[h].fd
      /\ \A h \in Handles \ Elements(handles) : handle'[h] = handle[h]
  BY <1>1, ZenonT(60) DEF HandlesInv, HandlesType
<1>3. Elements(handles) \subseteq Handles
  BY DEF HandlesInv, HandlesType, Elements
<1>4. HandlesType'
  BY <1>1, <1>2, <1>3 DEF HandlesInv, HandlesType
<1>5. CursorIsLive' /\ NoneSkipped'
  BY <1>1 DEF HandlesInv, CursorIsLive, NoneSkipped
<1>6. AwaitingArePolled'
  BY <1>1, <1>2 DEF HandlesInv, AwaitingArePolled
<1> QED BY <1>4, <1>5, <1>6 DEF HandlesInv

\* The interests of a handle do not matter to the pass.
LEMMA InterestsUpdated ==
  ASSUME HandlesInv, NEW h \in Handles, NEW i \in SUBSET Events,
         FileHandleUpdateInterests(h, i)
  PROVE  HandlesInv'
<1>1. /\ handles' = handles /\ polled' = polled /\ cursor' = cursor /\ phase' = phase
      /\ handle' = [handle EXCEPT ![h].interests = i]
  BY DEF FileHandleUpdateInterests, loopVars
<1>2. /\ handle' \in [Handles -> [fd : Fds \cup {None}, interests : SUBSET Events, awaiting : BOOLEAN]]
      /\ \A g \in Handles : handle'[g].fd = handle[g].fd /\ handle'[g].awaiting = handle[g].awaiting
  <2>1. handle'[h] = [handle[h] EXCEPT !.interests = i]
    BY <1>1 DEF HandlesInv, HandlesType
  <2>2. \A g \in Handles \ {h} : handle'[g] = handle[g]
    BY <1>1 DEF HandlesInv, HandlesType
  <2>3. DOMAIN handle' = Handles /\ handle' = [g \in Handles |-> handle'[g]]
    BY <1>1 DEF HandlesInv, HandlesType
  <2> QED BY <2>1, <2>2, <2>3, SMTT(60) DEF HandlesInv, HandlesType
<1>3. Elements(handles) \subseteq Handles
  BY DEF HandlesInv, HandlesType, Elements
<1>4. HandlesType'
  BY <1>1, <1>2, <1>3 DEF HandlesInv, HandlesType
<1>5. CursorIsLive' /\ AwaitingArePolled'
  BY <1>1, <1>2 DEF HandlesInv, CursorIsLive, AwaitingArePolled
<1>6. NoneSkipped'
  BY <1>1, <1>2 DEF HandlesInv, HandlesType, NoneSkipped
<1> QED BY <1>4, <1>5, <1>6 DEF HandlesInv

\* An action that leaves the handles alone, and comes to the pass over them, or
\* leaves it, only at its end.
LEMMA HandlesUnchanged ==
  ASSUME HandlesInv, UNCHANGED handleVars,
         phase' = phase \/ (phase' # "handles" /\ cursor = None)
  PROVE  HandlesInv'
BY DEF handleVars, HandlesInv, HandlesType, CursorIsLive, NoneSkipped, AwaitingArePolled

\* Every step preserves the list of handles and what the pass relies on.
LEMMA HandlesStep ==
  ASSUME HandlesInv, LoopInv, [Next]_vars
  PROVE  HandlesInv'
<1>1. CASE Calls
  <2>1. ASSUME NEW h \in Handles, NEW f \in Fds, NEW i \in SUBSET Events, FileHandleRegister(h, f, i)
        PROVE  HandlesInv'
    BY <2>1, HandleRegistered
  <2>2. ASSUME NEW h \in Handles, NEW i \in SUBSET Events, FileHandleUpdateInterests(h, i)
        PROVE  HandlesInv'
    BY <2>2, InterestsUpdated
  <2>3. ASSUME NEW h \in Handles, FileHandleDeregister(h)
        PROVE  HandlesInv'
    BY <2>3, HandleDeregistered
  <2>4. ASSUME UNCHANGED handleVars, phase' = phase
        PROVE  HandlesInv'
    BY <2>4, HandlesUnchanged
  <2> QED BY <1>1, <2>1, <2>2, <2>3, <2>4
          DEF Calls, TimerRegister, TimerDeregister, RunLoopStop, loopVars
<1>2. CASE Run
  <2>1. phase = "out" /\ cursor = None
    BY <1>2 DEF Run, LoopInv, HandlesInv, CursorIsLive
  <2> QED BY <1>2, <2>1, HandlesUnchanged DEF Run
<1>3. CASE Select
  BY <1>3, HandlesSelected
<1>4. CASE TimersDone
  BY <1>4, PassBegins
<1>5. CASE VisitHandle
  BY <1>5, HandleVisited
<1>6. CASE PassDone
  BY <1>6, HandlesUnchanged DEF PassDone
<1>7. CASE FireTimer \/ Return \/ Tick \/ UNCHANGED vars
  BY <1>7, HandlesUnchanged DEF FireTimer, Return, Tick, vars, loopVars
<1> QED BY <1>1, <1>2, <1>3, <1>4, <1>5, <1>6, <1>7 DEF Next, Loop

-----------------------------------------------------------------------------
(* The loop, and the theorems. *)

\* What removing a timer leaves.
LEMMA RegisteredAfterRemoval ==
  ASSUME TimersInv, NEW k \in DOMAIN timers, timers' = Without(timers, k)
  PROVE  Registered' \subseteq Registered \ {timers[k].timer}
<1> DEFINE T == TimerRecord
<1>1. timers \in Seq(T)
  BY DEF TimersInv, TimersType
<1> HIDE DEF T
<1>2. /\ timers' \in Seq(T) /\ Len(timers') = Len(timers) - 1
      /\ \A i \in 1..(Len(timers) - 1) : timers'[i] = IF i < k THEN timers[i] ELSE timers[i + 1]
  BY <1>1, WithoutIsSeq
<1>3. ASSUME NEW i \in DOMAIN timers'
      PROVE  \E j \in DOMAIN timers : j # k /\ timers'[i] = timers[j]
  BY <1>1, <1>2, SMTT(60)
<1> QED BY <1>3 DEF Registered, TimersInv, TimersType

\* What registering a timer adds.
LEMMA RegisteredAfterInsertion ==
  ASSUME TimersInv, NEW t \in Timers, NEW d \in Deadlines, TimerRegister(t, d)
  PROVE  Registered' \subseteq Registered \cup {t}
<1> DEFINE T == TimerRecord
           e == [timer |-> t, deadline |-> IF d = 0 THEN 1 ELSE d, asked |-> d]
<1>1. timers \in Seq(T) /\ e \in T /\ e.timer = t
  <2>1. d \in Nat
    OBVIOUS
  <2> QED BY <2>1 DEF TimersInv, TimersType, TimerRecord
<1>2. PICK k \in 1..(Len(timers) + 1) : timers' = InsertedAt(timers, k, e)
  BY DEF TimerRegister
<1> HIDE DEF T, e
<1>3. /\ Len(timers') = Len(timers) + 1 /\ timers' \in Seq(T)
      /\ \A i \in 1..(Len(timers) + 1) :
           timers'[i] = IF i < k THEN timers[i] ELSE IF i = k THEN e ELSE timers[i - 1]
  <2>1. /\ InsertedAt(timers, k, e) \in Seq(T)
        /\ Len(InsertedAt(timers, k, e)) = Len(timers) + 1
        /\ \A i \in 1..(Len(timers) + 1) : InsertedAt(timers, k, e)[i] =
             IF i < k THEN timers[i] ELSE IF i = k THEN e ELSE timers[i - 1]
    BY <1>1, <1>2, InsertedIsSeq
  <2> QED BY <1>2, <2>1
<1>4. ASSUME NEW i \in DOMAIN timers'
      PROVE  timers'[i] = e \/ \E j \in DOMAIN timers : timers'[i] = timers[j]
  BY <1>1, <1>3, SMTT(60)
<1> QED BY <1>1, <1>4 DEF Registered

\* Every step keeps the types of the loop, and a timer that is called is out of the
\* list.
LEMMA LoopStep ==
  ASSUME LoopInv, TimersInv, HandlesInv, [Next]_vars
  PROVE  LoopInv'
<1>0. Registered \subseteq Timers
  BY TimerTypes
<1>1. ASSUME NEW t \in Timers, NEW d \in Deadlines, TimerRegister(t, d)  PROVE  LoopInv'
  <2>1. Registered' \subseteq Registered \cup {t} /\ running # t
    BY <1>1, RegisteredAfterInsertion DEF TimerRegister
  <2> QED BY <1>1, <2>1 DEF TimerRegister, LoopInv, loopVars
<1>2. ASSUME NEW t \in Timers, TimerDeregister(t)  PROVE  LoopInv'
  <2>1. PICK k \in DOMAIN timers : timers' = Without(timers, k)
    BY <1>2 DEF TimerDeregister
  <2>2. Registered' \subseteq Registered
    BY <2>1, RegisteredAfterRemoval
  <2> QED BY <1>2, <2>2 DEF TimerDeregister, LoopInv, loopVars
<1>3. CASE FireTimer
  <2>1. 1 \in DOMAIN timers
    BY <1>3 DEF FireTimer, Expired, TimersInv, TimersType
  <2>2. Registered' \subseteq Registered \ {timers[1].timer}
    BY <1>3, <2>1, RegisteredAfterRemoval DEF FireTimer
  <2>3. timers[1].timer \in Registered
    BY <2>1 DEF Registered
  <2> QED BY <1>0, <1>3, <2>2, <2>3 DEF FireTimer, LoopInv, loopVars
<1>4. CASE VisitHandle
  <2>1. cursor \in Handles
    BY <1>4 DEF VisitHandle, HandlesInv, HandlesType
  <2>2. Registered' = Registered /\ running' \in {cursor, None}
    BY <1>4 DEF VisitHandle, timerVars, Registered
  <2>3. running' \notin Registered
    BY <1>0, <2>1, <2>2
  <2> QED BY <1>4, <2>1, <2>2, <2>3 DEF VisitHandle, LoopInv, loopVars
<1>5. CASE Select
  BY <1>5 DEF Select, AfterSelect, LoopInv, timerVars, Registered
<1>6. ASSUME UNCHANGED <<timers, running, selected, passNow, now>>,
             state' \in {"Idle", "Running", "Stopping"},
             phase' \in {"out", "select", "timers", "handles"},
             (state' = "Idle") = (phase' = "out")
      PROVE  LoopInv'
  BY <1>6 DEF LoopInv, Registered
<1>7. CASE Calls
  BY <1>1, <1>2, <1>6, <1>7
     DEF Calls, FileHandleRegister, FileHandleUpdateInterests, FileHandleDeregister, RunLoopStop,
         loopVars, timerVars, LoopInv
<1>8. CASE Run \/ TimersDone \/ PassDone \/ UNCHANGED vars
  BY <1>6, <1>8 DEF Run, TimersDone, PassDone, vars, loopVars, timerVars, LoopInv
<1>9. CASE Return
  BY <1>0, <1>9 DEF Return, LoopInv, loopVars, timerVars, Registered
<1>10. CASE Tick
  BY <1>10 DEF Tick, LoopInv, loopVars, timerVars, Registered
<1> QED BY <1>3, <1>4, <1>5, <1>7, <1>8, <1>9, <1>10 DEF Next, Loop

\* The inductive invariant.
IInv == LoopInv /\ TimersInv /\ HandlesInv

LEMMA InitIInv ==
  ASSUME Init
  PROVE  IInv /\ InFiringOrder
<1>1. LoopInv
  BY DEF Init, LoopInv, Registered
<1>2. TimersInv /\ InFiringOrder
  BY DEF Init, TimersInv, TimersType, TimersSorted, InFiringOrder
<1>3. HandlesInv
  BY DEF Init, HandlesInv, HandlesType, Injective, Elements, Freed, CursorIsLive, NoneSkipped,
         AwaitingArePolled
<1> QED BY <1>1, <1>2, <1>3 DEF IInv

\* The lists and the pass over them stay consistent whatever the callbacks register
\* and deregister.
THEOREM Invariance == Spec => []IInv
<1>1. Init => IInv
  BY InitIInv
<1>2. IInv /\ [Next]_vars => IInv'
  BY LoopStep, TimersStep, HandlesStep DEF IInv
<1> QED BY <1>1, <1>2, PTL DEF Spec

\* Types, and the uniqueness of addresses and descriptors.
THEOREM TypeCorrect == Spec => []TypeOK
<1>1. IInv => TypeOK
  <2> SUFFICES ASSUME IInv  PROVE  TypeOK
    OBVIOUS
  <2>1. timers \in Seq([timer : Timers, deadline : Nat, asked : Nat])
    BY TimerTypes DEF IInv
  <2> QED BY <2>1 DEF IInv, LoopInv, TimersInv, TimersType, HandlesInv, HandlesType, Injective, TypeOK
<1> QED BY <1>1, Invariance, PTL

\* The cursor of the pass never points to a freed handle.
THEOREM CursorCorrect == Spec => []CursorIsLive
<1>1. IInv => CursorIsLive
  BY DEF IInv, HandlesInv
<1> QED BY <1>1, Invariance, PTL

\* No handle is passed over.
THEOREM NoHandleIsSkipped == Spec => []NoneSkipped
<1>1. IInv => NoneSkipped
  BY DEF IInv, HandlesInv
<1> QED BY <1>1, Invariance, PTL

\* The pass of ProcessSelectedFileHandles survives its callbacks and passes no handle over.
THEOREM SoundPass == Spec => []PassIsSound
BY CursorCorrect, NoHandleIsSkipped, PTL DEF PassIsSound

\* A callback is called only for what was selected for its registration.
THEOREM NoStaleCalls == Spec => CalledWasPolled
<1>1. ASSUME IInv, [Next]_vars, NEW h \in Handles, running' = h, running # h
      PROVE  h \in polled
  <2>1. CASE VisitHandle
    BY <1>1, <2>1, HandleVisited DEF IInv
  <2>2. CASE FireTimer
    <3>1. 1 \in DOMAIN timers
      BY <1>1, <2>2 DEF IInv, FireTimer, Expired, TimersInv, TimersType
    <3>2. h \in Timers
      BY <1>1, <2>2, <3>1, TimerTypes DEF FireTimer, IInv
    <3> QED BY <3>2
  <2>3. CASE running' = running \/ running' = None
    BY <1>1, <2>3
  <2> QED BY <1>1, <2>1, <2>2, <2>3
          DEF Next, Loop, Calls, Run, Tick, Select, TimersDone, PassDone, Return, vars,
              FileHandleRegister, FileHandleUpdateInterests, FileHandleDeregister,
              TimerRegister, TimerDeregister, RunLoopStop
<1>2. IInv /\ [Next]_vars => [\A h \in Handles : running' = h /\ running # h => h \in polled]_vars
  BY <1>1
<1> QED BY <1>2, Invariance, PTL DEF Spec, CalledWasPolled

\* Timers never fire early, and they fire in ascending order of the deadlines they were
\* registered with; those of the same deadline in the order of registration, and those of
\* deadline 0 in the reverse order (HAPPlatformTimerRegister, ProcessExpiredTimers).
THEOREM TimersAreOrdered == Spec => TimersFireInOrder
<1>1. Init => IInv /\ InFiringOrder
  BY InitIInv
<1>2. IInv /\ InFiringOrder /\ [Next]_vars => IInv' /\ InFiringOrder'
  BY LoopStep, TimersStep, HandlesStep DEF IInv
<1> DEFINE FiresNext(k) ==
      running' = timers[k].timer =>
        /\ timers[k].deadline <= now
        /\ \A j \in DOMAIN timers \ {k} : FiresBefore(timers[k], timers[j])
<1>3. ASSUME IInv, InFiringOrder, [Next]_vars, NEW k \in DOMAIN timers,
             running' = timers[k].timer
      PROVE  /\ timers[k].deadline <= now
             /\ \A j \in DOMAIN timers \ {k} : FiresBefore(timers[k], timers[j])
  <2> DEFINE t == timers[k].timer
  <2>1. t \in Registered /\ t # running /\ t \in Timers
    BY <1>3, TimerTypes DEF IInv, LoopInv, Registered
  <2>2. CASE FireTimer
    <3>1. 1 \in DOMAIN timers /\ timers[1].timer = t /\ timers[1].deadline <= passNow
      BY <1>3, <2>2 DEF IInv, FireTimer, Expired, TimersInv, TimersType
    <3>2. k = 1
      BY <1>3, <3>1 DEF IInv, TimersInv, TimersType
    <3>3. timers[1].deadline \in Nat
      BY <1>3, <3>1, TimerTypes DEF IInv
    <3>4. timers[1].deadline <= now
      BY <1>3, <3>1, <3>3 DEF IInv, LoopInv
    <3>5. ASSUME NEW j \in DOMAIN timers \ {1}  PROVE  FiresBefore(timers[1], timers[j])
      <4>1. 1 < j
        BY <1>3 DEF IInv, TimersInv, TimersType
      <4> QED BY <1>3, <3>1, <4>1 DEF InFiringOrder
    <3> QED BY <3>2, <3>4, <3>5
  <2>3. CASE VisitHandle
    BY <1>3, <2>1, <2>3 DEF VisitHandle, IInv, HandlesInv, HandlesType
  <2>4. CASE running' = running \/ running' = None
    BY <1>3, <2>1, <2>4
  <2> QED BY <1>3, <2>2, <2>3, <2>4
          DEF Next, Loop, Calls, Run, Tick, Select, TimersDone, PassDone, Return, vars,
              FileHandleRegister, FileHandleUpdateInterests, FileHandleDeregister,
              TimerRegister, TimerDeregister, RunLoopStop
<1>4. IInv /\ InFiringOrder /\ [Next]_vars
        => [\A k \in DOMAIN timers : FiresNext(k)]_vars
  BY <1>3
<1> QED BY <1>1, <1>2, <1>4, PTL DEF Spec, TimersFireInOrder

-----------------------------------------------------------------------------
(* The streams (TCPStreamManager). Its calls change the list of handles and  *)
(* the handle of the listener together; the loop itself leaves the list and  *)
(* the interests alone, so StreamsServed needs only the types beside it.     *)

\* The operators of the instance are those of this module.
LEMMA SameOperators ==
  /\ \A S : Streams!Cardinality(S) = Cardinality(S) /\ (Streams!IsFiniteSet(S) <=> IsFiniteSet(S))
  /\ \A seq : Streams!Elements(seq) = Elements(seq)
  /\ \A seq, k : Streams!Without(seq, k) = Without(seq, k)
  /\ \A seq, e : Streams!Position(seq, e) = Position(seq, e)
<1>1. \A S : Streams!Cardinality(S) = Cardinality(S)
  BY DEF Streams!Cardinality, Cardinality
<1>2. \A S : Streams!IsFiniteSet(S) <=> IsFiniteSet(S)
  BY DEF Streams!IsFiniteSet, IsFiniteSet
<1> QED
  BY <1>1, <1>2 DEF Streams!Elements, Elements, Streams!Without, Without, Streams!Position, Position

USE SameOperators

StreamsTypes ==
  /\ handles \in Seq(StreamHandles) /\ Injective(handles)
  /\ handle = [h \in StreamHandles |-> handle[h]]
  /\ \A h \in StreamHandles : DOMAIN handle[h] = {"fd", "interests", "awaiting"}
  /\ streams = [s \in Slots |-> streams[s]]
  /\ \A s \in Slots : DOMAIN streams[s] = {"handle", "interests"}

StreamsInv == StreamsTypes /\ Streams!StreamsServed

\* The listener and the streams have the handles of the list, each its own.
LEMMA HandleOwners ==
  ASSUME StreamsInv
  PROVE  /\ Elements(handles) \subseteq StreamHandles
         /\ Streams!Open \subseteq Slots
         /\ \A s \in Streams!Open : streams[s].handle \in Elements(handles) /\ streams[s].handle # listener
         /\ listener # None => listener \in Elements(handles)
         /\ \A h \in Elements(handles) : h = listener \/ \E s \in Streams!Open : streams[s].handle = h
<1>1. Elements(handles) \subseteq StreamHandles
  BY DEF StreamsInv, StreamsTypes, Elements
<1>2. /\ Elements(handles) =
           {streams[s].handle : s \in Streams!Open} \cup (IF listener = None THEN {} ELSE {listener})
      /\ listener \notin {streams[s].handle : s \in Streams!Open}
  BY DEF StreamsInv, Streams!StreamsServed
<1>3. Streams!Open \subseteq Slots
  BY DEF Streams!Open
<1> QED
  BY <1>1, <1>2, <1>3

\* The number of streams that are open
LEMMA OpenIsFinite ==
  ASSUME Streams!TCPStreamManagerAssumption
  PROVE  /\ IsFiniteSet(Streams!Open) /\ Cardinality(Streams!Open) \in Nat
         /\ Streams!maxTCPStreams \in Nat /\ Streams!maxTCPStreams > 0
         /\ Cardinality(Streams!Open) <= Streams!maxTCPStreams
<1>1. IsFiniteSet(Slots) /\ Slots # {} /\ Streams!Open \subseteq Slots
  BY DEF Streams!TCPStreamManagerAssumption, Streams!Open
<1>2. IsFiniteSet(Streams!Open) /\ Cardinality(Streams!Open) <= Cardinality(Slots)
  BY <1>1, FS_Subset
<1>3. Cardinality(Streams!Open) \in Nat /\ Cardinality(Slots) \in Nat /\ Cardinality(Slots) # 0
  BY <1>1, <1>2, FS_CardinalityType, FS_EmptySet
<1> QED BY <1>2, <1>3 DEF Streams!maxTCPStreams

\* The list with a handle more
LEMMA HandleAdded ==
  ASSUME StreamsTypes, NEW h \in StreamHandles, h \notin Elements(handles),
         handles' = Append(handles, h)
  PROVE  /\ handles' \in Seq(StreamHandles) /\ Injective(handles')
         /\ Elements(handles') = Elements(handles) \cup {h}
<1> DEFINE n == Len(handles)
<1>1. /\ handles' \in Seq(StreamHandles) /\ n \in Nat /\ Len(handles') = n + 1
      /\ \A j \in 1 .. n : handles'[j] = handles[j]
      /\ handles'[n + 1] = h
  BY DEF StreamsTypes
<1>2. \A j \in 1 .. n : handles[j] # h
  BY DEF Elements, StreamsTypes
<1>3. Injective(handles')
  BY <1>1, <1>2 DEF Injective, StreamsTypes
<1>4. Elements(handles') \subseteq Elements(handles) \cup {h}
  BY <1>1 DEF Elements, StreamsTypes
<1>5. Elements(handles) \cup {h} \subseteq Elements(handles')
  BY <1>1 DEF Elements, StreamsTypes
<1> QED BY <1>1, <1>3, <1>4, <1>5

\* The list without a handle
LEMMA HandleRemoved ==
  ASSUME StreamsTypes, NEW h \in Elements(handles),
         handles' = Without(handles, Position(handles, h))
  PROVE  /\ handles' \in Seq(StreamHandles) /\ Injective(handles')
         /\ Elements(handles') = Elements(handles) \ {h}
<1>1. PICK k \in DOMAIN handles : k = Position(handles, h) /\ handles[k] = h
  BY PositionOf
<1>2. handles \in Seq(StreamHandles) /\ Injective(handles) /\ handles' = Without(handles, k)
  BY <1>1 DEF StreamsTypes
<1> QED BY <1>1, <1>2, WithoutIsSeq, WithoutElements

LEMMA ListenerOpens ==
  ASSUME Streams!TCPStreamManagerAssumption, StreamsInv, Streams!OpenListener
  PROVE  StreamsInv'
<1>1. PICK h \in StreamHandles :
        /\ listener = None /\ numTCPStreams = 0 /\ listener' = h
        /\ h \notin Elements(handles) /\ handles' = Append(handles, h)
        /\ handle' = [handle EXCEPT ![h] = [fd |-> Streams!FreshFd, interests |-> {"read"}, awaiting |-> FALSE]]
        /\ UNCHANGED <<streams, numTCPStreams>>
  BY DEF Streams!OpenListener, Streams!FileHandleRegister
<1>2. /\ handles' \in Seq(StreamHandles) /\ Injective(handles')
      /\ Elements(handles') = Elements(handles) \cup {h}
  BY <1>1, HandleAdded DEF StreamsInv
<1>3. /\ \A g \in StreamHandles \ {h} : handle'[g] = handle[g]
      /\ handle' = [g \in StreamHandles |-> handle'[g]]
      /\ handle'[h].interests = {"read"} /\ DOMAIN handle'[h] = {"fd", "interests", "awaiting"}
  BY <1>1 DEF StreamsInv, StreamsTypes
<1>4. StreamsTypes'
  BY <1>1, <1>2, <1>3 DEF StreamsInv, StreamsTypes
<1>5. Streams!Open' = Streams!Open /\ numTCPStreams' < Streams!maxTCPStreams /\ numTCPStreams' = Cardinality(Streams!Open)
  BY <1>1, OpenIsFinite DEF Streams!Open, StreamsInv, Streams!StreamsServed
<1>6. \A s \in Streams!Open : /\ streams'[s] = streams[s]
                      /\ streams[s].handle \in Elements(handles) /\ streams[s].handle # h
                      /\ streams[s].handle \in StreamHandles
  BY <1>1, HandleOwners
<1>7. \A s \in Streams!Open' : handle'[streams'[s].handle].interests = streams'[s].interests
  BY <1>3, <1>5, <1>6 DEF StreamsInv, Streams!StreamsServed
<1>8. /\ \A s, t \in Streams!Open' : streams'[s].handle = streams'[t].handle => s = t
      /\ Elements(handles') =
           {streams'[s].handle : s \in Streams!Open'} \cup (IF listener' = None THEN {} ELSE {listener'})
      /\ listener' \notin {streams'[s].handle : s \in Streams!Open'}
  <2>1. Elements(handles) = {streams[s].handle : s \in Streams!Open} /\ h # None
    BY <1>1 DEF StreamsInv, Streams!StreamsServed, Streams!TCPStreamManagerAssumption
  <2>2. {streams'[s].handle : s \in Streams!Open'} = {streams[s].handle : s \in Streams!Open}
    BY <1>5, <1>6
  <2>3. \A s, t \in Streams!Open' : streams'[s].handle = streams'[t].handle => s = t
    BY <1>5, <1>6 DEF StreamsInv, Streams!StreamsServed
  <2> QED BY <1>1, <1>2, <1>6, <2>1, <2>2, <2>3
<1>9. listener' # None =>
        handle'[listener'].interests = (IF numTCPStreams' < Streams!maxTCPStreams THEN {"read"} ELSE {})
  BY <1>1, <1>3, <1>5
<1> QED BY <1>4, <1>5, <1>7, <1>8, <1>9 DEF StreamsInv, Streams!StreamsServed, Streams!maxTCPStreams

LEMMA ListenerCloses ==
  ASSUME Streams!TCPStreamManagerAssumption, StreamsInv, Streams!CloseListener
  PROVE  StreamsInv'
<1>1. PICK h \in Elements(handles) :
        /\ h = listener /\ listener' = None
        /\ handles' = Without(handles, Position(handles, h))
        /\ handle' = [handle EXCEPT ![h] = Streams!Freed]
        /\ UNCHANGED <<streams, numTCPStreams>>
  BY DEF Streams!CloseListener, Streams!FileHandleDeregister
<1>2. /\ handles' \in Seq(StreamHandles) /\ Injective(handles')
      /\ Elements(handles') = Elements(handles) \ {h}
  BY <1>1, HandleRemoved DEF StreamsInv
<1>3. h \in StreamHandles /\ listener # None
  BY <1>1, HandleOwners DEF Streams!CloseListener
<1>4. /\ \A g \in StreamHandles \ {h} : handle'[g] = handle[g]
      /\ handle' = [g \in StreamHandles |-> handle'[g]]
      /\ DOMAIN handle'[h] = {"fd", "interests", "awaiting"}
  BY <1>1, <1>3 DEF StreamsInv, StreamsTypes, Streams!Freed
<1>5. StreamsTypes'
  BY <1>1, <1>2, <1>4 DEF StreamsInv, StreamsTypes
<1>6. Streams!Open' = Streams!Open /\ numTCPStreams' = Cardinality(Streams!Open)
  BY <1>1 DEF Streams!Open, StreamsInv, Streams!StreamsServed
<1>7. \A s \in Streams!Open : /\ streams'[s] = streams[s]
                      /\ streams[s].handle # h
                      /\ streams[s].handle \in StreamHandles
  BY <1>1, HandleOwners
<1>8. \A s \in Streams!Open' : handle'[streams'[s].handle].interests = streams'[s].interests
  BY <1>4, <1>6, <1>7 DEF StreamsInv, Streams!StreamsServed
<1>9. /\ \A s, t \in Streams!Open' : streams'[s].handle = streams'[t].handle => s = t
      /\ Elements(handles') =
           {streams'[s].handle : s \in Streams!Open'} \cup (IF listener' = None THEN {} ELSE {listener'})
      /\ listener' \notin {streams'[s].handle : s \in Streams!Open'}
  <2>1. Elements(handles) = {streams[s].handle : s \in Streams!Open} \cup {h}
    BY <1>1, <1>3 DEF StreamsInv, Streams!StreamsServed
  <2>2. {streams'[s].handle : s \in Streams!Open'} = {streams[s].handle : s \in Streams!Open}
    BY <1>6, <1>7
  <2>3. \A s, t \in Streams!Open' : streams'[s].handle = streams'[t].handle => s = t
    BY <1>6, <1>7 DEF StreamsInv, Streams!StreamsServed
  <2>4. h \notin {streams[s].handle : s \in Streams!Open}
    BY <1>7
  <2>5. None \notin {streams[s].handle : s \in Streams!Open}
    BY DEF Streams!Open
  <2> QED BY <1>1, <1>2, <2>1, <2>2, <2>3, <2>4, <2>5, ZenonT(60)
<1> QED BY <1>1, <1>5, <1>6, <1>8, <1>9 DEF StreamsInv, Streams!StreamsServed, Streams!maxTCPStreams

\* While a stream is left, there is a first one, and it is the one that is taken.
LEMMA FirstFreeStream ==
  ASSUME Streams!TCPStreamManagerAssumption, StreamsInv, numTCPStreams < Streams!maxTCPStreams
  PROVE  (CHOOSE t \in Slots \ Streams!Open : \A u \in Slots \ Streams!Open : t <= u) \in Slots \ Streams!Open
<1> DEFINE free == Slots \ Streams!Open
<1>1. free # {}
  <2> SUFFICES ASSUME Streams!Open = Slots  PROVE FALSE
    BY DEF Streams!Open
  <2>1. numTCPStreams = Cardinality(Slots)
    BY DEF StreamsInv, Streams!StreamsServed
  <2> QED BY <2>1, OpenIsFinite DEF Streams!maxTCPStreams
<1>2. free \subseteq Nat
  BY DEF Streams!TCPStreamManagerAssumption
<1> HIDE DEF free
<1>3. PICK t \in free : \A u \in free : ~(<<u, t>> \in OpToRel(<, Nat))
  BY <1>1, <1>2, WFMin, NatLessThanWellFounded
<1>4. \A u \in free : ~(u < t)
  BY <1>2, <1>3, Zenon DEF OpToRel
<1>5. \E k \in free : \A j \in free : k <= j
  BY <1>2, <1>4
<1> QED BY <1>5 DEF free

LEMMA StreamAccepted ==
  ASSUME Streams!TCPStreamManagerAssumption, StreamsInv, Streams!Accept
  PROVE  StreamsInv'
<1>0. numTCPStreams < Streams!maxTCPStreams /\ listener # None
  BY DEF Streams!Accept
<1>1. PICK s \in Slots \ Streams!Open, h \in StreamHandles \ Elements(handles), fd \in {Streams!FreshFd} :
        /\ handles' = Append(handles, h)
        /\ handle' = [handle EXCEPT
             ![h] = [fd |-> fd, interests |-> {}, awaiting |-> FALSE],
             ![listener].interests = Streams!AfterAccept(numTCPStreams + 1)]
        /\ streams' = [streams EXCEPT ![s] = [handle |-> h, interests |-> {}]]
        /\ numTCPStreams' = numTCPStreams + 1
        /\ UNCHANGED listener
  <2>1. PICK s \in Slots \ Streams!Open : s = CHOOSE t \in Slots \ Streams!Open : \A u \in Slots \ Streams!Open : t <= u
    BY <1>0, FirstFreeStream
  <2> QED BY <2>1 DEF Streams!Accept
<1>2. /\ handles' \in Seq(StreamHandles) /\ Injective(handles')
      /\ Elements(handles') = Elements(handles) \cup {h}
  BY <1>1, HandleAdded DEF StreamsInv
<1>3. listener \in Elements(handles) /\ listener \in StreamHandles /\ listener # h /\ h # None
  BY <1>0, <1>1, HandleOwners DEF Streams!TCPStreamManagerAssumption
<1>4. PICK i \in {Streams!AfterAccept(numTCPStreams + 1)} :
        i = IF numTCPStreams' < Streams!maxTCPStreams THEN {"read"} ELSE {}
  <2>1. handle[listener].interests = {"read"}
    BY <1>0 DEF StreamsInv, Streams!StreamsServed
  <2>2. numTCPStreams \in Nat /\ Streams!maxTCPStreams \in Nat
    BY OpenIsFinite DEF StreamsInv, Streams!StreamsServed
  <2> QED BY <1>0, <1>1, <2>1, <2>2 DEF Streams!AfterAccept
<1>5. PICK new, l :
        /\ new = [fd |-> fd, interests |-> {}, awaiting |-> FALSE]
        /\ l = [handle[listener] EXCEPT !.interests = i]
        /\ handle' = [handle EXCEPT ![h] = new, ![listener] = l]
  BY <1>1, <1>3, <1>4, Zenon
<1>6. /\ \A g \in StreamHandles \ {h, listener} : handle'[g] = handle[g]
      /\ handle' = [g \in StreamHandles |-> handle'[g]]
      /\ handle'[h].interests = {} /\ handle'[listener].interests = i
      /\ DOMAIN handle'[h] = {"fd", "interests", "awaiting"}
      /\ DOMAIN handle'[listener] = {"fd", "interests", "awaiting"}
  <2>1. /\ DOMAIN handle = StreamHandles
        /\ DOMAIN handle[listener] = {"fd", "interests", "awaiting"}
    BY <1>3 DEF StreamsInv, StreamsTypes
  <2>2. /\ DOMAIN l = {"fd", "interests", "awaiting"} /\ l.interests = i
        /\ DOMAIN new = {"fd", "interests", "awaiting"} /\ new.interests = {}
    BY <1>5, <2>1
  <2>3. /\ handle'[h] = new /\ handle'[listener] = l
        /\ \A g \in StreamHandles \ {h, listener} : handle'[g] = handle[g]
        /\ handle' = [g \in StreamHandles |-> handle'[g]]
    BY <1>1, <1>3, <1>5, <2>1
  <2> QED BY <2>2, <2>3
<1>7. /\ \A t \in Slots \ {s} : streams'[t] = streams[t]
      /\ streams' = [t \in Slots |-> streams'[t]]
      /\ streams'[s] = [handle |-> h, interests |-> {}]
  BY <1>1 DEF StreamsInv, StreamsTypes
<1>8. StreamsTypes'
  <2>1. \A g \in StreamHandles : DOMAIN handle'[g] = {"fd", "interests", "awaiting"}
    BY <1>6 DEF StreamsInv, StreamsTypes
  <2>2. \A t \in Slots : DOMAIN streams'[t] = {"handle", "interests"}
    BY <1>7 DEF StreamsInv, StreamsTypes
  <2> QED BY <1>2, <1>6, <1>7, <2>1, <2>2 DEF StreamsTypes
<1>9. Streams!Open' = Streams!Open \cup {s} /\ s \notin Streams!Open /\ Streams!Open \subseteq Slots
  BY <1>1, <1>3, <1>7 DEF Streams!Open
<1>10. numTCPStreams' = Cardinality(Streams!Open')
  BY <1>1, <1>9, OpenIsFinite, FS_AddElement DEF StreamsInv, Streams!StreamsServed
<1>11. \A t \in Streams!Open : /\ streams'[t] = streams[t]
                       /\ streams[t].handle \notin {h, listener}
                       /\ streams[t].handle \in StreamHandles
  BY <1>1, <1>7, <1>9, HandleOwners
<1>12. \A t \in Streams!Open' : handle'[streams'[t].handle].interests = streams'[t].interests
  <2>1. \A t \in Streams!Open : handle[streams[t].handle].interests = streams[t].interests
    BY DEF StreamsInv, Streams!StreamsServed
  <2>2. handle'[streams'[s].handle].interests = streams'[s].interests
    BY <1>6, <1>7
  <2> QED BY <1>6, <1>9, <1>11, <2>1, <2>2
<1>13. /\ \A t, u \in Streams!Open' : streams'[t].handle = streams'[u].handle => t = u
       /\ listener' \notin {streams'[t].handle : t \in Streams!Open'}
  BY <1>1, <1>3, <1>7, <1>9, <1>11 DEF StreamsInv, Streams!StreamsServed
<1>14. Elements(handles') =
         {streams'[t].handle : t \in Streams!Open'} \cup (IF listener' = None THEN {} ELSE {listener'})
  <2>1. Elements(handles) = {streams[t].handle : t \in Streams!Open} \cup {listener}
    BY <1>0 DEF StreamsInv, Streams!StreamsServed
  <2>2. {streams'[t].handle : t \in Streams!Open'} = {streams[t].handle : t \in Streams!Open} \cup {h}
    BY <1>7, <1>9, <1>11
  <2> QED BY <1>0, <1>1, <1>2, <2>1, <2>2
<1>15. handle'[listener'].interests = (IF numTCPStreams' < Streams!maxTCPStreams THEN {"read"} ELSE {})
  BY <1>1, <1>4, <1>6
<1> QED BY <1>8, <1>10, <1>12, <1>13, <1>14, <1>15 DEF StreamsInv, Streams!StreamsServed, Streams!maxTCPStreams

LEMMA StreamUpdated ==
  ASSUME Streams!TCPStreamManagerAssumption, StreamsInv, NEW s \in Slots, NEW interests,
         Streams!UpdateInterests(s, interests)
  PROVE  StreamsInv'
<1>1. PICK h \in Elements(handles) :
        /\ h = streams[s].handle /\ s \in Streams!Open
        /\ handle' = [handle EXCEPT ![h].interests = interests]
        /\ streams' = [streams EXCEPT ![s].interests = interests]
        /\ UNCHANGED <<handles, listener, numTCPStreams>>
  BY DEF Streams!UpdateInterests, Streams!FileHandleUpdateInterests
<1>2. h \in StreamHandles /\ h # listener
  BY <1>1, HandleOwners
<1>3. /\ \A g \in StreamHandles \ {h} : handle'[g] = handle[g]
      /\ handle' = [g \in StreamHandles |-> handle'[g]]
      /\ handle'[h].interests = interests
      /\ DOMAIN handle'[h] = {"fd", "interests", "awaiting"}
  BY <1>1, <1>2 DEF StreamsInv, StreamsTypes
<1>4. /\ \A t \in Slots \ {s} : streams'[t] = streams[t]
      /\ streams' = [t \in Slots |-> streams'[t]]
      /\ DOMAIN streams'[s] = {"handle", "interests"}
      /\ streams'[s].handle = h /\ streams'[s].interests = interests
  BY <1>1 DEF StreamsInv, StreamsTypes
<1>5. StreamsTypes'
  BY <1>1, <1>3, <1>4 DEF StreamsInv, StreamsTypes
<1>6. Streams!Open' = Streams!Open /\ \A t \in Slots : streams'[t].handle = streams[t].handle
  BY <1>1, <1>4 DEF Streams!Open
<1>7. \A t \in Streams!Open' : handle'[streams'[t].handle].interests = streams'[t].interests
  <2> TAKE t \in Streams!Open'
  <2>1. t \in Streams!Open /\ streams[t].handle \in StreamHandles
    BY <1>6, HandleOwners
  <2>2. CASE t = s
    BY <1>3, <1>4, <2>2
  <2>3. CASE t # s
    <3>1. streams[t].handle # h
      BY <1>1, <2>1, <2>3 DEF StreamsInv, Streams!StreamsServed
    <3>2. t \in Slots \ {s}
      BY <2>1, <2>3, HandleOwners
    <3> QED BY <1>3, <1>4, <2>1, <3>1, <3>2 DEF StreamsInv, Streams!StreamsServed
  <2> QED BY <2>2, <2>3
<1>8. Streams!Open \subseteq Slots
  BY HandleOwners
<1>9. {streams'[t].handle : t \in Streams!Open'} = {streams[t].handle : t \in Streams!Open}
  BY <1>6, <1>8
<1>10. listener # None => listener \in StreamHandles /\ handle'[listener] = handle[listener]
  BY <1>2, <1>3, HandleOwners
<1>11. /\ \A t, u \in Streams!Open' : streams'[t].handle = streams'[u].handle => t = u
       /\ numTCPStreams' = Cardinality(Streams!Open')
  BY <1>1, <1>6, <1>8 DEF StreamsInv, Streams!StreamsServed
<1> QED BY <1>1, <1>5, <1>7, <1>9, <1>10, <1>11 DEF StreamsInv, Streams!StreamsServed, Streams!maxTCPStreams

LEMMA StreamClosed ==
  ASSUME Streams!TCPStreamManagerAssumption, StreamsInv, NEW s \in Slots, Streams!Close(s)
  PROVE  StreamsInv'
<1>1. PICK h \in Elements(handles), i \in {Streams!AfterClose(numTCPStreams - 1)} :
        /\ h = streams[s].handle /\ s \in Streams!Open
        /\ handles' = Without(handles, Position(handles, h))
        /\ handle' = [g \in StreamHandles |->
                        IF g = h THEN Streams!Freed
                        ELSE IF g = listener THEN [handle[g] EXCEPT !.interests = i]
                        ELSE handle[g]]
        /\ streams' = [streams EXCEPT ![s] = Streams!InitializeTCPStream]
        /\ numTCPStreams' = numTCPStreams - 1
        /\ UNCHANGED listener
  <2>1. s \in Streams!Open /\ streams[s].handle \in Elements(handles)
    BY HandleOwners DEF Streams!Close
  <2> QED BY <2>1 DEF Streams!Close
<1>2. /\ handles' \in Seq(StreamHandles) /\ Injective(handles')
      /\ Elements(handles') = Elements(handles) \ {h}
  BY <1>1, HandleRemoved DEF StreamsInv
<1>3. h \in StreamHandles /\ h # listener
  BY <1>1, HandleOwners
<1>4. /\ \A g \in StreamHandles \ {h, listener} : handle'[g] = handle[g]
      /\ handle' = [g \in StreamHandles |-> handle'[g]]
      /\ \A g \in StreamHandles : DOMAIN handle'[g] = {"fd", "interests", "awaiting"}
      /\ listener # None => handle'[listener].interests = i
  <2>1. listener # None => listener \in StreamHandles
    BY HandleOwners
  <2> QED BY <1>1, <1>3, <2>1 DEF StreamsInv, StreamsTypes, Streams!Freed
<1>5. /\ \A t \in Slots \ {s} : streams'[t] = streams[t]
      /\ streams' = [t \in Slots |-> streams'[t]]
      /\ streams'[s] = [handle |-> None, interests |-> {}]
  BY <1>1 DEF StreamsInv, StreamsTypes, Streams!InitializeTCPStream
<1>6. StreamsTypes'
  BY <1>2, <1>4, <1>5, SMTT(60) DEF StreamsInv, StreamsTypes
<1>7. Streams!Open' = Streams!Open \ {s} /\ Streams!Open \subseteq Slots
  BY <1>5 DEF Streams!Open
<1>8. /\ numTCPStreams' = Cardinality(Streams!Open')
      /\ numTCPStreams \in Nat /\ Streams!maxTCPStreams \in Nat
      /\ 0 < numTCPStreams /\ numTCPStreams <= Streams!maxTCPStreams
  <2>1. IsFiniteSet(Streams!Open) /\ Cardinality(Streams!Open) \in Nat /\ numTCPStreams = Cardinality(Streams!Open)
    BY OpenIsFinite DEF StreamsInv, Streams!StreamsServed
  <2>2. Cardinality(Streams!Open') = Cardinality(Streams!Open) - 1
    BY <1>1, <1>7, <2>1, FS_RemoveElement
  <2>3. Cardinality(Streams!Open) # 0
    BY <1>1, <2>1, FS_EmptySet
  <2> QED BY <1>1, <2>1, <2>2, <2>3, OpenIsFinite
<1>9. \A t \in Streams!Open' : /\ t \in Streams!Open /\ streams'[t] = streams[t]
                       /\ streams[t].handle \notin {h, listener}
                       /\ streams[t].handle \in StreamHandles
  <2> TAKE t \in Streams!Open'
  <2>1. t \in Streams!Open /\ t # s /\ t \in Slots \ {s}
    BY <1>7
  <2>2. streams[t].handle # h
    BY <1>1, <2>1 DEF StreamsInv, Streams!StreamsServed
  <2> QED BY <1>5, <2>1, <2>2, HandleOwners
<1>10. \A t \in Streams!Open' : handle'[streams'[t].handle].interests = streams'[t].interests
  BY <1>4, <1>9 DEF StreamsInv, Streams!StreamsServed
<1>11. /\ \A t, u \in Streams!Open' : streams'[t].handle = streams'[u].handle => t = u
       /\ listener' \notin {streams'[t].handle : t \in Streams!Open'}
  BY <1>1, <1>9 DEF StreamsInv, Streams!StreamsServed
<1>12. Elements(handles') =
         {streams'[t].handle : t \in Streams!Open'} \cup (IF listener' = None THEN {} ELSE {listener'})
  <2>1. Elements(handles) =
          {streams[t].handle : t \in Streams!Open} \cup (IF listener = None THEN {} ELSE {listener})
    BY DEF StreamsInv, Streams!StreamsServed
  <2>2. {streams'[t].handle : t \in Streams!Open'} = {streams[t].handle : t \in Streams!Open} \ {h}
    BY <1>1, <1>7, <1>9
  <2> QED BY <1>1, <1>2, <1>3, <2>1, <2>2
<1>13. listener # None => i = {"read"}
  <2> SUFFICES ASSUME listener # None PROVE i = {"read"}
    OBVIOUS
  <2>1. handle[listener].interests = (IF numTCPStreams < Streams!maxTCPStreams THEN {"read"} ELSE {})
    BY DEF StreamsInv, Streams!StreamsServed
  <2> QED BY <1>8, <2>1 DEF Streams!AfterClose
<1>14. numTCPStreams' < Streams!maxTCPStreams
  BY <1>1, <1>8
<1> QED BY <1>1, <1>4, <1>6, <1>8, <1>10, <1>11, <1>12, <1>13, <1>14
        DEF StreamsInv, Streams!StreamsServed, Streams!maxTCPStreams

\* The loop changes nothing but which handles await events.
LEMMA LoopLeavesStreams ==
  ASSUME StreamsInv, Streams!Run \/ Streams!Loop, UNCHANGED Streams!managerVars
  PROVE  StreamsInv'
<1>1. handles' = handles /\ UNCHANGED <<listener, streams, numTCPStreams>>
  BY DEF Streams!Run, Streams!Loop, Streams!Select, Streams!FireTimer, Streams!TimersDone, Streams!VisitHandle, Streams!PassDone, Streams!Return, Streams!handleVars, Streams!managerVars
<1>2. /\ handle' = [h \in StreamHandles |-> handle'[h]]
      /\ \A h \in StreamHandles : /\ handle'[h].interests = handle[h].interests
                            /\ DOMAIN handle'[h] = {"fd", "interests", "awaiting"}
  <2>1. CASE handle' = handle
    BY <2>1 DEF StreamsInv, StreamsTypes
  <2>2. CASE Streams!Select
    BY <2>2 DEF StreamsInv, StreamsTypes, Streams!Select
  <2>3. CASE Streams!VisitHandle
    BY <2>3 DEF StreamsInv, StreamsTypes, Streams!VisitHandle
  <2> QED
    BY <2>1, <2>2, <2>3 DEF Streams!Run, Streams!Loop, Streams!FireTimer, Streams!TimersDone, Streams!PassDone, Streams!Return, Streams!handleVars
<1>3. StreamsTypes'
  BY <1>1, <1>2 DEF StreamsInv, StreamsTypes
<1>4. /\ Streams!Open' = Streams!Open /\ Streams!Open \subseteq Slots
      /\ \A s \in Streams!Open : streams[s].handle \in StreamHandles
      /\ listener # None => listener \in StreamHandles
  BY <1>1, HandleOwners DEF Streams!Open
<1>5. /\ listener # None =>
           handle'[listener].interests = (IF numTCPStreams < Streams!maxTCPStreams THEN {"read"} ELSE {})
      /\ \A s \in Streams!Open : handle'[streams[s].handle].interests = streams[s].interests
  BY <1>2, <1>4 DEF StreamsInv, Streams!StreamsServed
<1> QED BY <1>1, <1>3, <1>4, <1>5 DEF StreamsInv, Streams!StreamsServed, Streams!maxTCPStreams

LEMMA StreamsStep ==
  ASSUME Streams!TCPStreamManagerAssumption, StreamsInv, [Streams!ManagerNext]_Streams!allVars
  PROVE  StreamsInv'
<1>1. CASE Streams!OpenListener
  BY <1>1, ListenerOpens
<1>2. CASE Streams!CloseListener
  BY <1>2, ListenerCloses
<1>3. CASE Streams!Accept
  BY <1>3, StreamAccepted
<1>4. ASSUME NEW s \in Slots, NEW event \in StreamEvents, Streams!UpdateInterests(s, {event})
      PROVE  StreamsInv'
  BY <1>4, StreamUpdated
<1>5. ASSUME NEW s \in Slots, Streams!Close(s)
      PROVE  StreamsInv'
  BY <1>5, StreamClosed
<1>6. CASE (Streams!Run \/ Streams!Loop) /\ UNCHANGED Streams!managerVars
  BY <1>6, LoopLeavesStreams
<1>7. CASE UNCHANGED Streams!allVars
  BY <1>7 DEF StreamsInv, StreamsTypes, Streams!StreamsServed, Streams!Open, Streams!maxTCPStreams, Streams!allVars, Streams!vars, Streams!handleVars, Streams!managerVars
<1> QED
  BY <1>1, <1>2, <1>3, <1>4, <1>5, <1>6, <1>7 DEF Streams!ManagerNext, Streams!Manager

LEMMA InitStreams ==
  ASSUME Streams!TCPStreamManagerAssumption, Streams!ManagerInit
  PROVE  StreamsInv
<1>1. /\ handles = <<>> /\ handle = [h \in StreamHandles |-> Streams!Freed] /\ listener = None
      /\ streams = [s \in Slots |-> [handle |-> None, interests |-> {}]]
      /\ numTCPStreams = 0
  BY DEF Streams!ManagerInit, Streams!Init, Streams!InitializeTCPStream
<1>2. Streams!Open = {}
  BY <1>1 DEF Streams!Open
<1>3. StreamsTypes
  BY <1>1 DEF StreamsTypes, Injective, Streams!Freed
<1>4. Elements(handles) = {} /\ numTCPStreams = Cardinality(Streams!Open)
  BY <1>1, <1>2, FS_EmptySet DEF Elements
<1> QED BY <1>1, <1>2, <1>3, <1>4 DEF StreamsInv, Streams!StreamsServed

\* The listener of the stream manager is on duty exactly while a stream is left, every handle
\* of the run loop belongs to one open stream or the listener, and has the interests its owner
\* asked for, for any number of streams and handles (AcceptTCPStream, TCPStreamClose).
THEOREM StreamsAreServed ==
  ASSUME Streams!TCPStreamManagerAssumption
  PROVE  Streams!ManagerSpec => []StreamsServed
<1>1. Streams!ManagerInit => StreamsInv
  BY InitStreams
<1>2. StreamsInv /\ [Streams!ManagerNext]_Streams!allVars => StreamsInv'
  BY StreamsStep
<1>3. StreamsInv => StreamsServed
  BY DEF StreamsInv, StreamsServed
<1> QED BY <1>1, <1>2, <1>3, PTL DEF Streams!ManagerSpec

=============================================================================
