------------------------------ MODULE PairVerify ------------------------------
(* Pair Verify (HAP/HAPPairingPairVerify.c): a controller proves over four messages which *)
(* pairing it is the controller of, or over two that it has had a session before, and the *)
(* session becomes active.  A write is handled apart from the read of its response: over  *)
(* Bluetooth LE anything may come between them, over IP nothing does.                     *)
(*                                                                                        *)
(* Cryptography is taken to work: a signature and a tag are right if and only if they     *)
(* come from the controller that owns the key, in this exchange.                          *)
EXTENDS Integers, FiniteSets

CONSTANTS
  Elements,          \* positions of sessionCacheElements
  TimestampModulus,  \* 2^32
  Controllers,
  maxPairings,
  Sessions,
  OverBLE,      \* the sessions whose transport is Bluetooth LE
  NoOne         \* no controller, no session

ASSUME SessionCacheAssumption ==
  /\ Elements \subseteq Nat /\ IsFiniteSet(Elements) /\ Elements # {}
  /\ TimestampModulus \in Nat /\ TimestampModulus > 2

ASSUME PairVerifyAssumption ==
  /\ maxPairings \in Nat \ {0}
  /\ OverBLE \subseteq Sessions
  /\ NoOne \notin Controllers \cup Sessions

-----------------------------------------------------------------------------
(* Sessions that can be resumed over Bluetooth LE (HAP/HAPPairingBLESessionCache.c): a   *)
(* cache from session IDs to pairings and shared secrets in memory, ordered by a time    *)
(* stamp that wraps.  The secret of an entry is known to the controller at the other end *)
(* of the session it was saved for.                                                      *)

\* lastUsed is 0 for an element that is not in use. secret: of the session that was saved
ZeroedElement == [lastUsed |-> 0, pairingID |-> 0, secret |-> 0]
EmptyCache == [e \in Elements |-> ZeroedElement]

Used(cache) == {e \in Elements : cache[e].lastUsed # 0}

\* The first element with the smallest time stamp; the first of all if every one has the
\* largest there is.
LeastRecentlyUsed(cache) ==
  LET older(d, e) == cache[d].lastUsed < cache[e].lastUsed \/ (cache[d].lastUsed = cache[e].lastUsed /\ d < e)
  IN  CHOOSE e \in Elements : \A d \in Elements \ {e} : older(e, d)

\* When the time stamp wraps, the elements in use are made equally old.
Renewed(cache) == [e \in Elements |-> IF cache[e].lastUsed # 0 THEN [cache[e] EXCEPT !.lastUsed = 1] ELSE cache[e]]

\* HAPPairingBLESessionCacheSave
Save(cache, timestamp, pairingID, secret) ==
  LET e == LeastRecentlyUsed(cache)
      wraps == (timestamp + 1) % TimestampModulus = 0
      used == IF wraps THEN 2 ELSE timestamp + 1
  IN  [timestamp |-> used,
       element |-> e,
       cache |-> [(IF wraps THEN Renewed(cache) ELSE cache) EXCEPT
                    ![e] = [lastUsed |-> used, pairingID |-> pairingID, secret |-> secret]]]

\* HAPPairingBLESessionCacheFetch: what is fetched is gone.
Fetch(cache, e) == [cache EXCEPT ![e] = ZeroedElement]

\* HAPPairingBLESessionCacheInvalidateEntriesForPairing
InvalidateEntriesForPairing(cache, pairingID) ==
  [e \in Elements |-> IF cache[e].pairingID = pairingID THEN ZeroedElement ELSE cache[e]]

-----------------------------------------------------------------------------

VARIABLES
  pairings,   \* the domain Pairings of the key-value store
  session,    \* the sessions there are
  cache,      \* sessions that can be resumed
  timestamp,  \* server->ble.sessionCacheTimestamp
  pending     \* the session over IP whose response is due

vars == <<pairings, session, cache, timestamp, pending>>

Keys == 0 .. maxPairings - 1
NoPairing == [controller |-> NoOne, admin |-> FALSE]
Paired == {k \in Keys : pairings[k] # NoPairing}

\* HAPPairingPairVerifyReset and HAPPairingPairingsReset
PairVerifyReset == [state |-> 0, resumes |-> FALSE, error |-> FALSE, pairingID |-> -1, stale |-> FALSE]
PairingsReset == [state |-> 0, error |-> FALSE, method |-> "none", removed |-> NoOne]

\* session->hap; stale: history, the pairing has been removed since it was proven.
NotActive == [active |-> FALSE, pairingID |-> -1, stale |-> FALSE]

Closed == [client |-> NoOne, hap |-> NotActive, pairVerify |-> PairVerifyReset, pairings |-> PairingsReset]

\* HAPPairingFind
FindPairing(controller) == {k \in Paired : pairings[k].controller = controller}

\* The session of s gets pv as its Pair Verify state.
WithPairVerify(s, pv) == session' = [session EXCEPT ![s].pairVerify = pv]

\* The response to a write over IP is composed next.
Due(s) == IF s \in OverBLE THEN NoOne ELSE s

\* s may be written to, or read from.
MayWrite(s) == pending = NoOne /\ session[s].client # NoOne
MayRead(s) == pending \in {NoOne, s} /\ session[s].client # NoOne

-----------------------------------------------------------------------------
(* Writes *)

\* A message that is malformed, or not expected.
WriteRefused(s) == WithPairVerify(s, PairVerifyReset) /\ UNCHANGED <<cache, pending>>

\* HAPPairingPairVerifyProcessM1 for a new session: a message that says it is the first one
\* ends any exchange that is under way. Pair Resume with a session that is not known is
\* treated like this too.
WriteM1(s) ==
  /\ MayWrite(s)
  /\ WithPairVerify(s, [PairVerifyReset EXCEPT !.state = 1])
  /\ pending' = Due(s)
  /\ UNCHANGED <<pairings, cache, timestamp>>

\* The exchange of s ends with an error in the response to this message.
Failing(state) == [PairVerifyReset EXCEPT !.state = state, !.error = TRUE]

\* Mutant: the tag is not looked at.
TagIsRight_Always(s, e) == TRUE

\* The tag must have been made with the secret that was fetched.
TagIsRight(s, e) == cache[e].secret.controller = session[s].client

\* The same for Pair Resume, over Bluetooth LE only: the session is fetched before its tag is
\* looked at.
WriteM1Resume(s, e) ==
  /\ MayWrite(s)
  /\ IF s \in OverBLE
     THEN /\ WithPairVerify(s,
               IF TagIsRight(s, e)
               THEN [PairVerifyReset EXCEPT !.state = 1, !.resumes = TRUE,
                                            !.pairingID = cache[e].pairingID, !.stale = cache[e].secret.stale]
               ELSE Failing(1))
          /\ cache' = Fetch(cache, e)
          /\ UNCHANGED pending
     ELSE WriteRefused(s)
  /\ UNCHANGED <<pairings, timestamp>>

\* Mutant: whoever knows the identifier will do.
ProvenPairing_Unsigned(s, identifier) == FindPairing(identifier)

\* The pairing has to be there, and its controller must have signed the keys of the exchange.
ProvenPairing(s, identifier) == IF identifier = session[s].client THEN FindPairing(identifier) ELSE {}

\* HAPPairingPairVerifyProcessM3, with an identifier that may be anyone's. A message that cannot
\* be decrypted fails like a signature that is wrong.
WriteM3(s, identifier) ==
  /\ MayWrite(s)
  /\ IF session[s].pairVerify.state = 2
     THEN /\ \/ \E k \in ProvenPairing(s, identifier) :
                  WithPairVerify(s, [PairVerifyReset EXCEPT !.state = 3, !.pairingID = k])
             \/ ProvenPairing(s, identifier) = {} /\ WithPairVerify(s, Failing(3))
          /\ pending' = Due(s)
          /\ UNCHANGED cache
     ELSE WriteRefused(s)
  /\ UNCHANGED <<pairings, timestamp>>

\* What is malformed ends the exchange without a response.
WriteBad(s) == MayWrite(s) /\ WriteRefused(s) /\ UNCHANGED <<pairings, timestamp>>

-----------------------------------------------------------------------------
(* Reads *)

\* HAPPairingPairVerifyStartSession
StartSession(s) ==
  LET pv == session[s].pairVerify
  IN  session' = [session EXCEPT ![s].hap = [active |-> TRUE, pairingID |-> pv.pairingID, stale |-> pv.stale],
                                 ![s].pairVerify = PairVerifyReset]

\* The session can be resumed later.
SaveSession(s) ==
  LET pv == session[s].pairVerify
      saved == Save(cache, timestamp, pv.pairingID, [controller |-> session[s].client, stale |-> pv.stale])
  IN  cache' = saved.cache /\ timestamp' = saved.timestamp

\* HAPPairingPairVerifyGetErrorResponse, and what is not expected: the exchange is over.
GetErrorResponse(s) == WithPairVerify(s, PairVerifyReset) /\ UNCHANGED <<cache, timestamp>>

\* HAPPairingPairVerifyGetM2: keys are agreed on. Any response may not fit; the exchange is over
\* then.
GetM2(s) ==
  /\ \/ WithPairVerify(s, [session[s].pairVerify EXCEPT !.state = 2])
     \/ WithPairVerify(s, PairVerifyReset)
  /\ UNCHANGED <<cache, timestamp>>

\* HAPPairingPairVerifyGetM2ForBLEPairResume. A session that has been saved stays in the cache
\* when the response does not fit.
GetM2ForBLEPairResume(s) ==
  /\ SaveSession(s)
  /\ StartSession(s) \/ WithPairVerify(s, PairVerifyReset)

\* HAPPairingPairVerifyGetM4
GetM4(s) ==
  \/ WithPairVerify(s, PairVerifyReset) /\ UNCHANGED <<cache, timestamp>>
  \/ /\ IF s \in OverBLE THEN SaveSession(s) ELSE UNCHANGED <<cache, timestamp>>
     /\ StartSession(s)

\* HAPPairingPairVerifyHandleRead
ReadPairVerify(s) ==
  LET pv == session[s].pairVerify
  IN  /\ MayRead(s)
      /\ pending' = NoOne
      /\ UNCHANGED pairings
      /\ \/ (pv.error \/ pv.state \notin {1, 3}) /\ GetErrorResponse(s)
         \/ ~pv.error /\ pv.state = 1 /\ ~pv.resumes /\ GetM2(s)
         \/ ~pv.error /\ pv.state = 1 /\ pv.resumes /\ GetM2ForBLEPairResume(s)
         \/ ~pv.error /\ pv.state = 3 /\ GetM4(s)

-----------------------------------------------------------------------------
(* Connections *)

\* HAPSessionCreate, for a controller of either kind
Connect(s, c) ==
  /\ pending = NoOne /\ session[s] = Closed
  /\ session' = [session EXCEPT ![s].client = c]
  /\ UNCHANGED <<pairings, cache, timestamp, pending>>

\* HAPSessionInvalidate and HAPSessionRelease
Disconnect(s) ==
  /\ pending = NoOne /\ session[s].client # NoOne
  /\ session' = [session EXCEPT ![s] = Closed]
  /\ UNCHANGED <<pairings, cache, timestamp, pending>>

=============================================================================
