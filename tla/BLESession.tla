----------------------------- MODULE BLESession -----------------------------
(* The HAP session of a Bluetooth LE connection (HAP/HAPBLESession.c, with the  *)
(* life of a session in HAP/HAPSession.c).  Operators take the state w of the   *)
(* server, as the C functions do, and return it changed; timers are on or off,  *)
(* and the clock is free to make them expire in any order.                      *)
EXTENDS Integers, FiniteSets

\* An assertion of the source fails: the process ends.
Fault(w, what) == [w EXCEPT !.fault = IF @ = "none" THEN what ELSE @]

\* Mutant: the application is told nothing.
HandleSessionInvalidate_Silently(w) == w

\* HAPBLEPeripheralManagerHandleSessionInvalidate: the application is told that nobody is
\* subscribed any more.
HandleSessionInvalidate(w) == [w EXCEPT !.told = @ \ w.subscribed]

CancelCentralConnection(w) == [w EXCEPT !.cancel = TRUE]

\* HAPBLESessionInvalidate
InvalidateBLE(w, terminateLink) ==
  LET v == [w EXCEPT !.link = "off", !.pairingTimer = FALSE, !.terminal = @ \/ terminateLink]
  IN  IF terminateLink /\ w.safe /\ w.connected THEN CancelCentralConnection(v) ELSE v

\* HAPSessionInvalidate
Invalidate(w, terminateLink) ==
  LET v == IF w.active THEN HandleSessionInvalidate(w) ELSE w
  IN  InvalidateBLE([v EXCEPT !.active = FALSE, !.verify = 0, !.verified = FALSE, !.removing = 0],
                    terminateLink)

\* HAPSessionIsSecured: the pairing the session was verified with is still stored.
IsSecured(w) == w.active /\ w.paired
\* History: a session that is active then has been orphaned.
Unpaired(w) == [w EXCEPT !.paired = FALSE, !.orphaned = IF w.active THEN "now" ELSE @]

\* HAPSessionCreate and HAPBLESessionCreate
CreateSession(w) ==
  [w EXCEPT !.active = FALSE, !.verify = 0, !.verified = FALSE, !.removing = 0, !.link = "on",
            !.pairingTimer = FALSE, !.terminal = FALSE, !.safe = TRUE, !.safeTimer = FALSE]

\* HAPSessionRelease and HAPBLESessionRelease
ReleaseSession(w) ==
  [Invalidate(w, TRUE) EXCEPT !.link = "off", !.pairingTimer = FALSE, !.safeTimer = FALSE,
                              !.terminal = FALSE, !.safe = FALSE]

\* HAPBLESessionIsTerminalSoon: the deadline has to be reached, for the difference of the
\* clock and the deadline is taken the wrong way round.
IsTerminalSoon(w) == w.terminal \/ w.link = "due"

\* HAPBLESessionDidSendGATTResponse: the timer starts again with every response.
DidSendGATTResponse(w) == [w EXCEPT !.safe = FALSE, !.safeTimer = TRUE]

\* HAPBLESessionDidStartBLEProcedure
DidStartBLEProcedure(w) ==
  IF w.terminal THEN w ELSE [w EXCEPT !.link = IF IsSecured(w) THEN "on" ELSE "off"]

\* HAPBLESessionDidStartPairingProcedure
DidStartPairingProcedure(w) == IF w.terminal THEN w ELSE [w EXCEPT !.pairingTimer = TRUE]

\* HAPBLESessionDidCompletePairingProcedure
DidCompletePairingProcedure(w, procedure) ==
  IF w.terminal THEN w
  ELSE [w EXCEPT !.pairingTimer = FALSE,
                 !.link = IF procedure = "verify" /\ IsSecured(w) THEN "on" ELSE @]

\* LinkTimerOrPairingProcedureTimerExpired and SafeToDisconnectTimerExpired
LinkTimerExpired(w) == Invalidate([w EXCEPT !.link = "off"], TRUE)
PairingProcedureTimerExpired(w) == Invalidate([w EXCEPT !.pairingTimer = FALSE], TRUE)
SafeToDisconnectTimerExpired(w) ==
  LET v == [w EXCEPT !.safeTimer = FALSE, !.safe = TRUE]
  IN  IF w.terminal \/ w.state # "Running" THEN CancelCentralConnection(v) ELSE v

-----------------------------------------------------------------------------
(* Pair Verify and the removal of the pairing, as far as the session sees them: *)
(* a procedure's messages are numbered from 1, and 0 is no procedure.  Each      *)
(* operator is the set of the ways a message may be taken.                       *)

\* HAPPairingPairVerifyStartSession and HAPBLEPeripheralManagerHandleSessionAccept: the
\* application is told of what is subscribed already; events that wait for the session are sent
\* when the request is done.  If the pairing has been removed since it was looked up, an
\* assertion fails.
StartSession(u) ==
  LET w == IF u.paired THEN u ELSE Fault(u, "sessionAccept") IN [w EXCEPT !.active = TRUE, !.verify = 0, !.verified = FALSE, !.told = @ \cup w.subscribed]

Taken(w) == [err |-> FALSE, w |-> w]
NotTaken(w) == [err |-> TRUE, w |-> w]

\* HAPSessionStartPairingProcedure, while a procedure is under way
Started(w, procedure) == IF w[procedure] # 0 THEN DidStartPairingProcedure(w) ELSE w
\* HAPSessionCompletePairingProcedure, when it is over.  A message that is not taken
\* leaves the timer running.
Ended(w, procedure) == IF w[procedure] = 0 THEN DidCompletePairingProcedure(w, procedure) ELSE w

\* HAPSessionHandlePairVerifyWrite: M1 at any time, M3 after M2.  Resuming a session and
\* the proof of M3 need the pairing to be stored when the message is written.
PairVerifyWrite(u) ==
  LET w == Started(u, "verify")
  IN  {Taken([w EXCEPT !.verify = 1, !.verified = found]) : found \in {FALSE, w.paired}}
        \cup (IF w.verify = 2
              THEN {Taken([w EXCEPT !.verify = 3, !.verified = found]) : found \in {FALSE, w.paired}} ELSE {})
        \cup {NotTaken([w EXCEPT !.verify = 0, !.verified = FALSE])}

\* HAPSessionHandlePairVerifyRead: M2, M4 or the error the message before has led to
PairVerifyRead(u) ==
  LET w == Started(u, "verify")
  IN  CASE w.verify \in {1, 3} /\ w.verified -> {Taken(Ended(StartSession(w), "verify"))}
        [] w.verify = 1 /\ ~w.verified -> {Taken([w EXCEPT !.verify = 2]), Taken(Ended([w EXCEPT !.verify = 0], "verify"))}
        [] w.verify = 3 /\ ~w.verified -> {Taken(Ended([w EXCEPT !.verify = 0], "verify"))}
        [] OTHER -> {NotTaken([w EXCEPT !.verify = 0, !.verified = FALSE])}

\* HAPSessionHandlePairingsWrite and HAPSessionHandlePairingsRead, of a session whose pairing
\* is stored: it may remove its pairing, or do something else.
PairingsWrite(u) ==
  LET w == Started(u, "removing")
  IN  {IF w.removing = 0 THEN Taken([w EXCEPT !.removing = 1]) ELSE NotTaken([w EXCEPT !.removing = 0])}

PairingsRead(u) ==
  LET w == Started(u, "removing")
  IN  IF w.removing = 1
      THEN {Taken(Ended([v EXCEPT !.removing = 0], "removing")) : v \in {w, Unpaired(w)}}
      ELSE {NotTaken(w)}

=============================================================================
