------------------------------ MODULE MFiHWAuth ------------------------------
(* The Apple Authentication Coprocessor and the server's use of it (HAP/HAPMFiHWAuth.c):  *)
(* it is switched on when it is needed and off again by a timer, but not before its event *)
(* counter has run down; certificate and signature are read from its registers, and any   *)
(* access of a register may fail.                                                         *)
EXTENDS Integers, Sequences

CONSTANTS
  MaxCounter,          \* bound on the System Event Counter
  Challenges,
  CertificateLengths,  \* what the coprocessor may say about its certificate
  MaxCertificateBytes  \* of the buffer for it

MFiHWAuthAssumption == MaxCounter \in Nat /\ CertificateLengths \subseteq Nat /\ MaxCertificateBytes \in Nat

VARIABLE m

NoTimer == -1
NoChallenge == <<>>

\* The coprocessor: its registers are lost without power, but for the event counter.
PoweredOff(v) ==
  [v EXCEPT !.on = FALSE, !.error = FALSE, !.challenge = NoChallenge, !.response = NoChallenge, !.status = "none"]

Init ==
  \E protocol \in {1, 2, 3} :
    m = [created |-> TRUE, powerOffTimer |-> NoTimer, fault |-> "none",
         on |-> FALSE, protocol |-> protocol, counter |-> 0,
         error |-> FALSE, challenge |-> NoChallenge, response |-> NoChallenge, status |-> "none",
         \* what the last call has returned, and history: whether the power was lost too early,
         \* and whether the server has given up switching it off
         err |-> "None", result |-> <<>>, cutOff |-> FALSE, leftOn |-> FALSE]

-----------------------------------------------------------------------------
(* Accesses of registers, as sets of what may come out                                    *)

Failed(v) == [v EXCEPT !.err = "Unknown"]

\* HAP_MFI_HW_AUTH_READ_OR_RETURN_FAIL_VALUE, ..._WRITE_...: the next access is made only if
\* all before have succeeded.
Then(outcomes, Access(_)) == UNION {IF v.err = "None" THEN {Failed(v)} \cup Access(v) ELSE {v} : v \in outcomes}

\* The error code is cleared by reading it.
ResetError(v) == {[v EXCEPT !.error = FALSE]}
CheckError(v) == {IF v.error THEN Failed([v EXCEPT !.error = FALSE]) ELSE v}

\* Anything that is only read
Unchanged(v) == {v}
OrRefused(v) == {v, Failed(v)}

SupportedVersion(v) == {IF v.protocol \in {2, 3} THEN v ELSE Failed(v)}

-----------------------------------------------------------------------------
(* Power                                                                                  *)

\* HAPMFiHWAuthIsSafeToRelease: what cannot be read is taken to be safe.
Safety == {"none", "version", "counter"}
IsSafe(v, unreadable) == unreadable = "version" \/ v.protocol # 2 \/ unreadable = "counter" \/ v.counter = 0

\* Mutant: safe as soon as the counter can be read.
IsSafeToRelease_AnyCount(v, unreadable) == v.on

IsSafeToRelease(v, unreadable) == v.on /\ IsSafe(v, unreadable)

\* PowerOffTimerExpired. Without another timer it is left on.
PowerOffTimerExpired ==
  /\ m.powerOffTimer = 0
  /\ LET v == [m EXCEPT !.powerOffTimer = NoTimer, !.fault = IF m.on THEN @ ELSE "poweredOff"]
     IN  \E unreadable \in Safety :
           IF IsSafeToRelease(v, unreadable)
           THEN m' = [PoweredOff(v) EXCEPT !.cutOff = v.protocol = 2 /\ v.counter > 0 /\ unreadable = "none"]
           ELSE \/ m' = [v EXCEPT !.powerOffTimer = 1]
                \/ m' = [v EXCEPT !.leftOn = TRUE]

\* Mutant: the timer is not started when the power is on already.
Enable_OnceOn(v) ==
  IF v.on THEN {[v EXCEPT !.powerOffTimer = NoTimer]}
  ELSE {Failed(v), [v EXCEPT !.on = TRUE, !.powerOffTimer = 3], [v EXCEPT !.on = TRUE, !.leftOn = TRUE]}

\* HAPMFiHWAuthEnable, at the beginning of a call
Enable(v) ==
  IF v.on THEN {v}
  ELSE {Failed(v), [v EXCEPT !.on = TRUE, !.powerOffTimer = 3], [v EXCEPT !.on = TRUE, !.leftOn = TRUE]}

Begin == [m EXCEPT !.err = "None", !.result = <<>>]

-----------------------------------------------------------------------------
(* Calls of the server                                                                    *)

\* HAPMFiHWAuthIsAvailable, with the self-test
SelfTest(v) == IF v.protocol = 2 THEN {v, [v EXCEPT !.error = TRUE]} ELSE {v}

IsAvailable ==
  /\ m.created
  /\ m' \in Then(Then(Then(Then(Then(Enable(Begin), ResetError), Unchanged), CheckError), SelfTest), OrRefused)

\* The certificate is read in parts of 128 bytes, of which the coprocessor has 5 or 10.
NumParts(n) == (n + 127) \div 128

ReadCertificate(v) ==
  {IF n \notin (IF v.protocol = 3 THEN 607 .. 609 ELSE 0 .. 1280) THEN Failed(v)
   ELSE IF n > MaxCertificateBytes THEN [v EXCEPT !.err = "OutOfResources"]
   ELSE [v EXCEPT !.result = <<"certificate", n>>,
                  !.fault = IF NumParts(n) <= (IF v.protocol = 3 THEN 5 ELSE 10) THEN @ ELSE "tooManyParts"] :
     n \in CertificateLengths}

\* HAPMFiHWAuthCopyCertificate
CopyCertificate ==
  /\ m.created
  /\ m' \in Then(Then(Then(Then(Then(Enable(Begin), ResetError), SupportedVersion), ReadCertificate), OrRefused), CheckError)

\* The registers of a challenge are written one after the other.
WriteChallenge(challenge, v) == {[v EXCEPT !.challenge = <<challenge>>]}

\* The coprocessor signs the challenge it has, or refuses; either may be an event.
Signed(v, n) == [v EXCEPT !.counter = n, !.response = v.challenge, !.status = "signed"]
Refused(v, n, error) == [v EXCEPT !.counter = n, !.status = "refused", !.error = error]
Sign(v) ==
  LET counts == {v.counter, MaxCounter}
  IN  {Signed(v, n) : n \in counts} \cup {Refused(v, n, error) : n \in counts, error \in BOOLEAN}

\* Mutant: the status is not looked at.
ReadStatus_Any(v) == {v}

ReadStatus(v) == {IF v.status = "signed" THEN v ELSE Failed(v)}

\* The length of the response is checked, too.
ReadResponse(v) == {[v EXCEPT !.result = <<"signature", v.response>>], Failed(v)}

\* HAPMFiHWAuthCreateSignature
CreateSignature(challenge) ==
  /\ m.created
  /\ LET Challenge(v) == WriteChallenge(challenge, v)
         asked == Then(Then(Then(Enable(Begin), ResetError), SupportedVersion), Challenge)
     IN  \E v \in Then(Then(Then(Then(asked, Sign), ReadStatus), ReadResponse), CheckError) :
           m' = IF v.err = "None" THEN [v EXCEPT !.result = @ \o <<challenge>>] ELSE v

\* HAPMFiHWAuthRelease, HAPMFiHWAuthCreate: the power stays as it is.
Release ==
  /\ m.created
  /\ m' = [Begin EXCEPT !.created = FALSE, !.powerOffTimer = NoTimer, !.leftOn = m.on]

Create == ~m.created /\ m' = [Begin EXCEPT !.created = TRUE]

\* A second: timers that are due have been served.
Tick ==
  /\ m.powerOffTimer > 0 \/ (m.powerOffTimer = NoTimer /\ m.on /\ m.counter > 0)
  /\ m' = [m EXCEPT !.powerOffTimer = IF @ > 0 THEN @ - 1 ELSE @,
                    !.counter = IF m.on /\ @ > 0 THEN @ - 1 ELSE @]

Next ==
  \/ PowerOffTimerExpired \/ IsAvailable \/ CopyCertificate
  \/ \E challenge \in Challenges : CreateSignature(challenge)
  \/ Release \/ Create \/ Tick

-----------------------------------------------------------------------------
\* The power is not removed before the event counter has run down, unless the counter could not
\* be read; while it is on, a timer is registered that will remove it, unless there was none to
\* be had or a server has been released meanwhile, and no timer outlives it. A signature that
\* is returned is one of the challenge it was asked for and not of an earlier one, whatever
\* access of a register has failed in between (HAPMFiHWAuthEnable, PowerOffTimerExpired,
\* HAPMFiHWAuthCreateSignature).
CoprocessorServed ==
  /\ ~m.cutOff /\ m.fault = "none"
  /\ m.powerOffTimer # NoTimer => m.on
  /\ m.on /\ ~m.leftOn => m.powerOffTimer # NoTimer
  /\ m.result # <<>> /\ m.result[1] = "signature" /\ m.err = "None" => m.result[2] = <<m.result[3]>>

=============================================================================
