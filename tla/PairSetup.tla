----------------------------- MODULE PairSetup -----------------------------
(***************************************************************************)
(* Pair Setup (HAP/HAPPairingPairSetup.c): the procedure in which a        *)
(* controller that knows the setup code becomes the first pairing of an    *)
(* accessory. It has six messages, M1 to M6; the odd ones are written by   *)
(* the controller, the even ones are read. The procedure's state is        *)
(* shared: one session at a time claims it.                                *)
(*                                                                         *)
(* An IP server writes and reads in one callback; over Bluetooth LE the    *)
(* read may follow the write at any later time.                            *)
(***************************************************************************)
EXTENDS SetupInfo

CONSTANTS
  NoSession,
  MaxTries     \* after so many wrong proofs no attempt is started

ASSUME PairSetupAssumption ==
  /\ NoSession \notin Sessions
  /\ MaxTries \in Nat \ {0}

VARIABLES
  serverState, \* server->state; "Drained": the IP engine is idle, the shutdown not complete
  open,       \* sessions with a connection
  updating,   \* callbackTimer is registered
  attempts,   \* wrong proofs so far (persistent)
  procedure,  \* server->pairSetup
  session,    \* session->state.pairSetup of every session
  transient,  \* sessions secured by a transient Pair Setup procedure
  pending     \* the IP session that has written and not yet read

setupVars == <<platform, paired, setup, serverState, open, updating, attempts, procedure, session,
          transient, pending>>

\* kHAPPairingMethod_PairSetup is 0, and so are the fields of a session that is reset.
Ready == [state |-> 0, method |-> "PairSetup", error |-> FALSE]
Unclaimed == [session |-> NoSession, flags |-> {}, expired |-> FALSE, code |-> NoCode, proof |-> NoCode]

HasIP == ~(platform.sessions \subseteq BLE)

\* The messages a controller may write: those with an invalid field are like one of
\* another state, except that every M1 ends the procedure of the session it comes from.
Messages ==
  [state : {1}, method : {"PairSetup", "PairSetupWithAuth", "invalid"}, flags : SUBSET {"Transient", "Split"}]
    \cup [state : {3}, proof : AllCodes \cup {NoCode}]
    \cup [state : {5}, good : BOOLEAN]
    \cup [state : {7}]

\* The process starts: nothing but paired and attempts is persistent.
Created ==
  /\ setup = NoSetup
  /\ serverState = "Idle"
  /\ open = {}
  /\ updating = FALSE
  /\ procedure = Unclaimed
  /\ session = [s \in Sessions |-> Ready]
  /\ transient = {}
  /\ pending = NoSession

SetupInit ==
  /\ platform \in Platforms
  /\ paired = FALSE
  /\ attempts = 0
  /\ Created

-----------------------------------------------------------------------------
(* The parts of a handler act on the shared state w in the order of the code. *)

Now == [setup |-> setup, procedure |-> procedure, session |-> session]

\* HAPPairingPairSetupResetForSession for the sessions of T.
Resets(w, T, keepSetupInfo) ==
  LET claimed == w.procedure.session \in T
  IN {[ setup     |-> S,
        procedure |-> IF claimed THEN Unclaimed ELSE w.procedure,
        session   |-> [s \in Sessions |-> IF s \in T THEN Ready ELSE w.session[s]] ] :
          S \in IF claimed THEN PairingStop(w.setup, keepSetupInfo) ELSE {w.setup}}

\* The procedure of w's claimer is given up in favour of a new one with the same code.
Aborted(w) ==
  {[v EXCEPT !.setup.keep = FALSE] : v \in Resets(w, {w.procedure.session}, TRUE)}

\* An M1 from the session that has claimed the procedure starts it again.
Retried(w, s, m) ==
  IF w.procedure.session = s /\ m.state = 1 THEN Aborted(w) ELSE {w}

\* Another session's procedure is taken over after its time-out.
TakenOver(w, s) ==
  IF w.procedure.session \notin {NoSession, s} /\ w.procedure.expired THEN Aborted(w) ELSE {w}

\* Whatever the first message of a session is, it claims the procedure if it can.
Claimed(w, s) ==
  IF w.session[s].state # 0 \/ paired THEN {w}
  ELSE UNION {IF v.procedure.session # NoSession THEN {v}
              ELSE {[v EXCEPT !.setup = S, !.procedure.session = s] : S \in PairingStart(v.setup)} :
                v \in TakenOver(w, s)}

\* The run loop may call something: no callback is under way, nothing has failed.
Quiet == setup.fault = "none" /\ pending = NoSession

\* HAPSessionIsTransient asserts that a transient session's accessory is not paired. It is
\* evaluated for the sessions of T.
AssertionFails(T) == paired /\ transient \cap T # {}

\* The sessions that a pair-setup request of s looks at: over IP the other IP sessions, to close
\* the transient ones, over Bluetooth LE itself, to drop its security.
LookedAt(s) == IF s \in BLE THEN {s} ELSE Sessions \ (BLE \cup {s})

\* s writes m: the shared state when the switch on the session's state is reached.
Arrives(s, m) ==
  UNION {UNION {Claimed(v, s) : v \in Retried(u, s, m)} : u \in Resets(Now, transient \cap LookedAt(s), FALSE)}

\* A request is written by s. Transient IP sessions, being secured, are refused.
Writes(s) ==
  /\ Quiet /\ s \in open
  /\ s \in transient => s \in BLE
  /\ ~AssertionFails(LookedAt(s))
  /\ transient' = transient \ LookedAt(s)
  /\ open' = open \ ((transient \cap LookedAt(s)) \ {s})
  /\ UNCHANGED <<platform, serverState, attempts>>

Becomes(w) == setup' = w.setup /\ procedure' = w.procedure /\ session' = w.session

\* The IP session goes on to read.
Answers(s) == pending' = (IF s \in BLE THEN NoSession ELSE s)

\* HAPPairingPairSetupProcessM1. Flags count only if the procedure has been claimed.
WriteM1(s, m) ==
  /\ Writes(s) /\ Answers(s)
  /\ m.state = 1 /\ m.method # "invalid"
  /\ \E w \in Arrives(s, m) :
       /\ w.session[s].state = 0
       /\ Becomes([w EXCEPT !.session[s] = [state |-> 1, method |-> m.method, error |-> FALSE],
                            !.procedure.flags = IF w.procedure.session = s THEN m.flags ELSE w.procedure.flags])
  /\ UNCHANGED <<paired, updating>>

\* HAPPairingPairSetupProcessM3
WriteM3(s, m) ==
  /\ Writes(s) /\ Answers(s)
  /\ m.state = 3
  /\ \E w \in Arrives(s, m) :
       /\ w.session[s].state = 2
       /\ Becomes([w EXCEPT !.session[s].state = 3, !.procedure.proof = m.proof])
  /\ UNCHANGED <<paired, updating>>

\* HAPPairingPairSetupProcessM5: the pairing is stored, or an error is, for the read.
\* A failure of the store is an error that HandleWrite does not expect.
WriteM5(s, m) ==
  /\ Writes(s) /\ Answers(s)
  /\ m.state = 5
  /\ \E w \in Arrives(s, m), stored \in BOOLEAN :
       /\ w.session[s].state = 4
       /\ Becomes([w EXCEPT !.session[s].state = 5, !.session[s].error = ~m.good,
                            !.setup = Unless(w.setup, m.good /\ ~stored, "storage")])
       /\ paired' = (paired \/ (m.good /\ stored))
       /\ updating' = (updating \/ paired' # paired)

\* Any other message resets the procedure, after it may have claimed it.
WriteUnexpected(s, m) ==
  /\ Writes(s) /\ pending' = NoSession
  /\ \E w \in Arrives(s, m) :
       /\ m.state = w.session[s].state + 1 => m.state = 1 /\ m.method = "invalid"
       /\ \E v \in Resets(w, {s}, FALSE) : Becomes(v)
  /\ UNCHANGED <<paired, updating>>

\* What cannot be parsed resets it at once.
WriteUnparsable(s) ==
  /\ Writes(s) /\ pending' = NoSession
  /\ \E v \in Resets(Now, (transient \cap LookedAt(s)) \cup {s}, FALSE) : Becomes(v)
  /\ UNCHANGED <<paired, updating>>

-----------------------------------------------------------------------------
\* s may read the answer (HAPPairingPairSetupHandleRead), and does.
MayRead(s) ==
  /\ setup.fault = "none" /\ s \in open
  /\ pending = (IF s \in BLE THEN NoSession ELSE s)
  /\ ~AssertionFails(LookedAt(s) \cap {s})

Reads(s) ==
  /\ MayRead(s)
  /\ pending' = NoSession
  /\ UNCHANGED <<platform, paired, serverState, open, updating>>

\* The flags count only for Pair Setup without authentication; a transient procedure
\* never restores a code. (M4 does not look at the method.)
Restores(flags) == "Split" \in flags /\ "Transient" \notin flags
RestoresM2(s) == session[s].method = "PairSetup" /\ Restores(procedure.flags)

\* An answer that ends the procedure of s: an error, or M6.
ReadsLast(s) ==
  /\ Reads(s)
  /\ \E v \in Resets(Now, {s}, FALSE) : Becomes(v)
  /\ transient' = transient \ {s}
  /\ UNCHANGED attempts

\* An error is pending, no answer is expected, or the answer cannot be composed.
ReadError(s) ==
  /\ session[s].error \/ session[s].state \in {0, 1, 2, 3, 4}
  /\ ReadsLast(s)

\* Mutant: another controller's procedure is not noticed.
RefusesM2_NotBusy(s) ==
  \/ procedure.session = NoSession \/ paired
  \/ attempts >= MaxTries
  \/ RestoresM2(s) /\ setup.code = NoCode

\* Mutant: one try too many.
RefusesM2_OneMore(s) ==
  \/ procedure.session = NoSession \/ paired
  \/ attempts > MaxTries
  \/ procedure.session # s
  \/ RestoresM2(s) /\ setup.code = NoCode

\* HAPPairingPairSetupGetM2 refuses: Unavailable, MaxTries, Busy, or nothing to restore.
RefusesM2(s) ==
  \/ procedure.session = NoSession \/ paired
  \/ attempts >= MaxTries
  \/ procedure.session # s
  \/ RestoresM2(s) /\ setup.code = NoCode

ReadM2(s) ==
  /\ session[s].state = 1
  /\ Reads(s)
  /\ IF RefusesM2(s)
     THEN \E v \in Resets(Now, {s}, FALSE) : Becomes(v)
     ELSE \E S \in GetSetupInfo(setup, RestoresM2(s)) :
            Becomes([Now EXCEPT !.setup = S, !.procedure.code = S.code, !.session[s].state = 2])
  /\ UNCHANGED <<attempts, transient>>

\* Mutant: any proof will do that a legal key was given for.
Proves_Any(S) == procedure.proof # NoCode

\* The proof of M3 is good: it was made for the code that B was made from in M2, and that
\* is the code whose verifier is in S.
Proves(S) == procedure.proof = procedure.code /\ procedure.proof = S.code

\* HAPPairingPairSetupGetM4, the proof is wrong. With an illegal key, it is not counted.
RejectsProof(s, w) ==
  /\ ~Proves(w.setup)
  /\ attempts' = attempts + (IF procedure.proof = NoCode THEN 0 ELSE 1)
  /\ \E v \in Resets(w, {s}, FALSE) : Becomes(v)
  /\ UNCHANGED transient

\* The proof is right: M4 is sent, or it is the last message of a transient procedure, or
\* it fails for lack of a coprocessor or of room.
AcceptsProof(s, w) ==
  /\ Proves(w.setup)
  /\ attempts' = 0
  /\ LET transientSetup == session[s].method = "PairSetup" /\ "Transient" \in procedure.flags
     IN \/ /\ ~transientSetup
           /\ Becomes([w EXCEPT !.session[s].state = 4])
           /\ UNCHANGED transient
        \/ /\ transientSetup
           /\ \E v \in Resets(w, {s}, "Split" \in procedure.flags) : Becomes(v)
           /\ transient' = transient \cup {s}
        \/ /\ \E v \in Resets(w, {s}, FALSE) : Becomes(v)
           /\ UNCHANGED transient

ReadM4(s) ==
  /\ session[s].state = 3
  /\ Reads(s)
  /\ \E S \in GetSetupInfo(setup, Restores(procedure.flags)) :
       RejectsProof(s, [Now EXCEPT !.setup = S]) \/ AcceptsProof(s, [Now EXCEPT !.setup = S])

\* The identifier for M6 cannot be read from the store: an error that HandleRead does not
\* expect.
StorageFails(s) ==
  /\ MayRead(s)
  /\ setup' = Unless(setup, TRUE, "storage")
  /\ UNCHANGED <<platform, paired, serverState, open, updating, attempts, procedure, session, transient, pending>>

\* HAPPairingPairSetupGetM6
ReadM6(s) ==
  /\ session[s].state = 5 /\ ~session[s].error
  /\ ReadsLast(s) \/ StorageFails(s)

-----------------------------------------------------------------------------
\* A controller connects. Sessions of the other transport do not exist.
Open(s) ==
  /\ Quiet /\ serverState = "Running"
  /\ s \in platform.sessions \ open
  /\ open' = open \cup {s}
  /\ UNCHANGED <<platform, paired, setup, serverState, updating, attempts, procedure, session, transient, pending>>

\* Mutant: the session's security outlives its connection.
Close_KeepsSecurity(s) ==
  /\ Quiet /\ s \in open
  /\ open' = open \ {s}
  /\ \E w \in Resets(Now, {s}, FALSE) : Becomes(w)
  /\ UNCHANGED <<platform, paired, serverState, updating, attempts, transient, pending>>

\* HAPSessionInvalidate, and the connection ends: the controller closes it, or a time-out
\* of its transport. Without an IP engine, a stop that has waited for it is completed.
Close(s) ==
  /\ Quiet /\ s \in open
  /\ open' = open \ {s}
  /\ transient' = transient \ {s}
  /\ \E w \in Resets(Now, {s}, FALSE) :
       IF serverState = "Stopping" /\ ~HasIP
       THEN Becomes([w EXCEPT !.setup = ServerStop(w.setup)]) /\ serverState' = "Idle"
       ELSE Becomes(w) /\ UNCHANGED serverState
  /\ updating' = (updating \/ (serverState = "Stopping" /\ HasIP /\ s \in BLE))
  /\ UNCHANGED <<platform, paired, attempts, pending>>

\* 30 seconds since the procedure was claimed.
TimeOut ==
  /\ Quiet
  /\ procedure.session # NoSession /\ ~procedure.expired
  /\ procedure' = [procedure EXCEPT !.expired = TRUE]
  /\ UNCHANGED <<platform, paired, setup, serverState, open, updating, attempts, session, transient, pending>>

\* HAPAccessoryServerStart
StartServer ==
  /\ Quiet /\ serverState = "Idle"
  /\ serverState' = "Running"
  /\ updating' = TRUE
  /\ setup' \in ServerStart(setup)
  /\ UNCHANGED <<platform, paired, open, attempts, procedure, session, transient, pending>>

\* HAPAccessoryServerStop. With an IP engine the shutdown is completed later, by UpdateState;
\* a Bluetooth LE connection holds it up.
StopServer ==
  /\ Quiet /\ serverState = "Running"
  /\ IF ~HasIP /\ open = {}
     THEN serverState' = "Idle" /\ setup' = ServerStop(setup)
     ELSE serverState' = "Stopping" /\ UNCHANGED setup
  /\ updating' = (updating \/ (HasIP /\ open \cap BLE = {}))
  /\ UNCHANGED <<platform, paired, open, attempts, procedure, session, transient, pending>>

\* The IP engine has collected the last session (see IPAccessoryServer).
EngineIdle ==
  /\ Quiet /\ serverState = "Stopping" /\ HasIP /\ open = {}
  /\ serverState' = "Drained"
  /\ updating' = TRUE
  /\ UNCHANGED <<platform, paired, setup, open, attempts, procedure, session, transient, pending>>

\* CompleteShutdown asserts that nobody is pairing.
Shutdown(S) == ServerStop(Unless(S, procedure.session # NoSession, "shutdown"))

\* CallbackTimerExpired
UpdateState ==
  /\ Quiet /\ updating
  /\ updating' = FALSE
  /\ \E S \in StateUpdate(setup) :
       IF serverState = "Drained"
       THEN setup' = Shutdown(S) /\ serverState' = "Idle"
       ELSE setup' = S /\ UNCHANGED serverState
  /\ UNCHANGED <<platform, paired, open, attempts, procedure, session, transient, pending>>

\* The last admin pairing is removed, by a controller with a verified session.
RemovePairing ==
  /\ Quiet /\ paired /\ serverState \in {"Running", "Stopping"}
  /\ paired' = FALSE
  /\ updating' = TRUE
  /\ UNCHANGED <<platform, setup, serverState, open, attempts, procedure, session, transient, pending>>

\* A timer of the setup code expires, or the application calls while the server is not idle.
SetupInfoChanges ==
  /\ Quiet
  /\ \/ setup.refresh /\ setup' \in DynamicSetupInfoExpired(setup)
     \/ setup.nfc /\ setup' = NFCPairingModeLeft(setup)
     \/ serverState # "Idle" /\ platform.display /\ setup' \in RefreshSetupPayload(setup)
     \/ serverState # "Idle" /\ platform.nfc /\ setup' \in EnterNFCPairingMode(setup)
  /\ UNCHANGED <<platform, paired, serverState, open, updating, attempts, procedure, session, transient, pending>>

\* A request of s is the one that finds an assertion about transient sessions violated.
RequestAborts(s) ==
  /\ Quiet /\ s \in open
  /\ AssertionFails(LookedAt(s) \cup {s})
  /\ setup' = Unless(setup, TRUE, "transient")
  /\ UNCHANGED <<platform, paired, serverState, open, updating, attempts, procedure, session, transient, pending>>

\* Mutant: wrong proofs are counted in memory only.
Restart_ForgetsTries ==
  /\ setup' = NoSetup
  /\ serverState' = "Idle"
  /\ open' = {}
  /\ updating' = FALSE
  /\ procedure' = Unclaimed
  /\ session' = [s \in Sessions |-> Ready]
  /\ transient' = {}
  /\ pending' = NoSession
  /\ attempts' = 0
  /\ UNCHANGED <<platform, paired>>

\* The process ends, after a failed assertion or at any other time, and is started again.
Restart ==
  /\ setup' = NoSetup
  /\ serverState' = "Idle"
  /\ open' = {}
  /\ updating' = FALSE
  /\ procedure' = Unclaimed
  /\ session' = [s \in Sessions |-> Ready]
  /\ transient' = {}
  /\ pending' = NoSession
  /\ UNCHANGED <<platform, paired, attempts>>

SetupNext ==
  \/ \E s \in Sessions :
       \/ \E m \in Messages : WriteM1(s, m) \/ WriteM3(s, m) \/ WriteM5(s, m) \/ WriteUnexpected(s, m)
       \/ WriteUnparsable(s)
       \/ ReadM2(s) \/ ReadM4(s) \/ ReadM6(s) \/ ReadError(s)
       \/ Open(s) \/ Close(s)
       \/ RequestAborts(s)
  \/ TimeOut \/ StartServer \/ StopServer \/ EngineIdle \/ UpdateState
  \/ RemovePairing \/ SetupInfoChanges \/ Restart

SetupSpec == SetupInit /\ [][SetupNext]_setupVars

-----------------------------------------------------------------------------
\* Types.
SetupTypeOK ==
  /\ platform \in Platforms
  /\ paired \in BOOLEAN
  /\ setup \in Setups
  /\ serverState \in {"Idle", "Running", "Stopping", "Drained"}
  /\ open \subseteq platform.sessions
  /\ updating \in BOOLEAN
  /\ attempts \in Nat
  /\ procedure \in [session : Sessions \cup {NoSession}, flags : SUBSET {"Transient", "Split"},
                    expired : BOOLEAN, code : AllCodes \cup {NoCode}, proof : AllCodes \cup {NoCode}]
  /\ session \in [Sessions -> [state : 0..5, method : {"PairSetup", "PairSetupWithAuth"}, error : BOOLEAN]]
  /\ transient \subseteq open
  /\ pending \in Sessions \cup {NoSession}

\* Assertions that legal calls do violate (README); no other one fails, in any order of
\* messages, timers, calls of the application, connections and restarts.
KnownFailures == {"payload", "accessory", "transient", "storage"}
OtherAssertionsHold == setup.fault \in KnownFailures \cup {"none"}

\* Two controllers are never in the middle of Pair Setup: a session that has been given
\* an M2 holds the procedure (M3 to M6 read and write its keys), and whoever holds it has
\* a connection and has been answered or will be.
OneProcedure ==
  /\ \A s \in Sessions : session[s].state >= 2 => procedure.session = s
  /\ procedure.session # NoSession => procedure.session \in open /\ session[procedure.session].state > 0

\* "During a pairing attempt the protocol does not allow changing the setup code": from M2
\* on the code is the one that B was made from, and no timer is left to replace it.
CodeIsFixed ==
  \A s \in Sessions :
    session[s].state >= 2 => setup.code = procedure.code /\ setup.lock /\ ~setup.refresh

\* No more wrong proofs than MaxTries are ever verified, whoever gives them on
\* however many sessions, and across restarts.
TriesLimited == attempts <= MaxTries

\* An accessory that can be paired shows how: its display has the current code, and
\* its tag the same while it is in NFC pairing mode.
CodeShown ==
  setup.fault = "none" /\ serverState \in {"Running", "Stopping"} =>
    /\ platform.display => setup.display = setup.code
    /\ platform.display /\ ~paired /\ ~updating => setup.code # NoCode
    /\ setup.tag \in {NoCode, setup.code} /\ (setup.tag # NoCode => setup.nfc)

\* A controller that pairs sees, from its first message on, the one code its proof will be
\* checked with, whatever timers, NFC and other sessions do to the setup code meanwhile.
CodeSettled == CodeIsFixed /\ CodeShown

\* An accessory is paired only by a controller that has proved to know the code it shows.
PairedByProof ==
  [][~paired /\ paired' => /\ procedure.session # NoSession
                           /\ procedure.proof = setup.code
                           /\ platform.display => setup.display = procedure.proof]_setupVars

\* Wrong proofs are forgotten only for the sake of a right one.
TriesRemembered ==
  [][attempts' < attempts => \E s \in Sessions : session[s].state = 3 /\ procedure.proof = setup.code]_setupVars

\* HandleAccessoryServerStop "invalidates generated setup codes for displays".
StoppedHasNoCode == serverState = "Idle" => setup.code = NoCode

=============================================================================
