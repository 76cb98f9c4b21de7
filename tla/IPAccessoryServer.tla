--------------------------- MODULE IPAccessoryServer ---------------------------
(***************************************************************************)
(* The IP server engine of the HomeKit ADK (HAP/HAPIPAccessoryServer.c)    *)
(* together with the accessory server state it reports through             *)
(* (HAP/HAPAccessoryServer.c): session slots, the server's life cycle, the *)
(* zero-delay timers that finish work later, the idle and the event        *)
(* notification timers, event subscriptions and pending notifications.     *)
(*                                                                         *)
(* Everything runs on one run loop, so an action is one whole callback: a  *)
(* TCP event, a timer, or a call of the application.  Inside a callback    *)
(* the code changes several sessions one after the other; the operators    *)
(* below take and return the function of all sessions (or the set of its   *)
(* possible values) and are composed in the order of the calls.            *)
(***************************************************************************)
EXTENDS Integers, FiniteSets

CONSTANTS
  Slots,            \* storage->sessions: the session slots of the server
  Chars,            \* characteristics that support event notifications
  Immediate,        \* those exempt from coalescing (ProgrammableSwitchEvent)
  MaxSubscriptions, \* maxEventNotifications of a session
  InboundSize,      \* capacity of an inbound buffer, in units of a read
  OutboundSize,     \* largest response, in units of a write
  MaxIdle,          \* kHAPIPSession_MaxIdleTime, in ticks of the clock
  EventDelay,       \* kHAPIPAccessoryServer_MaxEventNotificationDelay, in ticks
  Pipelining,       \* may a client send a request before the last response?
  SpuriousWakeups,  \* may a ready stream turn out to be busy when read?
  Roomy,            \* slots whose outbound buffer takes any notification
  ReadsRaise,       \* do the application's read handlers raise events?
  OverBLE           \* is the accessory served over Bluetooth LE as well?

ASSUME ServerAssumption ==
  /\ IsFiniteSet(Slots) /\ Slots # {}
  /\ Immediate \subseteq Chars
  /\ MaxSubscriptions \in Nat
  /\ InboundSize \in Nat \ {0} /\ OutboundSize \in Nat \ {0}
  /\ MaxIdle \in Nat \ {0} /\ EventDelay \in Nat \ {0}
  /\ Roomy \subseteq Slots
  /\ {Pipelining, SpuriousWakeups, ReadsRaise, OverBLE} \subseteq BOOLEAN

VARIABLES
  state,        \* server->state
  ipState,      \* server->ip.state, which HAPAccessoryServerGetState returns
  listening,    \* is the TCP listener open?
  numSessions,  \* server->ip.numSessions
  sess,         \* the session descriptors, by slot
  due,          \* zero-delay timers registered and not fired yet
  idleTimer,    \* ticks until maxIdleTimeTimer fires, or Off
  eventTimer,   \* ticks until eventNotificationTimer fires, or Off
  orphan        \* is an event timer registered that the server has no handle of?

vars == <<state, ipState, listening, numSessions, sess, due, idleTimer,
          eventTimer, orphan>>

Off == -1

(***************************************************************************)
(* A session descriptor.  input is the position of the inbound buffer      *)
(* (bytes received and not consumed), output what is left to write, idle   *)
(* and quiet the time since stamp and since eventNotificationStamp, both   *)
(* capped at the limit they are compared with.  auth tells what            *)
(* HAPSessionIsSecured and HAPSessionIsTransient answer: "removed" is a    *)
(* verified session whose pairing is no longer in the key-value store.     *)
(***************************************************************************)
Session ==
  [state    : {"Free", "Reading", "Writing", "Idle"},
   input    : 0 .. InboundSize,
   output   : 0 .. OutboundSize,
   secured  : BOOLEAN,
   auth     : {"none", "transient", "verified", "removed"},
   subs     : SUBSET Chars,
   flags    : SUBSET Chars,
   idle     : 0 .. MaxIdle,
   quiet    : 0 .. EventDelay,
   interest : {"none", "read", "write"}]

FreeSession ==
  [state |-> "Free", input |-> 0, output |-> 0, secured |-> FALSE, auth |-> "none",
   subs |-> {}, flags |-> {}, idle |-> 0, quiet |-> 0, interest |-> "none"]

AcceptedSession ==
  [FreeSession EXCEPT !.state = "Reading", !.quiet = EventDelay, !.interest = "read"]

ClosedSession == [FreeSession EXCEPT !.state = "Idle"]

Live(r) == r.state \in {"Reading", "Writing"}
AtRest(r) == r.state = "Reading" /\ r.input = 0
HAPSessionIsSecured(r) == r.auth \in {"verified", "transient"}

\* The pairing of a session that has switched to encryption is gone.
PairingLost(r) == r.secured /\ ~HAPSessionIsSecured(r)

CloseSessions(S, closing) ==
  [s \in Slots |-> IF s \in closing THEN ClosedSession ELSE S[s]]

CloseSession(S, s) == CloseSessions(S, {s})

\* Mutant: closing a session registers no timer.
WithGarbage_None(S, d) == d

\* CloseSession registers the garbage collection timer unless it is registered.
WithGarbage(S, d) ==
  IF \E s \in Slots : S[s].state = "Idle" /\ sess[s].state # "Idle"
    THEN d \cup {"gc"} ELSE d

\* A timer for the first of the delays D, or no timer.
Earliest(D) ==
  IF D = {} THEN {Off} ELSE {d \in D : \A e \in D : d <= e}
--------------------------------------------------------------------------------
(***************************************************************************)
(* Events.                                                                 *)
(***************************************************************************)
\* Mutant: the raised event replaces those already pending.
RaiseEvent_Replaces(S, c, targets) ==
  [s \in Slots |->
     IF s \in targets /\ c \in S[s].subs
       THEN [S[s] EXCEPT !.flags = {c}] ELSE S[s]]

\* engine_raise_event: flag the event on the sessions that subscribed to it.
RaiseEvent(S, c, targets) ==
  [s \in Slots |->
     IF s \in targets /\ c \in S[s].subs
       THEN [S[s] EXCEPT !.flags = @ \cup {c}] ELSE S[s]]

Raised(S, T) == \E s \in Slots : T[s].flags \ S[s].flags # {}

\* The pending notifications write_event_notifications sends now.
Sendable(r) ==
  IF ~AtRest(r) THEN {}
  ELSE IF ~r.secured \/ r.quiet >= EventDelay THEN r.flags
  ELSE r.flags \cap Immediate

\* Mutant: the interest registered with the run loop stays as it was.
WriteEventNotifications_NoInterest(S, who, skipped) ==
  [s \in Slots |->
     LET r == S[s]
         cleared == [r EXCEPT !.flags = @ \ Sendable(r), !.quiet = 0]
     IN  IF s \notin who \/ Sendable(r) = {} THEN r
         ELSE IF ~r.secured \/ s \in skipped THEN cleared
         ELSE [cleared EXCEPT !.state = "Writing", !.output = OutboundSize]]

\* write_event_notifications on each session of who; those in skipped have no
\* room for the message, which clears the flags and sends nothing.
WriteEventNotifications(S, who, skipped) ==
  [s \in Slots |->
     LET r == S[s]
         stamped == IF ~r.secured \/ r.quiet >= EventDelay THEN 0 ELSE r.quiet
         cleared == [r EXCEPT !.flags = @ \ Sendable(r), !.quiet = stamped]
     IN  IF s \notin who \/ Sendable(r) = {} THEN r
         ELSE IF ~r.secured \/ s \in skipped THEN cleared
         ELSE [cleared EXCEPT !.state = "Writing", !.output = OutboundSize,
                              !.interest = "write"]]

\* First pass of schedule_event_notifications, when a read handler of the
\* application raises an event c half-way: the sessions of done come before.
InterruptedPass(S, done, c, skipped) ==
  LET T == WriteEventNotifications(S, done, skipped)
      U == RaiseEvent(T, c, Slots)
  IN  [sess   |-> WriteEventNotifications(U, Slots \ done, skipped),
       raised |-> Raised(T, U)]

\* First pass of schedule_event_notifications.
NotifyPass(S) ==
  LET ready == {s \in Slots : Sendable(S[s]) # {}}
      skips == SUBSET (ready \ Roomy)
      halves == IF ReadsRaise THEN {d \in SUBSET Slots : d \cap ready # {}} ELSE {}
  IN  {[sess |-> WriteEventNotifications(S, Slots, k), raised |-> FALSE] : k \in skips}
      \cup {InterruptedPass(S, d, c, k) : d \in halves, c \in Chars, k \in skips}

\* Mutant: no second pass.
NotifyDelays_None(S) == {}

\* Second pass: how long each session with notifications left has to wait.
NotifyDelays(S) ==
  {EventDelay - S[s].quiet : s \in {t \in Slots : AtRest(S[t]) /\ S[t].flags # {}}}

\* The second pass overwrites the handle of a timer that the first pass got
\* registered without deregistering it.
ScheduleEventNotifications(S) ==
  \E p \in NotifyPass(S) :
     LET delays == NotifyDelays(p.sess) IN
     /\ sess' = p.sess
     /\ eventTimer' \in IF p.raised /\ delays = {} THEN {0} ELSE Earliest(delays)
     /\ orphan' = (orphan \/ (p.raised /\ delays # {}))
--------------------------------------------------------------------------------
(***************************************************************************)
(* Requests.  Each operator is the set of values the sessions can have     *)
(* once handle_http_request has served one request of that kind on s.      *)
(***************************************************************************)
\* Mutant: other sessions are left alone.
CloseRemoved_None(S, s) == S

\* The sessions whose pairing handle_pairing_data finds removed are closed,
\* unless they are writing, or have not switched to encryption yet.
CloseRemoved(S, s) ==
  CloseSessions(S, {t \in Slots \ {s} : S[t].state = "Reading" /\ PairingLost(S[t])})

\* The pairings of the sessions R go, or come back: a pairing added to the store
\* may take over the key of a removed one, and the key is all that is compared.
PairingsRemoved(S, R) ==
  [s \in Slots |-> IF s \in R /\ S[s].auth = "verified"
                     THEN [S[s] EXCEPT !.auth = "removed"] ELSE S[s]]

PairingAdded(S, R) ==
  [s \in Slots |-> IF s \in R /\ S[s].auth = "removed"
                     THEN [S[s] EXCEPT !.auth = "verified"] ELSE S[s]]

\* POST /pair-setup, possible while there is no pairing: other transient
\* sessions are closed; s becomes transient, or a pairing is added.
PairSetup(S, s) ==
  LET T == CloseSessions(S, {t \in Slots \ {s} : S[t].auth = "transient"})
  IN  {T} \cup
      (IF \E t \in Slots : S[t].auth = "verified" THEN {}
       ELSE {CloseRemoved([T EXCEPT ![s].auth = "transient"], s)}
            \cup {CloseRemoved(PairingAdded(T, R), s) : R \in SUBSET Slots})

\* POST /pair-verify, the message that completes the procedure.  There is no
\* transient session once a pairing has been added, and a session that is
\* active already fails a precondition.
PairVerify(S, s) ==
  IF S[s].auth # "none" \/ \E t \in Slots : S[t].auth = "transient" THEN {}
  ELSE {CloseRemoved([S EXCEPT ![s].auth = "verified"], s)}

\* POST /pairings.
Pairings(S, s) ==
  {CloseRemoved(PairingsRemoved(S, R), s) : R \in SUBSET Slots}
  \cup {CloseRemoved(PairingAdded(S, R), s) : R \in SUBSET Slots}

\* PUT /characteristics with "ev".
Subscribe(S, s) ==
  {[S EXCEPT ![s].subs = @ \cup {c}] :
     c \in {d \in Chars : Cardinality(S[s].subs) < MaxSubscriptions}}

\* Mutant: the pending notification survives the subscription.
Unsubscribe_KeepsFlag(S, s) == {[S EXCEPT ![s].subs = @ \ {c}] : c \in Chars}

Unsubscribe(S, s) ==
  {[S EXCEPT ![s].subs = @ \ {c}, ![s].flags = @ \ {c}] : c \in Chars}

\* PUT /characteristics with "value": the write handler of the application
\* raises an event, of which the writing session gets no echo if it is for the
\* characteristic written.
WriteValue(S, s) ==
  {RaiseEvent(S, c, Slots \ {s}) : c \in Chars} \cup {RaiseEvent(S, c, Slots) : c \in Chars}

\* handle_http_request: the routes that change a session, by the security they
\* ask for.  All other requests and every rejection change none.
HandleHTTPRequest(S, s) ==
  {S} \cup
  (IF ~S[s].secured THEN PairSetup(S, s) \cup PairVerify(S, s)
   ELSE IF S[s].auth # "verified" THEN {}
   ELSE Pairings(S, s) \cup Subscribe(S, s) \cup Unsubscribe(S, s) \cup WriteValue(S, s))

\* What may follow a request in a buffer of n: parts of further requests.
Following(n) == IF Pipelining THEN 0 .. n - 1 ELSE {0}

WithResponse(T, s, rest, n) ==
  [T EXCEPT ![s].state = "Writing", ![s].input = rest, ![s].output = n]

\* handle_http: serve the request at the head of the buffer, shift the rest
\* down, and start to write the response.
HandleHTTP(S, s) ==
  {WithResponse(T, s, rest, n) :
     T \in HandleHTTPRequest(S, s),
     rest \in Following(S[s].input),
     n \in 1 .. OutboundSize}

\* handle_input asserts that a session that has switched to encryption is still
\* secured: if not, the process stops and there is no outcome.
HandleInput(S, s) ==
  LET T == [S EXCEPT ![s].secured = HAPSessionIsSecured(S[s])]
  IN  IF PairingLost(S[s]) THEN {}
      ELSE {CloseSession(S, s)}
           \cup (IF S[s].input < InboundSize THEN {T} ELSE {})
           \cup HandleHTTP(T, s)
--------------------------------------------------------------------------------
(***************************************************************************)
(* TCP stream events.                                                      *)
(***************************************************************************)
ReadInboundData(S, s) ==
  (IF SpuriousWakeups THEN {S} ELSE {})
  \cup {CloseSession(S, s)}
  \cup UNION {HandleInput([S EXCEPT ![s].input = n], s) :
                n \in S[s].input + 1 .. InboundSize}

\* The response is written: close if the pairing is gone, else read on.
OutputCompleted(S, s) ==
  LET T == [S EXCEPT ![s].state = "Reading", ![s].output = 0]
  IN  IF PairingLost(S[s]) THEN {CloseSession(S, s)}
      ELSE IF T[s].input # 0 THEN HandleInput(T, s) ELSE {T}

WriteOutboundData(S, s) ==
  (IF SpuriousWakeups THEN {S} ELSE {})
  \cup {CloseSession(S, s)}
  \cup {[S EXCEPT ![s].output = n] : n \in 1 .. S[s].output - 1}
  \cup OutputCompleted(S, s)

InterestOf(r) ==
  CASE r.state = "Reading" -> "read"
    [] r.state = "Writing" -> "write"
    [] OTHER -> "none"

\* A pairing request that changes whether the accessory is paired has the
\* application told.
Reported(new, old) ==
  IF new.state = "Writing" /\ (old.state = "Reading" \/ new.input # old.input)
    THEN {{}, {"callback"}} ELSE {{}}

\* Mutant: a session that comes to rest while the engine stops stays open.
CloseIfStopping_Never(S, s) == S

\* handle_io_progression closes a session at rest while the engine stops.
CloseIfStopping(S, s) ==
  IF AtRest(S[s]) /\ ipState = "Stopping" THEN CloseSession(S, s) ELSE S

\* handle_io_progression, after the handler has turned the sessions into S.
HandleIOProgression(S, s) ==
  LET T == CloseIfStopping(S, s)
      U == [T EXCEPT ![s].interest = InterestOf(T[s])]
  IN  /\ due' \in {WithGarbage(U, due) \cup c : c \in Reported(U[s], sess[s])}
      /\ \/ /\ AtRest(U[s]) /\ U[s].flags # {}
            /\ ScheduleEventNotifications(U)
         \/ /\ ~(AtRest(U[s]) /\ U[s].flags # {})
            /\ sess' = U
            /\ eventTimer' = IF Raised(sess, U) THEN 0 ELSE eventTimer
            /\ UNCHANGED orphan
      /\ UNCHANGED <<state, ipState, listening, numSessions, idleTimer>>

\* Mutant: traffic postpones the notifications too.
Stamped_Quiet(s) == [sess EXCEPT ![s].idle = 0, ![s].quiet = 0]

\* HandleTCPStreamEvent stamps the session before it serves the event.
Stamped(s) == [sess EXCEPT ![s].idle = 0]

BytesAvailable(s) ==
  /\ sess[s].interest = "read"
  /\ \E S \in ReadInboundData(Stamped(s), s) : HandleIOProgression(S, s)

SpaceAvailable(s) ==
  /\ sess[s].interest = "write"
  /\ \E S \in WriteOutboundData(Stamped(s), s) : HandleIOProgression(S, s)
--------------------------------------------------------------------------------
(***************************************************************************)
(* Sessions come and go.                                                   *)
(***************************************************************************)
\* Mutants: idleness counts in one of the two cases only.
Limited_Full(n) == n = Cardinality(Slots)
Limited_Stopping(n) == ipState = "Stopping"

\* Idleness counts while the server is full or stops.
Limited(n) == n = Cardinality(Slots) \/ ipState = "Stopping"

\* schedule_max_idle_time_timer, with n sessions registered and the zero-delay
\* timers d.
ScheduleMaxIdleTimeTimer(S, n, d) ==
  LET closing == {s \in Slots :
                    \/ AtRest(S[s]) /\ ipState = "Stopping"
                    \/ Live(S[s]) /\ Limited(n) /\ S[s].idle >= MaxIdle}
      waiting == {s \in Slots \ closing : Live(S[s]) /\ Limited(n)}
  IN  /\ listening' = (listening /\ ipState # "Stopping")
      /\ sess' = CloseSessions(S, closing)
      /\ idleTimer' \in Earliest({MaxIdle - S[s].idle : s \in waiting})
      /\ due' = d \cup {"gc"}

\* Mutant: the server takes itself for full one connection too late.
Accept_FullLate(s) ==
  /\ listening /\ sess[s].state = "Free"
  /\ numSessions' = numSessions + 1
  /\ sess' = [sess EXCEPT ![s] = AcceptedSession]
  /\ UNCHANGED <<state, ipState, listening, due, idleTimer, eventTimer, orphan>>

\* HandlePendingTCPStream with a free slot, and RegisterSession.
Accept(s) ==
  /\ listening /\ sess[s].state = "Free"
  /\ numSessions' = numSessions + 1
  /\ LET S == [sess EXCEPT ![s] = AcceptedSession] IN
     \/ /\ numSessions + 1 = Cardinality(Slots)
        /\ ScheduleMaxIdleTimeTimer(S, numSessions + 1, due)
     \/ /\ numSessions + 1 # Cardinality(Slots)
        /\ sess' = S
        /\ UNCHANGED <<listening, due, idleTimer>>
  /\ UNCHANGED <<state, ipState, eventTimer, orphan>>

\* Mutant: at most one session is counted out.
Remaining_AllButOne(gone) == IF gone = {} THEN numSessions ELSE numSessions - 1

\* numSessions once the sessions gone are released.
Remaining(gone) == numSessions - Cardinality(gone)

\* Mutant: the listener is not asked about.
Finished_NoListener(left) == left = 0

\* No client is left, and none can come.
Finished(left) == ~listening /\ left = 0

\* collect_garbage: closed sessions become free slots, and the last one to go
\* completes the stop of the engine.
CollectGarbage ==
  LET gone == {s \in Slots : sess[s].state = "Idle"}
      left == Remaining(gone)
  IN  /\ "gc" \in due
      /\ sess' = [s \in Slots |-> IF s \in gone THEN FreeSession ELSE sess[s]]
      /\ numSessions' = left
      /\ \/ /\ ~Finished(left)
            /\ due' = due \ {"gc"}
            /\ UNCHANGED <<ipState, idleTimer>>
         \/ /\ Finished(left)
            /\ ipState' = "Idle"
            /\ idleTimer' = Off
            /\ due' = (due \ {"gc", "transition"}) \cup {"callback"}
      /\ UNCHANGED <<state, listening, eventTimer, orphan>>

StateTransitionTimer ==
  /\ "transition" \in due
  /\ ScheduleMaxIdleTimeTimer(sess, numSessions, due \ {"transition"})
  /\ UNCHANGED <<state, ipState, numSessions, eventTimer, orphan>>

MaxIdleTimeTimer ==
  /\ idleTimer = 0
  /\ ScheduleMaxIdleTimeTimer(sess, numSessions, due)
  /\ UNCHANGED <<state, ipState, numSessions, eventTimer, orphan>>

EventNotificationTimer ==
  /\ eventTimer = 0
  /\ ScheduleEventNotifications(sess)
  /\ UNCHANGED <<state, ipState, listening, numSessions, due, idleTimer>>
--------------------------------------------------------------------------------
(***************************************************************************)
(* The application, the other transport and the clock.                     *)
(***************************************************************************)
\* HAPAccessoryServerStart.
Start ==
  /\ state = "Idle" /\ ipState = "Idle"
  /\ state' = "Running" /\ ipState' = "Running"
  /\ listening' = TRUE
  /\ due' = due \cup {"callback"}
  /\ UNCHANGED <<numSessions, sess, idleTimer, eventTimer, orphan>>

\* Refused because the firmware has been downgraded.
StartRefused ==
  /\ state = "Idle" /\ ipState = "Idle"
  /\ due' = due \cup {"callback"}
  /\ UNCHANGED <<state, ipState, listening, numSessions, sess, idleTimer, eventTimer,
                 orphan>>

\* HAPAccessoryServerStop, of the application or of the Bluetooth LE transport once
\* it has no connection left: until then that transport holds back the engine.
Stop ==
  /\ state # "Idle"
  /\ state' = "Stopping"
  /\ \/ /\ ipState = "Running"
        /\ ipState' = "Stopping"
        /\ due' = due \cup {"callback", "transition"}
     \/ /\ ipState # "Running" \/ OverBLE
        /\ UNCHANGED <<ipState, due>>
  /\ UNCHANGED <<listening, numSessions, sess, idleTimer, eventTimer, orphan>>

\* Mutant: the shutdown is completed without asking the engine.
HandleUpdatedState_TooEarly ==
  /\ "callback" \in due
  /\ due' = due \ {"callback"}
  /\ state' = IF state = "Stopping" THEN "Idle" ELSE state
  /\ UNCHANGED <<ipState, listening, numSessions, sess, idleTimer, eventTimer, orphan>>

\* CallbackTimerExpired: tells the application; completes the shutdown.
HandleUpdatedState ==
  /\ "callback" \in due
  /\ due' = due \ {"callback"}
  /\ state' = IF ipState = "Idle" THEN "Idle" ELSE state
  /\ UNCHANGED <<ipState, listening, numSessions, sess, idleTimer, eventTimer, orphan>>

\* HAPAccessoryServerRaiseEvent and HAPAccessoryServerRaiseEventOnSession.
AppRaisesEvent(c, targets) ==
  /\ sess' = RaiseEvent(sess, c, targets)
  /\ Raised(sess, sess')
  /\ eventTimer' = 0
  /\ UNCHANGED <<state, ipState, listening, numSessions, due, idleTimer, orphan>>

\* /pairings served over Bluetooth LE: no session of the IP server is closed.
RemovePairingOverBLE(s) ==
  /\ OverBLE
  /\ sess[s].auth = "verified"
  /\ sess' = [sess EXCEPT ![s].auth = "removed"]
  /\ due' \in {due, due \cup {"callback"}}
  /\ UNCHANGED <<state, ipState, listening, numSessions, idleTimer, eventTimer, orphan>>

\* Mutant: a timer that is not registered runs as well.
Elapsed_Always(t) == t - 1

Elapsed(t) == IF t > 0 THEN t - 1 ELSE t

Tick ==
  /\ sess' = [s \in Slots |->
       IF ~Live(sess[s]) THEN sess[s]
       ELSE [sess[s] EXCEPT !.idle = IF @ < MaxIdle THEN @ + 1 ELSE @,
                            !.quiet = IF @ < EventDelay THEN @ + 1 ELSE @]]
  /\ idleTimer' = Elapsed(idleTimer)
  /\ eventTimer' = Elapsed(eventTimer)
  /\ UNCHANGED <<state, ipState, listening, numSessions, due, orphan>>
--------------------------------------------------------------------------------
Init ==
  /\ state = "Idle" /\ ipState = "Idle"
  /\ listening = FALSE /\ numSessions = 0
  /\ sess = [s \in Slots |-> FreeSession]
  /\ due = {} /\ idleTimer = Off /\ eventTimer = Off /\ orphan = FALSE

Timers ==
  \/ CollectGarbage \/ StateTransitionTimer \/ MaxIdleTimeTimer
  \/ EventNotificationTimer \/ HandleUpdatedState

Application ==
  \/ Start \/ StartRefused \/ Stop
  \/ \E c \in Chars : AppRaisesEvent(c, Slots)
  \/ \E c \in Chars, s \in Slots : AppRaisesEvent(c, {s})

Streams ==
  \E s \in Slots :
    Accept(s) \/ BytesAvailable(s) \/ SpaceAvailable(s) \/ RemovePairingOverBLE(s)

Next == Timers \/ Application \/ Streams \/ Tick

Spec == Init /\ [][Next]_vars

(***************************************************************************)
(* The run loop fires every registered timer once its deadline has passed, *)
(* and time passes.  Clients and the application owe nothing.              *)
(***************************************************************************)
Fairness ==
  /\ WF_vars(CollectGarbage) /\ WF_vars(StateTransitionTimer)
  /\ WF_vars(MaxIdleTimeTimer) /\ WF_vars(EventNotificationTimer)
  /\ WF_vars(HandleUpdatedState) /\ WF_vars(Tick)

FairSpec == Spec /\ Fairness
--------------------------------------------------------------------------------
(***************************************************************************)
(* Properties.                                                             *)
(***************************************************************************)
Full == numSessions = Cardinality(Slots)

\* Every variable has its type.
TypeOK ==
  /\ state \in {"Idle", "Running", "Stopping"}
  /\ ipState \in {"Idle", "Running", "Stopping"}
  /\ listening \in BOOLEAN
  /\ numSessions \in Int
  /\ sess \in [Slots -> Session]
  /\ due \subseteq {"gc", "transition", "callback"}
  /\ idleTimer \in {Off} \cup 0 .. MaxIdle
  /\ eventTimer \in {Off} \cup 0 .. EventDelay
  /\ orphan \in BOOLEAN

\* The counter kept by RegisterSession and collect_garbage is the number of
\* slots in use, closed ones that await collection included: the assertion
\* n == numSessions of collect_garbage, and what RegisterSession and
\* schedule_max_idle_time_timer take for "the server is full".
SessionsCounted == numSessions = Cardinality({s \in Slots : sess[s].state # "Free"})

\* Whoever closes a session, of its own or of another client, leaves the
\* garbage collection timer registered (handle_io_progression asserts it), so
\* no slot stays taken by a connection that is gone.
ClosedAwaitsCollection == \A s \in Slots : sess[s].state = "Idle" => "gc" \in due

\* No slot is lost, whoever closes a session and whenever garbage is collected: the
\* counter is right, and what is closed will be collected.
SlotsAccounted == SessionsCounted /\ ClosedAwaitsCollection

\* A session that could send notifications and has some pending is always
\* covered by a registered timer: no path (an event raised while the client is
\* half-way through a request, a response completed, a coalescing delay, a timer
\* rescheduled on behalf of another session) forgets it.
PendingIsScheduled ==
  \A s \in Slots : AtRest(sess[s]) /\ sess[s].flags # {} => eventTimer # Off

\* The interest registered with the run loop is the one of the session's state,
\* also when a timer or another session's request changed that state: this is
\* what HandleTCPStreamEvent asserts on each event it is given.
InterestFollowsState == \A s \in Slots : sess[s].interest = InterestOf(sess[s])

\* What a session waits for is registered with the run loop, whoever brought it into its
\* state: the readiness of its stream, and a timer if it has notifications to send.
WaitsAreRegistered == PendingIsScheduled /\ InterestFollowsState

\* Subscriptions exist on encrypted, non-transient sessions only and pending
\* notifications are subscribed to: the preconditions of the unsubscribe loop in
\* CloseSession and of write_event_notifications, which may run long after the
\* request that subscribed.
SubscribersSecured ==
  \A s \in Slots :
    /\ sess[s].flags \subseteq sess[s].subs
    /\ sess[s].subs # {} => sess[s].secured /\ sess[s].auth \in {"verified", "removed"}

\* A session that has switched to encryption and reads has its pairing: the
\* assertion at the top of handle_input.  /pairings closes the sessions that
\* read, and the others are closed when their response has been written.
SecuredWhileReading ==
  \A s \in Slots : sess[s].state = "Reading" => ~PairingLost(sess[s])

\* Nobody without a pairing subscribes, is sent notifications, or is read from as if he
\* had one, however requests of others and removals fall between his own.
OnlySecured == SubscribersSecured /\ SecuredWhileReading

\* While the engine stops there is always a timer left that continues the stop,
\* and once the listener is closed no session is left that waits for a request
\* and that nothing but the client would close.
StopContinues ==
  ipState = "Stopping" =>
    /\ "transition" \in due \/ "gc" \in due \/ idleTimer # Off
    /\ ~listening => \A s \in Slots : ~AtRest(sess[s])

\* collect_garbage completes a stop only when one was asked for (its assertion
\* state == Stopping): a running engine listens, and an idle one has no listener,
\* no session, and none of the timers left that a stop or a full server uses, so
\* that it is not completed twice.
EngineStates ==
  /\ ipState = "Running" => listening
  /\ ipState = "Idle" => /\ ~listening /\ numSessions = 0 /\ idleTimer = Off
                         /\ due \cap {"gc", "transition"} = {}
                         /\ \A s \in Slots : sess[s].state = "Free"
  /\ "transition" \in due => ipState = "Stopping"

\* The server is idle for the application, which then may start it, only when the
\* engine is (engine_start asserts it); a stop of the engine is one that the
\* application asked for, and once it is complete the application is told.
ReportedState ==
  /\ state = "Running" => ipState = "Running"
  /\ ipState = "Stopping" => state = "Stopping"
  /\ state = "Idle" => ipState = "Idle"
  /\ ipState = "Idle" /\ state # "Idle" => state = "Stopping" /\ "callback" \in due

\* The engine, and what the application has been told of it, agree after any order of
\* starts, stops, accepts, time-outs and callbacks.
LifeCycleConsistent == EngineStates /\ ReportedState

\* Full or stopping, the server watches the sessions for idleness as long as one
\* is left: the timer is registered by whichever accept fills the last slot.
IdlenessWatched ==
  (Full \/ (ipState = "Stopping" /\ ~listening)) /\ (\E s \in Slots : Live(sess[s]))
    => idleTimer # Off

\* Neither a stop nor a full server ever depends on a client to go on: some timer of
\* the server's own is registered.
NeverWaitsOnClients == StopContinues /\ IdlenessWatched

\* No event notification timer is registered that the server has lost the handle
\* of: handle_event_notification_timer requires the timer to be its own.
TimerIsKnown == ~orphan

\* A pending notification is cleared only by a message to the client, or by the
\* end of the subscription or the connection, never silently, if the outbound buffer of
\* its session takes any notification: whatever other sessions are short of.
NotificationsSent ==
  [][\A s \in Roomy :
       sess[s].flags \ sess'[s].flags # {} => sess'[s].state \in {"Writing", "Idle"}]_vars

\* An accepted connection is served in the slot it was given: the descriptor is
\* zeroed only after it was closed, and reused only after it was zeroed.
SlotsNotStolen ==
  [][\A s \in Slots :
       /\ sess[s].state = "Free" => sess'[s] \in {FreeSession, AcceptedSession, ClosedSession}
       /\ Live(sess[s]) => sess'[s].state # "Free"
       /\ sess[s].state = "Idle" => sess'[s] \in {ClosedSession, FreeSession}]_vars

\* The engine implements what the accessory server promises: its slots are the
\* connections, and a connection is open until the engine closes it.
Lifecycle ==
  INSTANCE AccessoryServerLifecycle
    WITH Connections <- Slots, accepting <- listening,
         open <- {s \in Slots : Live(sess[s])}

\* No client is let in or left connected outside the life cycle that the
\* application is told of (HAPAccessoryServerStart, -Stop, handleUpdatedState).
LifecycleKept == Lifecycle!Spec

\* HAPAccessoryServerStop: the application is eventually told that the server has
\* stopped, whatever the clients do.
StopCompletes == state = "Stopping" ~> state = "Idle"

\* A pending notification is eventually taken up, and sent if it fits, or its
\* subscription ends, if the client keeps coming back to a state where it waits for
\* the accessory.
EventDelivered ==
  \A s \in Slots, c \in Chars :
    []<>AtRest(sess[s]) => (c \in sess[s].flags ~> c \notin sess[s].flags)

\* A client that stays silent does not keep its slot of a full server.
SilentIsEvicted ==
  \A s \in Slots :
    Live(sess[s]) /\ sess[s].idle > 0 /\ Full
      ~> ~Live(sess[s]) \/ sess[s].idle = 0 \/ ~Full
================================================================================
