------------------------ MODULE IPAccessoryServerProofs ------------------------
(***************************************************************************)
(* Proofs about IPAccessoryServer, for any number of slots and             *)
(* characteristics and all values of the bounds.  The first part follows   *)
(* the call tree of a stream event: lemmas about the operators that serve  *)
(* a request, that send notifications and that progress a session.  The    *)
(* second has one lemma per action: it preserves the inductive invariant   *)
(* IInv.  The third draws the theorems from the invariant, and proves that *)
(* the server implements AccessoryServerLifecycle.                         *)
(***************************************************************************)
EXTENDS IPAccessoryServer, FiniteSetTheorems, TLAPS

\* What SubscribersSecured says of a single session.
Subscribed(r) ==
  /\ r.flags \subseteq r.subs
  /\ r.subs # {} => r.secured /\ r.auth \in {"verified", "removed"}

\* A good session descriptor: a free slot and a closed session hold nothing that
\* a step could depend on.
Good(r) ==
  /\ Subscribed(r)
  /\ r.state = "Free" => r = FreeSession
  /\ r.state = "Idle" => r = ClosedSession

\* A function of sessions that the operators may be applied to.
AllGood(S) == S \in [Slots -> Session] /\ \A t \in Slots : Good(S[t])

\* What serving a client may do to the session of another client: close it, or
\* add to its pending notifications, and change the fate of its pairing.
Other(old, new) ==
  \/ new = ClosedSession /\ Live(old)
  \/ /\ new.state = old.state /\ new.input = old.input
     /\ new.interest = old.interest /\ new.subs = old.subs
     /\ new.secured = old.secured /\ old.flags \subseteq new.flags

\* The session fails the assertion at the top of handle_input.
Lost(r) == r.state = "Reading" /\ PairingLost(r)

\* No session but s, which is being served, does.
NoneLost(S, s) == \A t \in Slots \ {s} : ~Lost(S[t])

\* What serving a request of s may make of the sessions S.
Handled(S, T, s) ==
  /\ AllGood(T)
  /\ \A t \in Slots \ {s} : Other(S[t], T[t])
  /\ NoneLost(S, s) => NoneLost(T, s)

\* The bounds are positive, as ServerAssumption has it.
LEMMA Bounds ==
  /\ InboundSize \in Nat \ {0} /\ OutboundSize \in Nat \ {0}
  /\ MaxIdle \in Nat \ {0} /\ EventDelay \in Nat \ {0}
  /\ Immediate \subseteq Chars /\ Roomy \subseteq Slots
BY ServerAssumption DEF ServerAssumption

\* A zeroed and a closed descriptor are session descriptors.
LEMMA FreeIsSession == FreeSession \in Session /\ ClosedSession \in Session
<1>1. 0 \in 0 .. InboundSize /\ 0 \in 0 .. OutboundSize /\ 0 \in 0 .. MaxIdle
      /\ 0 \in 0 .. EventDelay
  BY Bounds
<1>2. {} \in SUBSET Chars
  OBVIOUS
<1>. QED  BY <1>1, <1>2 DEF FreeSession, ClosedSession, Session

\* A zeroed and a closed descriptor are good, and not in use.
LEMMA SpecialSessions ==
  /\ Good(FreeSession) /\ Good(ClosedSession)
  /\ ~Live(FreeSession) /\ ~Live(ClosedSession)
BY DEF FreeSession, ClosedSession, Good, Subscribed, Live

\* Two changes to the session of another client are one.
LEMMA OtherTransitive ==
  ASSUME NEW a, NEW b, NEW c, Other(a, b), Other(b, c), Good(c)
  PROVE  Other(a, c)
<1>1. CASE b = ClosedSession /\ Live(a)
  <2>1. b.state = "Idle" /\ ~Live(b)
    BY <1>1 DEF ClosedSession, FreeSession, Live
  <2>2. c = ClosedSession
    BY <2>1 DEF Other, Good
  <2>. QED  BY <1>1, <2>2 DEF Other
<1>2. CASE ~(b = ClosedSession /\ Live(a))
  BY <1>2 DEF Other, Live
<1>. QED  BY <1>1, <1>2

\* Two parts of serving a request are one.
LEMMA HandledTransitive ==
  ASSUME NEW S, NEW T, NEW U, NEW s \in Slots,
         Handled(S, T, s), Handled(T, U, s)
  PROVE  Handled(S, U, s)
<1>1. ASSUME NEW t \in Slots \ {s}
      PROVE  Other(S[t], U[t])
  <2>1. Other(S[t], T[t]) /\ Other(T[t], U[t]) /\ Good(U[t])
    BY DEF Handled, AllGood
  <2>. QED  BY <2>1, OtherTransitive
<1>. QED  BY <1>1 DEF Handled

\* Closing sessions in use (CloseSession) is fit for serving a request.
LEMMA CloseLemma ==
  ASSUME NEW S, AllGood(S), NEW s \in Slots, NEW C, 
         \A t \in Slots \cap C : Live(S[t])
  PROVE  Handled(S, CloseSessions(S, C), s)
<1>. DEFINE T == CloseSessions(S, C)
<1>1. AllGood(T)
  BY FreeIsSession, SpecialSessions DEF CloseSessions, AllGood
<1>2. ASSUME NEW t \in Slots \ {s}
      PROVE  Other(S[t], T[t]) /\ (~Lost(S[t]) => ~Lost(T[t]))
  BY DEF CloseSessions, Other, Lost, ClosedSession, FreeSession
<1>. QED  BY <1>1, <1>2 DEF Handled, NoneLost

\* Raising an event (engine_raise_event) is, and moves no session.
LEMMA RaiseLemma ==
  ASSUME NEW S, AllGood(S), NEW s \in Slots, NEW c \in Chars, NEW targets
  PROVE  /\ Handled(S, RaiseEvent(S, c, targets), s)
         /\ \A t \in Slots : /\ RaiseEvent(S, c, targets)[t].state = S[t].state
                            /\ RaiseEvent(S, c, targets)[t].input = S[t].input
                            /\ RaiseEvent(S, c, targets)[t].interest = S[t].interest
                            /\ S[t].flags \subseteq RaiseEvent(S, c, targets)[t].flags
<1>. DEFINE T == RaiseEvent(S, c, targets)
<1>1. ASSUME NEW t \in Slots, t \in targets, c \in S[t].subs
      PROVE  /\ T[t] \in Session /\ Good(T[t])
             /\ T[t] = [S[t] EXCEPT !.flags = @ \cup {c}]
  <2>1. T[t] = [S[t] EXCEPT !.flags = @ \cup {c}]
    BY <1>1 DEF RaiseEvent
  <2>2. S[t] \in Session /\ Good(S[t])
    BY DEF AllGood
  <2>3. T[t] \in Session
    BY <2>1, <2>2 DEF Session
  <2>4. S[t].state \notin {"Free", "Idle"}
    BY <1>1, <2>2 DEF Good, FreeSession, ClosedSession
  <2>5. T[t].flags = S[t].flags \cup {c} /\ T[t].subs = S[t].subs
        /\ T[t].secured = S[t].secured /\ T[t].auth = S[t].auth
        /\ T[t].state = S[t].state
    BY <2>1, <2>2 DEF Session
  <2>. QED  BY <1>1, <2>1, <2>2, <2>3, <2>4, <2>5 DEF Good, Subscribed
<1>2. ASSUME NEW t \in Slots, ~(t \in targets /\ c \in S[t].subs)
      PROVE  T[t] = S[t]
  BY <1>2 DEF RaiseEvent
<1>3. AllGood(T)
  <2>1. \A t \in Slots : T[t] \in Session /\ Good(T[t])
    BY <1>1, <1>2 DEF AllGood
  <2>. QED  BY <2>1 DEF AllGood, RaiseEvent
<1>4. ASSUME NEW t \in Slots
      PROVE  /\ Other(S[t], T[t]) /\ Lost(T[t]) = Lost(S[t])
             /\ T[t].state = S[t].state /\ T[t].input = S[t].input
             /\ T[t].interest = S[t].interest /\ S[t].flags \subseteq T[t].flags
  <2>1. CASE t \in targets /\ c \in S[t].subs
    <3>1. T[t] = [S[t] EXCEPT !.flags = @ \cup {c}] /\ S[t] \in Session
      BY <1>1, <2>1 DEF AllGood
    <3>2. /\ S[t].flags \subseteq T[t].flags
          /\ T[t].state = S[t].state /\ T[t].input = S[t].input
          /\ T[t].interest = S[t].interest /\ T[t].subs = S[t].subs
          /\ T[t].secured = S[t].secured /\ T[t].auth = S[t].auth
      BY <3>1 DEF Session
    <3>. QED  BY <3>2 DEF Other, Lost, PairingLost, HAPSessionIsSecured
  <2>2. CASE ~(t \in targets /\ c \in S[t].subs)
    BY <1>2, <2>2 DEF Other
  <2>. QED  BY <2>1, <2>2
<1>. QED  BY <1>3, <1>4 DEF Handled, NoneLost

\* The loop of handle_pairing_data that closes the sessions whose pairing is gone
\* leaves none but the requesting one to fail the assertion of handle_input.
LEMMA CloseRemovedLemma ==
  ASSUME NEW S, AllGood(S), NEW s \in Slots
  PROVE  /\ Handled(S, CloseRemoved(S, s), s)
         /\ NoneLost(CloseRemoved(S, s), s)
         /\ CloseRemoved(S, s)[s] = S[s]
<1>. DEFINE C == {t \in Slots \ {s} : S[t].state = "Reading" /\ PairingLost(S[t])}
<1>1. \A t \in Slots \cap C : Live(S[t])
  BY DEF Live
<1>2. Handled(S, CloseSessions(S, C), s)
  BY <1>1, CloseLemma
<1>3. \A t \in Slots \ {s} : ~Lost(CloseSessions(S, C)[t])
  BY DEF CloseSessions, Lost, ClosedSession, FreeSession
<1>4. CloseSessions(S, C)[s] = S[s]
  BY DEF CloseSessions
<1>. QED  BY <1>2, <1>3, <1>4 DEF CloseRemoved, NoneLost

\* Pairings removed from or added to the store change sessions in their pairing
\* only.
LEMMA AuthLemma ==
  ASSUME NEW S, AllGood(S), NEW s \in Slots, NEW R, 
         NEW T \in {PairingsRemoved(S, R), PairingAdded(S, R)}
  PROVE  /\ AllGood(T)
         /\ \A t \in Slots \ {s} : Other(S[t], T[t])
         /\ T[s].state = S[s].state
<1>0. PICK from \in {"verified", "removed"}, to \in {"verified", "removed"} :
        T = [t \in Slots |-> IF t \in R /\ S[t].auth = from
                               THEN [S[t] EXCEPT !.auth = to] ELSE S[t]]
  <2>1. CASE T = PairingsRemoved(S, R)
    BY <2>1 DEF PairingsRemoved
  <2>2. CASE T = PairingAdded(S, R)
    BY <2>2 DEF PairingAdded
  <2>. QED  BY <2>1, <2>2
<1>1. ASSUME NEW t \in Slots
      PROVE  T[t] \in Session /\ Good(T[t]) /\ Other(S[t], T[t]) /\ T[t].state = S[t].state
  <2>1. S[t] \in Session /\ Good(S[t])
    BY DEF AllGood
  <2>2. CASE t \in R /\ S[t].auth = from
    <3>1. T[t] = [S[t] EXCEPT !.auth = to]
      BY <1>0, <2>2
    <3>2. T[t] \in Session
      BY <2>1, <3>1 DEF Session
    <3>3. /\ T[t].state = S[t].state /\ T[t].input = S[t].input
          /\ T[t].interest = S[t].interest /\ T[t].subs = S[t].subs
          /\ T[t].secured = S[t].secured /\ T[t].flags = S[t].flags
          /\ T[t].auth = to
      BY <2>1, <3>1 DEF Session
    <3>4. S[t].state \notin {"Free", "Idle"}
      BY <2>1, <2>2 DEF Good, FreeSession, ClosedSession
    <3>. QED  BY <2>1, <3>2, <3>3, <3>4 DEF Good, Subscribed, Other
  <2>3. CASE ~(t \in R /\ S[t].auth = from)
    BY <1>0, <2>1, <2>3 DEF Other
  <2>. QED  BY <2>2, <2>3
<1>. QED  BY <1>0, <1>1 DEF AllGood

\* /pairings (handle_pairing_data) is fit for serving a request.
LEMMA PairingsLemma ==
  ASSUME NEW S, AllGood(S), NEW s \in Slots, NEW T \in Pairings(S, s)
  PROVE  Handled(S, T, s) /\ T[s].state = S[s].state
<1>1. PICK R, U : /\ U \in {PairingsRemoved(S, R), PairingAdded(S, R)}
                  /\ T = CloseRemoved(U, s)
  BY DEF Pairings
<1>2. /\ AllGood(U)
      /\ \A t \in Slots \ {s} : Other(S[t], U[t])
      /\ U[s].state = S[s].state
  BY <1>1, AuthLemma
<1>3. Handled(U, T, s) /\ NoneLost(T, s) /\ T[s] = U[s]
  BY <1>1, <1>2, CloseRemovedLemma
<1>4. ASSUME NEW t \in Slots \ {s}
      PROVE  Other(S[t], T[t])
  <2>1. Other(S[t], U[t]) /\ Other(U[t], T[t]) /\ Good(T[t])
    BY <1>2, <1>3 DEF Handled, AllGood
  <2>. QED  BY <2>1, OtherTransitive
<1>. QED  BY <1>2, <1>3, <1>4 DEF Handled

\* A handler may turn its own session into any good one.
LEMMA OwnLemma ==
  ASSUME NEW S, AllGood(S), NEW s \in Slots, NEW r \in Session, Good(r)
  PROVE  Handled(S, [S EXCEPT ![s] = r], s)
<1>. DEFINE T == [S EXCEPT ![s] = r]
<1>1. T \in [Slots -> Session] /\ T[s] = r /\ \A t \in Slots \ {s} : T[t] = S[t]
  BY DEF AllGood
<1>. QED  BY <1>1 DEF Handled, AllGood, NoneLost, Other

\* A session without subscriptions may become transient or verified.
LEMMA SetAuthLemma ==
  ASSUME NEW S, AllGood(S), NEW s \in Slots, Live(S[s]), S[s].subs = {},
         NEW auth \in {"transient", "verified"}
  PROVE  /\ Handled(S, [S EXCEPT ![s].auth = auth], s)
         /\ [S EXCEPT ![s].auth = auth][s].state = S[s].state
<1>. DEFINE r == [S[s] EXCEPT !.auth = auth]
<1>1. S[s] \in Session /\ Good(S[s])
  BY DEF AllGood
<1>2. r \in Session
  BY <1>1 DEF Session
<1>3. r.state = S[s].state /\ r.flags = S[s].flags /\ r.subs = S[s].subs
  BY <1>1 DEF Session
<1>4. Good(r)
  BY <1>1, <1>3 DEF Good, Subscribed, Live
<1>5. [S EXCEPT ![s].auth = auth] = [S EXCEPT ![s] = r]
  BY DEF AllGood
<1>6. [S EXCEPT ![s] = r][s] = r
  BY DEF AllGood
<1>. QED  BY <1>2, <1>3, <1>4, <1>5, <1>6, OwnLemma

\* /pair-verify is fit for serving a request.
LEMMA PairVerifyLemma ==
  ASSUME NEW S, AllGood(S), NEW s \in Slots, Live(S[s]), ~S[s].secured,
         NEW T \in PairVerify(S, s)
  PROVE  Handled(S, T, s) /\ T[s].state = S[s].state
<1>. DEFINE U == [S EXCEPT ![s].auth = "verified"]
<1>1. S[s].subs = {}
  BY DEF AllGood, Good, Subscribed
<1>2. Handled(S, U, s) /\ U[s].state = S[s].state
  BY <1>1, SetAuthLemma
<1>3. T = CloseRemoved(U, s)
  BY DEF PairVerify
<1>4. Handled(U, T, s) /\ T[s] = U[s]
  BY <1>2, <1>3, CloseRemovedLemma DEF Handled
<1>. QED  BY <1>2, <1>4, HandledTransitive

\* /pair-setup is fit for serving a request.
LEMMA PairSetupLemma ==
  ASSUME NEW S, AllGood(S), NEW s \in Slots, Live(S[s]), ~S[s].secured,
         NEW T \in PairSetup(S, s)
  PROVE  Handled(S, T, s)
<1>. DEFINE C == {t \in Slots \ {s} : S[t].auth = "transient"}
            U == CloseSessions(S, C)
<1>1. \A t \in Slots \cap C : Live(S[t])
  BY DEF AllGood, Good, Session, Live, FreeSession, ClosedSession
<1>2. Handled(S, U, s)
  BY <1>1, CloseLemma
<1>3. U[s] = S[s] /\ AllGood(U)
  BY <1>2 DEF CloseSessions, Handled
<1>4. S[s].subs = {}
  BY DEF AllGood, Good, Subscribed
<1>5. CASE T = U
  BY <1>2, <1>5
<1>6. CASE T = CloseRemoved([U EXCEPT ![s].auth = "transient"], s)
  <2>1. Handled(U, [U EXCEPT ![s].auth = "transient"], s)
    BY <1>3, <1>4, SetAuthLemma
  <2>2. Handled([U EXCEPT ![s].auth = "transient"], T, s)
    BY <1>6, <2>1, CloseRemovedLemma DEF Handled
  <2>. QED  BY <1>2, <2>1, <2>2, HandledTransitive
<1>7. ASSUME NEW R \in SUBSET Slots, T = CloseRemoved(PairingAdded(U, R), s)
      PROVE  Handled(S, T, s)
  <2>1. /\ AllGood(PairingAdded(U, R))
        /\ \A t \in Slots \ {s} : Other(U[t], PairingAdded(U, R)[t])
    BY <1>3, AuthLemma
  <2>2. Handled(PairingAdded(U, R), T, s) /\ NoneLost(T, s)
    BY <1>7, <2>1, CloseRemovedLemma
  <2>3. ASSUME NEW t \in Slots \ {s}
        PROVE  Other(S[t], T[t])
    <3>1. Other(S[t], U[t]) /\ Good(U[t])
      BY <1>2 DEF Handled, AllGood
    <3>2. Other(U[t], PairingAdded(U, R)[t]) /\ Good(PairingAdded(U, R)[t])
      BY <2>1 DEF AllGood
    <3>3. Other(PairingAdded(U, R)[t], T[t]) /\ Good(T[t])
      BY <2>2 DEF Handled, AllGood
    <3>. QED  BY <3>1, <3>2, <3>3, OtherTransitive
  <2>. QED  BY <2>2, <2>3 DEF Handled
<1>. QED  BY <1>5, <1>6, <1>7 DEF PairSetup

\* Subscribing and unsubscribing are fit for serving a request.
LEMMA SubscribeLemma ==
  ASSUME NEW S, AllGood(S), NEW s \in Slots, Live(S[s]), S[s].secured,
         S[s].auth = "verified", NEW T \in Subscribe(S, s) \cup Unsubscribe(S, s)
  PROVE  Handled(S, T, s)
<1>1. PICK c \in Chars :
        \/ T = [S EXCEPT ![s].subs = @ \cup {c}]
        \/ T = [S EXCEPT ![s].subs = @ \ {c}, ![s].flags = @ \ {c}]
  BY DEF Subscribe, Unsubscribe
<1>2. PICK r : /\ r \in {[S[s] EXCEPT !.subs = @ \cup {c}],
                       [S[s] EXCEPT !.subs = @ \ {c}, !.flags = @ \ {c}]}
               /\ T = [S EXCEPT ![s] = r]
  BY <1>1 DEF AllGood
<1>3. S[s] \in Session /\ Good(S[s])
  BY DEF AllGood
<1>4. r \in Session
  <2>1. CASE r = [S[s] EXCEPT !.subs = @ \cup {c}]
    BY <1>3, <2>1 DEF Session
  <2>2. CASE r = [S[s] EXCEPT !.subs = @ \ {c}, !.flags = @ \ {c}]
    <3>1. S[s].subs \ {c} \in SUBSET Chars /\ S[s].flags \ {c} \in SUBSET Chars
      BY <1>3 DEF Session
    <3>. QED  BY <1>3, <2>2, <3>1 DEF Session
  <2>. QED  BY <1>2, <2>1, <2>2
<1>5. /\ r.state = S[s].state /\ r.secured = S[s].secured /\ r.auth = S[s].auth
      /\ r.flags \subseteq r.subs
  BY <1>2, <1>3 DEF Session, Good, Subscribed
<1>6. Good(r)
  BY <1>3, <1>5 DEF Good, Subscribed, Live
<1>. QED  BY <1>2, <1>4, <1>6, OwnLemma

\* handle_http_request, whatever the request.
LEMMA RequestLemma ==
  ASSUME NEW S, AllGood(S), NEW s \in Slots, Live(S[s]), NEW T \in HandleHTTPRequest(S, s)
  PROVE  Handled(S, T, s)
<1>1. CASE T = S
  BY <1>1 DEF Handled, Other
<1>2. CASE ~S[s].secured /\ T \in PairSetup(S, s) \cup PairVerify(S, s)
  BY <1>2, PairSetupLemma, PairVerifyLemma
<1>3. ASSUME S[s].secured, S[s].auth = "verified"
      PROVE  /\ T \in Pairings(S, s) => Handled(S, T, s)
             /\ T \in Subscribe(S, s) \cup Unsubscribe(S, s) => Handled(S, T, s)
             /\ T \in WriteValue(S, s) => Handled(S, T, s)
  <2>1. T \in WriteValue(S, s) => Handled(S, T, s)
    BY RaiseLemma DEF WriteValue
  <2>. QED  BY <1>3, <2>1, PairingsLemma, SubscribeLemma
<1>. QED  BY <1>1, <1>2, <1>3 DEF HandleHTTPRequest

\* What a handler of the stream of s may leave behind.
Outcome(S, T, s) ==
  /\ Handled(S, T, s) /\ T[s].state # "Free" /\ (~Lost(S[s]) => ~Lost(T[s]))
  /\ S[s].flags \subseteq T[s].flags \/ T[s].state \in {"Writing", "Idle"}

\* Closing the session is an outcome of any handler of its stream.
LEMMA CloseOutcome ==
  ASSUME NEW S, AllGood(S), NEW s \in Slots, Live(S[s])
  PROVE  Outcome(S, CloseSession(S, s), s)
<1>1. Handled(S, CloseSession(S, s), s)
  BY CloseLemma DEF CloseSession
<1>2. CloseSession(S, s)[s] = ClosedSession
  BY DEF CloseSession, CloseSessions
<1>. QED  BY <1>1, <1>2 DEF Outcome, Lost, ClosedSession, FreeSession

\* handle_http: the request is served and the response started.
LEMMA HTTPLemma ==
  ASSUME NEW S, AllGood(S), NEW s \in Slots, Live(S[s]), NEW T \in HandleHTTP(S, s)
  PROVE  Outcome(S, T, s)
<1>1. S[s].input \in 0 .. InboundSize
  BY DEF AllGood, Session
<1>2. PICK U \in HandleHTTPRequest(S, s),
           rest \in Following(S[s].input),
           n \in 1 .. OutboundSize :
        T = WithResponse(U, s, rest, n)
  BY DEF HandleHTTP
<1>0. rest \in 0 .. InboundSize /\ n \in 0 .. OutboundSize
  <2>1. InboundSize \in Nat /\ OutboundSize \in Nat
    BY Bounds
  <2>2. CASE Pipelining
    BY <1>1, <2>1, <2>2 DEF Following
  <2>3. CASE ~Pipelining
    BY <1>1, <2>1, <2>3 DEF Following
  <2>. QED  BY <2>2, <2>3
<1>3. Handled(S, U, s) /\ AllGood(U)
  BY RequestLemma DEF Handled
<1>. DEFINE r == [U[s] EXCEPT !.state = "Writing", !.input = rest, !.output = n]
<1>4. U[s] \in Session /\ Good(U[s])
  BY <1>3 DEF AllGood
<1>5. r \in Session
  BY <1>0, <1>4 DEF Session
<1>6. /\ r.state = "Writing" /\ r.flags = U[s].flags /\ r.subs = U[s].subs
      /\ r.secured = U[s].secured /\ r.auth = U[s].auth
  BY <1>4 DEF Session
<1>7. Good(r)
  BY <1>4, <1>6 DEF Good, Subscribed
<1>8. T = [U EXCEPT ![s] = r] /\ T[s] = r
  BY <1>2, <1>3 DEF AllGood, WithResponse
<1>9. Handled(U, T, s)
  BY <1>3, <1>5, <1>7, <1>8, OwnLemma
<1>. QED  BY <1>3, <1>6, <1>8, <1>9, HandledTransitive DEF Outcome, Lost

\* What two parts of a stream handler leave behind.
LEMMA OutcomeAfter ==
  ASSUME NEW S, NEW T, NEW U, NEW s \in Slots, Outcome(S, T, s), Outcome(T, U, s),
         T[s].flags = S[s].flags
  PROVE  Outcome(S, U, s)
BY HandledTransitive DEF Outcome

\* A change of a handler to its own session.
LEMMA OwnOutcome ==
  ASSUME NEW S, AllGood(S), NEW s \in Slots, Live(S[s]), NEW r \in Session,
         Live(r), Subscribed(r), r.flags = S[s].flags
  PROVE  /\ (Lost(r) => Lost(S[s])) => Outcome(S, [S EXCEPT ![s] = r], s)
         /\ AllGood([S EXCEPT ![s] = r]) /\ [S EXCEPT ![s] = r][s] = r
<1>. DEFINE T == [S EXCEPT ![s] = r]
<1>1. Good(r) /\ r.state # "Free"
  BY DEF Good, Live
<1>2. Handled(S, T, s)
  BY <1>1, OwnLemma
<1>3. T[s] = r
  BY DEF AllGood
<1>. QED  BY <1>1, <1>2, <1>3 DEF Outcome, Handled

\* handle_input, behind the assertion that the session still has its pairing.
LEMMA InputLemma ==
  ASSUME NEW S, AllGood(S), NEW s \in Slots, Live(S[s]), NEW T \in HandleInput(S, s)
  PROVE  Outcome(S, T, s)
<1>. DEFINE U == [S EXCEPT ![s].secured = HAPSessionIsSecured(S[s])]
            r == [S[s] EXCEPT !.secured = HAPSessionIsSecured(S[s])]
<1>1. S[s] \in Session /\ Good(S[s]) /\ ~PairingLost(S[s])
  BY DEF AllGood, HandleInput
<1>2. HAPSessionIsSecured(S[s]) \in BOOLEAN
  BY DEF HAPSessionIsSecured
<1>3. r \in Session
  BY <1>1, <1>2 DEF Session
<1>4. /\ r.state = S[s].state /\ r.subs = S[s].subs /\ r.flags = S[s].flags
      /\ r.auth = S[s].auth /\ r.secured = HAPSessionIsSecured(S[s])
  BY <1>1 DEF Session
<1>5. Live(r) /\ ~Lost(r) /\ Subscribed(r)
  BY <1>1, <1>4 DEF Live, Lost, Good, Subscribed, PairingLost, HAPSessionIsSecured
<1>6. U = [S EXCEPT ![s] = r]
  BY DEF AllGood
<1>. HIDE DEF U, r
<1>7. Outcome(S, U, s) /\ AllGood(U) /\ U[s] = r
  <2>1. Outcome(S, [S EXCEPT ![s] = r], s) /\ AllGood([S EXCEPT ![s] = r])
        /\ [S EXCEPT ![s] = r][s] = r
    BY <1>3, <1>4, <1>5, OwnOutcome
  <2>. QED  BY <1>6, <2>1
<1>8. CASE T = CloseSession(S, s)
  BY <1>8, CloseOutcome
<1>9. CASE T = U
  BY <1>7, <1>9
<1>10. CASE T \in HandleHTTP(U, s)
  BY <1>4, <1>5, <1>7, <1>10, HTTPLemma, OutcomeAfter
<1>. QED  BY <1>8, <1>9, <1>10 DEF HandleInput, U

\* ReadInboundData, whatever the client sent.
LEMMA ReadLemma ==
  ASSUME NEW S, AllGood(S), NEW s \in Slots, Live(S[s]), NEW T \in ReadInboundData(S, s)
  PROVE  Outcome(S, T, s)
<1>1. CASE T = S
  BY <1>1 DEF Outcome, Handled, Other, Live
<1>2. CASE T = CloseSession(S, s)
  BY <1>2, CloseOutcome
<1>3. ASSUME NEW n \in S[s].input + 1 .. InboundSize,
             T \in HandleInput([S EXCEPT ![s].input = n], s)
      PROVE  Outcome(S, T, s)
  <2>. DEFINE r == [S[s] EXCEPT !.input = n]
  <2>1. S[s] \in Session /\ Good(S[s])
    BY DEF AllGood
  <2>2. n \in 0 .. InboundSize
    BY <2>1, Bounds DEF Session
  <2>3. r \in Session
    BY <2>1, <2>2 DEF Session
  <2>4. /\ r.state = S[s].state /\ r.subs = S[s].subs /\ r.flags = S[s].flags
        /\ r.auth = S[s].auth /\ r.secured = S[s].secured
    BY <2>1 DEF Session
  <2>5. Live(r) /\ Subscribed(r) /\ (Lost(r) => Lost(S[s]))
    BY <2>1, <2>4 DEF Live, Good, Subscribed, Lost, PairingLost, HAPSessionIsSecured
  <2>6. [S EXCEPT ![s].input = n] = [S EXCEPT ![s] = r]
    BY DEF AllGood
  <2>. HIDE DEF r
  <2>7. /\ Outcome(S, [S EXCEPT ![s] = r], s) /\ AllGood([S EXCEPT ![s] = r])
        /\ [S EXCEPT ![s] = r][s] = r
    BY <2>3, <2>4, <2>5, OwnOutcome
  <2>8. Outcome([S EXCEPT ![s] = r], T, s)
    BY <1>3, <2>5, <2>6, <2>7, InputLemma
  <2>. QED  BY <2>4, <2>7, <2>8, OutcomeAfter
<1>. QED  BY <1>1, <1>2, <1>3 DEF ReadInboundData

\* handle_output_completion, which reads on with what is in the buffer.
LEMMA OutputLemma ==
  ASSUME NEW S, AllGood(S), NEW s \in Slots, Live(S[s]), NEW T \in OutputCompleted(S, s)
  PROVE  Outcome(S, T, s)
<1>. DEFINE U == [S EXCEPT ![s].state = "Reading", ![s].output = 0]
            r == [S[s] EXCEPT !.state = "Reading", !.output = 0]
<1>1. CASE PairingLost(S[s])
  BY <1>1, CloseOutcome DEF OutputCompleted
<1>2. CASE ~PairingLost(S[s])
  <2>1. S[s] \in Session /\ Good(S[s])
    BY DEF AllGood
  <2>2. 0 \in 0 .. OutboundSize
    BY Bounds
  <2>3. r \in Session
    BY <2>1, <2>2 DEF Session
  <2>4. /\ r.state = "Reading" /\ r.subs = S[s].subs /\ r.flags = S[s].flags
        /\ r.auth = S[s].auth /\ r.secured = S[s].secured
    BY <2>1 DEF Session
  <2>5. Live(r) /\ ~Lost(r) /\ Subscribed(r)
    BY <1>2, <2>1, <2>4 DEF Live, Good, Subscribed, Lost, PairingLost, HAPSessionIsSecured
  <2>6. U = [S EXCEPT ![s] = r]
    BY DEF AllGood
  <2>7. T = U \/ T \in HandleInput(U, s)
    BY <1>2 DEF OutputCompleted
  <2>. HIDE DEF U, r
  <2>8. Outcome(S, U, s) /\ AllGood(U) /\ U[s] = r
    <3>1. Outcome(S, [S EXCEPT ![s] = r], s) /\ AllGood([S EXCEPT ![s] = r])
          /\ [S EXCEPT ![s] = r][s] = r
      BY <2>3, <2>4, <2>5, OwnOutcome
    <3>. QED  BY <2>6, <3>1
  <2>9. CASE T \in HandleInput(U, s)
    BY <2>4, <2>5, <2>8, <2>9, InputLemma, OutcomeAfter
  <2>. QED  BY <2>7, <2>8, <2>9
<1>. QED  BY <1>1, <1>2

\* WriteOutboundData, however much the stream takes.
LEMMA WriteLemma ==
  ASSUME NEW S, AllGood(S), NEW s \in Slots, Live(S[s]), NEW T \in WriteOutboundData(S, s)
  PROVE  Outcome(S, T, s)
<1>1. CASE T = S
  BY <1>1 DEF Outcome, Handled, Other, Live
<1>2. CASE T = CloseSession(S, s)
  BY <1>2, CloseOutcome
<1>3. ASSUME NEW n \in 1 .. S[s].output - 1, T = [S EXCEPT ![s].output = n]
      PROVE  Outcome(S, T, s)
  <2>. DEFINE r == [S[s] EXCEPT !.output = n]
  <2>1. S[s] \in Session /\ Good(S[s])
    BY DEF AllGood
  <2>2. n \in 0 .. OutboundSize
    BY <2>1, Bounds DEF Session
  <2>3. r \in Session
    BY <2>1, <2>2 DEF Session
  <2>4. /\ r.state = S[s].state /\ r.subs = S[s].subs /\ r.flags = S[s].flags
        /\ r.auth = S[s].auth /\ r.secured = S[s].secured
    BY <2>1 DEF Session
  <2>5. Live(r) /\ Subscribed(r) /\ (Lost(r) => Lost(S[s]))
    BY <2>1, <2>4 DEF Live, Good, Subscribed, Lost, PairingLost, HAPSessionIsSecured
  <2>6. T = [S EXCEPT ![s] = r]
    BY <1>3 DEF AllGood
  <2>. HIDE DEF r
  <2>7. Outcome(S, [S EXCEPT ![s] = r], s)
    BY <2>3, <2>4, <2>5, OwnOutcome
  <2>. QED  BY <2>6, <2>7
<1>4. CASE T \in OutputCompleted(S, s)
  BY <1>4, OutputLemma
<1>. QED  BY <1>1, <1>2, <1>3, <1>4 DEF WriteOutboundData

\* What sending notifications may make of the sessions S.
Notified(S, T) ==
  /\ AllGood(T)
  /\ \A t \in Slots :
       /\ ~Live(S[t]) => T[t] = S[t]
       /\ Live(S[t]) => Live(T[t])
       /\ S[t].interest = InterestOf(S[t]) => T[t].interest = InterestOf(T[t])
       /\ ~Lost(S[t]) => ~Lost(T[t])
       /\ AtRest(T[t]) => AtRest(S[t])
       /\ S[t].state = "Writing" => T[t].state = "Writing"
       /\ t \in Roomy => S[t].flags \subseteq T[t].flags \/ T[t].state = "Writing"

\* Notifications sent in two parts.
LEMMA NotifiedTransitive ==
  ASSUME NEW S, NEW T, NEW U, Notified(S, T), Notified(T, U)
  PROVE  Notified(S, U)
BY DEF Notified

\* write_event_notifications on some sessions: the interest follows the state.
LEMMA WriteNotificationsLemma ==
  ASSUME NEW S, AllGood(S), NEW who, NEW skipped, skipped \cap Roomy = {}
  PROVE  Notified(S, WriteEventNotifications(S, who, skipped))
<1>. DEFINE T == WriteEventNotifications(S, who, skipped)
<1>1. ASSUME NEW t \in Slots
      PROVE  /\ T[t] \in Session /\ Good(T[t])
             /\ ~Live(S[t]) => T[t] = S[t]
             /\ Live(S[t]) => Live(T[t])
             /\ S[t].interest = InterestOf(S[t]) => T[t].interest = InterestOf(T[t])
             /\ ~Lost(S[t]) => ~Lost(T[t])
             /\ AtRest(T[t]) => AtRest(S[t])
             /\ S[t].state = "Writing" => T[t].state = "Writing"
             /\ t \in Roomy => S[t].flags \subseteq T[t].flags \/ T[t].state = "Writing"
  <2>. DEFINE stamped == IF ~S[t].secured \/ S[t].quiet >= EventDelay THEN 0 ELSE S[t].quiet
              cleared == [S[t] EXCEPT !.flags = @ \ Sendable(S[t]), !.quiet = stamped]
              sent == [cleared EXCEPT !.state = "Writing", !.output = OutboundSize,
                                      !.interest = "write"]
  <2>1. S[t] \in Session /\ Good(S[t])
    BY DEF AllGood
  <2>2. CASE t \notin who \/ Sendable(S[t]) = {}
    <3>1. T[t] = S[t]
      BY <2>2 DEF WriteEventNotifications
    <3>. QED  BY <2>1, <3>1
  <2>3. CASE ~(t \notin who \/ Sendable(S[t]) = {})
    <3>1. T[t] = (IF ~S[t].secured \/ t \in skipped THEN cleared ELSE sent)
      BY <2>3 DEF WriteEventNotifications
    <3>2. S[t].state = "Reading" /\ AtRest(S[t]) /\ S[t].secured
      BY <2>1, <2>3 DEF Sendable, AtRest, Good, Subscribed
    <3>3. stamped \in 0 .. EventDelay /\ OutboundSize \in 0 .. OutboundSize
      BY <2>1, Bounds DEF Session
    <3>4. S[t].flags \ Sendable(S[t]) \in SUBSET Chars
      BY <2>1 DEF Session
    <3>. HIDE DEF stamped
    <3>5. cleared \in Session
      BY <2>1, <3>3, <3>4 DEF Session
    <3>6. /\ cleared.state = "Reading" /\ cleared.interest = S[t].interest
          /\ cleared.subs = S[t].subs /\ cleared.secured = S[t].secured
          /\ cleared.auth = S[t].auth /\ cleared.flags \subseteq S[t].flags
      BY <2>1, <3>2 DEF Session
    <3>. HIDE DEF cleared
    <3>7. sent \in Session
      BY <3>3, <3>5 DEF Session
    <3>8. /\ sent.state = "Writing" /\ sent.interest = "write"
          /\ sent.subs = cleared.subs /\ sent.secured = cleared.secured
          /\ sent.auth = cleared.auth /\ sent.flags = cleared.flags
      BY <3>5 DEF Session
    <3>. HIDE DEF sent
    <3>9. CASE t \in skipped
      BY <2>1, <3>1, <3>2, <3>5, <3>6, <3>9
         DEF Good, Subscribed, Live, InterestOf, Lost, PairingLost, HAPSessionIsSecured
    <3>10. CASE t \notin skipped
      BY <2>1, <3>1, <3>2, <3>6, <3>7, <3>8, <3>10
         DEF Good, Subscribed, Live, InterestOf, Lost
    <3>. HIDE DEF T
    <3>. QED  BY <3>9, <3>10
  <2>. QED  BY <2>2, <2>3
<1>2. T \in [Slots -> Session]
  BY <1>1 DEF WriteEventNotifications
<1>. HIDE DEF T
<1>3. Notified(S, T)
  BY <1>1, <1>2 DEF Notified, AllGood
<1>. QED  BY <1>3 DEF T

\* Raising an event leaves the interests of the sessions alone.
LEMMA RaiseNotified ==
  ASSUME NEW S, AllGood(S), NEW c \in Chars, NEW targets
  PROVE  Notified(S, RaiseEvent(S, c, targets))
<1>. DEFINE T == RaiseEvent(S, c, targets)
<1>1. ASSUME NEW t \in Slots
      PROVE  /\ AllGood(T)
             /\ T[t].state = S[t].state /\ T[t].interest = S[t].interest
             /\ T[t].secured = S[t].secured /\ T[t].auth = S[t].auth
             /\ T[t].input = S[t].input /\ S[t].flags \subseteq T[t].flags
             /\ ~Live(S[t]) => T[t] = S[t]
  <2>1. S[t] \in Session /\ Good(S[t])
    BY DEF AllGood
  <2>2. AllGood(T)
    BY RaiseLemma DEF Handled
  <2>3. CASE t \in targets /\ c \in S[t].subs
    <3>1. T[t] = [S[t] EXCEPT !.flags = @ \cup {c}]
      BY <2>3 DEF RaiseEvent
    <3>2. Live(S[t])
      BY <2>1, <2>3 DEF Good, FreeSession, ClosedSession, Live, Session
    <3>. QED  BY <2>1, <2>2, <3>1, <3>2 DEF Session
  <2>4. CASE ~(t \in targets /\ c \in S[t].subs)
    <3>1. T[t] = S[t]
      BY <2>4 DEF RaiseEvent
    <3>. QED  BY <2>2, <3>1
  <2>. QED  BY <2>3, <2>4
<1>2. AllGood(T)
  BY RaiseLemma, ServerAssumption DEF Handled, ServerAssumption
<1>. HIDE DEF T
<1>3. Notified(S, T)
  BY <1>1, <1>2 DEF Notified, Live, AtRest, InterestOf, Lost, PairingLost, HAPSessionIsSecured
<1>. QED  BY <1>3 DEF T

\* The first pass of schedule_event_notifications, interrupted or not.
LEMMA NotifyPassLemma ==
  ASSUME NEW S, AllGood(S), NEW p \in NotifyPass(S)
  PROVE  Notified(S, p.sess)
<1>1. ASSUME NEW k, k \cap Roomy = {},
             p = [sess |-> WriteEventNotifications(S, Slots, k), raised |-> FALSE]
      PROVE  Notified(S, p.sess)
  BY <1>1, WriteNotificationsLemma
<1>2. ASSUME NEW before, NEW c \in Chars, NEW k, k \cap Roomy = {},
             p = InterruptedPass(S, before, c, k)
      PROVE  Notified(S, p.sess)
  <2>. DEFINE T == WriteEventNotifications(S, before, k)
              U == RaiseEvent(T, c, Slots)
              V == WriteEventNotifications(U, Slots \ before, k)
  <2>2. p.sess = V
    BY <1>2 DEF InterruptedPass
  <2>3. Notified(S, T)
    BY <1>2, WriteNotificationsLemma
  <2>. HIDE DEF T
  <2>4. Notified(T, U)
    BY <2>3, RaiseNotified DEF Notified
  <2>. HIDE DEF U
  <2>5. Notified(U, V)
    <3>1. AllGood(U)
      BY <2>4 DEF Notified
    <3>. QED  BY <1>2, <3>1, WriteNotificationsLemma
  <2>. HIDE DEF V
  <2>. QED  BY <2>2, <2>3, <2>4, <2>5, NotifiedTransitive
<1>. QED  BY <1>1, <1>2 DEF NotifyPass

\* The earliest of some delays is one of them.
LEMMA EarliestLemma ==
  ASSUME NEW D
  PROVE  /\ Earliest(D) \subseteq D \cup {Off}
         /\ D # {} => Earliest(D) \subseteq D
BY DEF Earliest

\* The second pass finds a delay whenever a session has something to send.
LEMMA DelaysLemma ==
  ASSUME NEW S, AllGood(S)
  PROVE  /\ NotifyDelays(S) \subseteq 0 .. EventDelay
         /\ (\E t \in Slots : AtRest(S[t]) /\ S[t].flags # {}) => NotifyDelays(S) # {}
<1>1. ASSUME NEW t \in Slots
      PROVE  EventDelay - S[t].quiet \in 0 .. EventDelay
  BY Bounds DEF AllGood, Session
<1>. QED  BY <1>1 DEF NotifyDelays

\* schedule_event_notifications leaves no session waiting without a timer.
LEMMA ScheduleLemma ==
  ASSUME NEW S, AllGood(S), orphan \in BOOLEAN, ScheduleEventNotifications(S)
  PROVE  /\ Notified(S, sess')
         /\ eventTimer' \in {Off} \cup 0 .. EventDelay
         /\ orphan' \in BOOLEAN
         /\ PendingIsScheduled'
<1>1. PICK p \in NotifyPass(S) :
        /\ sess' = p.sess
        /\ eventTimer' \in IF p.raised /\ NotifyDelays(p.sess) = {} THEN {0}
                             ELSE Earliest(NotifyDelays(p.sess))
        /\ orphan' = (orphan \/ (p.raised /\ NotifyDelays(p.sess) # {}))
  BY DEF ScheduleEventNotifications
<1>2. Notified(S, sess') /\ AllGood(sess')
  BY <1>1, NotifyPassLemma DEF Notified
<1>3. /\ NotifyDelays(sess') \subseteq 0 .. EventDelay
      /\ (\E t \in Slots : AtRest(sess'[t]) /\ sess'[t].flags # {}) => NotifyDelays(sess') # {}
  BY <1>2, DelaysLemma
<1>4. 0 \in 0 .. EventDelay /\ Off \notin 0 .. EventDelay
  BY Bounds DEF Off
<1>5. /\ eventTimer' \in {0, Off} \cup NotifyDelays(sess')
      /\ NotifyDelays(sess') # {} => eventTimer' \in NotifyDelays(sess')
  BY <1>1, EarliestLemma
<1>6. PendingIsScheduled'
  BY <1>3, <1>4, <1>5 DEF PendingIsScheduled
<1>7. orphan' \in BOOLEAN
  BY <1>1
<1>. QED  BY <1>2, <1>3, <1>4, <1>5, <1>6, <1>7

\* No slot is taken or given back, and no session comes back to life.
Kept(S, T) ==
  /\ AllGood(T)
  /\ \A t \in Slots : /\ S[t].state = "Free" <=> T[t].state = "Free"
                      /\ Live(T[t]) => Live(S[t])

\* Pending notifications are cleared only when the session is closed or written to.
Told(old, new) == old.flags \subseteq new.flags \/ new.state \in {"Writing", "Idle"}

\* handle_io_progression, after a stream handler, restores the invariant: it
\* registers the interest, and the timer for what is pending.
LEMMA ProgressionLemma ==
  ASSUME TypeOK, AllGood(sess), InterestFollowsState, ClosedAwaitsCollection,
         PendingIsScheduled, NEW s \in Slots, Live(sess[s]), NEW S,
         Outcome(Stamped(s), S, s), HandleIOProgression(S, s)
  PROVE  /\ TypeOK' /\ Kept(sess, sess')
         /\ InterestFollowsState' /\ ClosedAwaitsCollection' /\ PendingIsScheduled'
         /\ SecuredWhileReading => SecuredWhileReading'
         /\ due \subseteq due' /\ due' \subseteq due \cup {"gc", "callback"}
         /\ ipState = "Stopping" => \A t \in Slots : AtRest(sess'[t]) => AtRest(sess[t])
         /\ \A t \in Roomy : Told(sess[t], sess'[t])
         /\ UNCHANGED <<state, ipState, listening, numSessions, idleTimer>>
<1>. DEFINE T == CloseIfStopping(S, s)
            r == [T[s] EXCEPT !.interest = InterestOf(T[s])]
            U == [T EXCEPT ![s].interest = InterestOf(T[s])]
<1>1. PICK c \in Reported(U[s], sess[s]) :
        /\ due' = WithGarbage(U, due) \cup c
        /\ \/ /\ AtRest(U[s]) /\ U[s].flags # {}
              /\ ScheduleEventNotifications(U)
           \/ /\ ~(AtRest(U[s]) /\ U[s].flags # {})
              /\ sess' = U
              /\ eventTimer' = IF Raised(sess, U) THEN 0 ELSE eventTimer
              /\ UNCHANGED orphan
        /\ UNCHANGED <<state, ipState, listening, numSessions, idleTimer>>
  BY DEF HandleIOProgression
<1>2. c \subseteq {"callback"}
  BY DEF Reported
<1>3. \A t \in Slots : /\ Stamped(s)[t].state = sess[t].state
                       /\ Stamped(s)[t].input = sess[t].input
                       /\ Stamped(s)[t].interest = sess[t].interest
                       /\ Stamped(s)[t].secured = sess[t].secured
                       /\ Stamped(s)[t].auth = sess[t].auth
                       /\ Stamped(s)[t].flags = sess[t].flags
                       /\ t # s => Stamped(s)[t] = sess[t]
  BY DEF Stamped, AllGood, Session
<1>4. /\ AllGood(T) /\ T[s].state # "Free"
      /\ \A t \in Slots \ {s} : T[t] = S[t]
      /\ ~Lost(S[s]) => ~Lost(T[s])
      /\ T[s].state = "Idle" \/ T[s] = S[s]
      /\ ipState = "Stopping" => ~AtRest(T[s])
  <2>1. AllGood(S) /\ S[s].state # "Free"
    BY DEF Outcome, Handled
  <2>2. CASE AtRest(S[s]) /\ ipState = "Stopping"
    <3>1. T = CloseSession(S, s)
      BY <2>2 DEF CloseIfStopping
    <3>2. T[s] = ClosedSession /\ \A t \in Slots \ {s} : T[t] = S[t]
      BY <3>1 DEF CloseSession, CloseSessions
    <3>3. Outcome(S, T, s)
      BY <2>1, <2>2, <3>1, CloseOutcome DEF AtRest, Live
    <3>. QED  BY <3>2, <3>3 DEF Outcome, Handled, AtRest, ClosedSession, FreeSession
  <2>3. CASE ~(AtRest(S[s]) /\ ipState = "Stopping")
    <3>1. T = S
      BY <2>3 DEF CloseIfStopping
    <3>. QED  BY <2>1, <2>3, <3>1
  <2>. QED  BY <2>2, <2>3
<1>. HIDE DEF T
<1>5. /\ U = [T EXCEPT ![s] = r] /\ r \in Session
      /\ r.state = T[s].state /\ r.input = T[s].input /\ r.flags = T[s].flags
      /\ r.subs = T[s].subs /\ r.secured = T[s].secured /\ r.auth = T[s].auth
      /\ r.interest = InterestOf(T[s])
      /\ T[s].state = "Idle" => r = T[s]
  <2>1. T[s] \in Session /\ Good(T[s]) /\ T \in [Slots -> Session]
    BY <1>4 DEF AllGood
  <2>2. InterestOf(T[s]) \in {"none", "read", "write"}
    BY DEF InterestOf
  <2>3. r \in Session
    BY <2>1, <2>2 DEF Session
  <2>4. /\ r.state = T[s].state /\ r.input = T[s].input /\ r.flags = T[s].flags
        /\ r.subs = T[s].subs /\ r.secured = T[s].secured /\ r.auth = T[s].auth
        /\ r.interest = InterestOf(T[s])
    BY <2>1 DEF Session
  <2>5. T[s].state = "Idle" => T[s].interest = InterestOf(T[s])
    BY <2>1 DEF Good, ClosedSession, FreeSession, InterestOf
  <2>6. T[s].state = "Idle" => r = T[s]
    BY <2>1, <2>5 DEF Session
  <2>. QED  BY <2>1, <2>3, <2>4, <2>6
<1>. HIDE DEF r, U
<1>6. /\ U[s] = r
      /\ \A t \in Slots \ {s} : U[t] = S[t]
  BY <1>4, <1>5 DEF AllGood
<1>7. Good(r) /\ InterestOf(r) = r.interest /\ r.state # "Free"
  BY <1>4, <1>5 DEF Good, AllGood, Subscribed, InterestOf
<1>8. AllGood(U)
  BY <1>4, <1>5, <1>6, <1>7 DEF AllGood
<1>9. ASSUME NEW t \in Slots \ {s}
      PROVE  Other(sess[t], U[t])
  BY <1>3, <1>6 DEF Outcome, Handled
<1>10. \A t \in Slots : U[t].interest = InterestOf(U[t])
  <2>1. ASSUME NEW t \in Slots \ {s}
        PROVE  U[t].interest = InterestOf(U[t])
    BY <1>9 DEF Other, InterestOf, ClosedSession, FreeSession, InterestFollowsState
  <2>. QED  BY <1>6, <1>7, <2>1
<1>11. Kept(sess, U)
  <2>1. ASSUME NEW t \in Slots \ {s}
        PROVE  /\ sess[t].state = "Free" <=> U[t].state = "Free"
               /\ Live(U[t]) => Live(sess[t])
    BY <1>9 DEF Other, Live, ClosedSession, FreeSession
  <2>2. sess[s].state # "Free"
    BY DEF Live
  <2>. QED  BY <1>6, <1>7, <1>8, <2>1, <2>2 DEF Kept
<1>12. SecuredWhileReading => \A t \in Slots : ~Lost(U[t])
  <2>1. ASSUME SecuredWhileReading
        PROVE  \A t \in Slots : ~Lost(U[t])
    <3>1. \A t \in Slots : ~Lost(Stamped(s)[t])
      BY <1>3, <2>1 DEF SecuredWhileReading, Lost, PairingLost, HAPSessionIsSecured
    <3>2. \A t \in Slots : ~Lost(S[t])
      BY <3>1 DEF Outcome, Handled, NoneLost
    <3>3. ~Lost(r)
      BY <1>4, <1>5, <3>2 DEF Lost, PairingLost, HAPSessionIsSecured
    <3>. QED  BY <1>6, <3>2, <3>3
  <2>. QED  BY <2>1
<1>13. /\ due \subseteq due' /\ due' \subseteq {"gc", "transition", "callback"}
       /\ due' \subseteq due \cup {"gc", "callback"}
       /\ \A t \in Slots : U[t].state = "Idle" => "gc" \in due'
  BY <1>1, <1>2 DEF WithGarbage, TypeOK, ClosedAwaitsCollection
<1>14. /\ AllGood(sess') /\ Kept(sess, sess')
       /\ \A t \in Slots : sess'[t].interest = InterestOf(sess'[t])
       /\ \A t \in Slots : sess'[t].state = "Idle" => U[t].state = "Idle"
       /\ (\A t \in Slots : ~Lost(U[t])) => (\A t \in Slots : ~Lost(sess'[t]))
       /\ eventTimer' \in {Off} \cup 0 .. EventDelay /\ orphan' \in BOOLEAN
       /\ PendingIsScheduled'
  <2>1. CASE AtRest(U[s]) /\ U[s].flags # {} /\ ScheduleEventNotifications(U)
    <3>1. /\ Notified(U, sess')
          /\ eventTimer' \in {Off} \cup 0 .. EventDelay /\ orphan' \in BOOLEAN
          /\ PendingIsScheduled'
      BY <1>8, <2>1, ScheduleLemma DEF TypeOK
    <3>2. \A t \in Slots : /\ sess'[t].state = "Idle" => U[t].state = "Idle"
                           /\ sess'[t].state = "Free" <=> U[t].state = "Free"
                           /\ Live(sess'[t]) => Live(U[t])
      <4>1. \A t \in Slots : U[t] \in Session /\ sess'[t] \in Session
        BY <1>8, <3>1 DEF AllGood, Notified
      <4>. QED  BY <3>1, <4>1 DEF Notified, Live, Session
    <3>. QED  BY <1>10, <1>11, <3>1, <3>2 DEF Notified, Kept
  <2>2. CASE /\ ~(AtRest(U[s]) /\ U[s].flags # {})
             /\ sess' = U
             /\ eventTimer' = IF Raised(sess, U) THEN 0 ELSE eventTimer
             /\ UNCHANGED orphan
    <3>1. 0 \in 0 .. EventDelay /\ 0 # Off
      BY Bounds DEF Off
    <3>2. eventTimer' \in {Off} \cup 0 .. EventDelay /\ orphan' \in BOOLEAN
      BY <2>2, <3>1 DEF TypeOK
    <3>3. ASSUME NEW t \in Slots, AtRest(U[t]), U[t].flags # {}
          PROVE  eventTimer' # Off
      <4>1. t # s
        BY <2>2, <3>3
      <4>2. CASE Raised(sess, U)
        BY <2>2, <3>1, <4>2
      <4>3. CASE ~Raised(sess, U)
        <5>1. sess[t].flags # {}
          BY <3>3, <4>3 DEF Raised
        <5>2. AtRest(sess[t])
          BY <1>9, <3>3, <4>1 DEF Other, AtRest, ClosedSession, FreeSession
        <5>. QED  BY <2>2, <4>3, <5>1, <5>2 DEF PendingIsScheduled
      <4>. QED  BY <4>2, <4>3
    <3>. QED  BY <1>8, <1>10, <1>11, <2>2, <3>2, <3>3 DEF PendingIsScheduled
  <2>. QED  BY <1>1, <2>1, <2>2
<1>15. TypeOK'
  BY <1>1, <1>13, <1>14 DEF TypeOK, AllGood
<1>17. ~AtRest(U[s]) \/ ipState # "Stopping"
  BY <1>4, <1>5, <1>6 DEF AtRest
<1>18. ipState = "Stopping" => \A t \in Slots : AtRest(sess'[t]) => AtRest(sess[t])
  <2>. SUFFICES ASSUME ipState = "Stopping", NEW t \in Slots, AtRest(sess'[t])
                PROVE  AtRest(sess[t])
    OBVIOUS
  <2>1. sess' = U
    BY <1>1, <1>17
  <2>2. t # s
    BY <1>17, <2>1
  <2>. QED  BY <1>9, <2>1, <2>2 DEF Other, AtRest, ClosedSession, FreeSession
<1>19. \A t \in Roomy : Told(sess[t], sess'[t])
  <2>1. ASSUME NEW t \in Slots
        PROVE  Told(sess[t], U[t])
    <3>1. CASE t = s
      BY <1>3, <1>4, <1>5, <1>6, <3>1 DEF Told, Outcome
    <3>2. CASE t # s
      BY <1>9, <3>2 DEF Other, Told, ClosedSession, FreeSession
    <3>. QED  BY <3>1, <3>2
  <2>2. CASE sess' = U
    BY <2>1, <2>2, Bounds
  <2>3. CASE ScheduleEventNotifications(U)
    <3>1. Notified(U, sess')
      BY <1>8, <2>3, ScheduleLemma DEF TypeOK
    <3>. QED  BY <2>1, <3>1, Bounds DEF Notified, Told, Live
  <2>. QED  BY <1>1, <2>2, <2>3
<1>16. SecuredWhileReading => SecuredWhileReading'
  BY <1>12, <1>14 DEF SecuredWhileReading, Lost
<1>. QED
  BY <1>1, <1>13, <1>14, <1>15, <1>16, <1>18, <1>19 DEF InterestFollowsState, ClosedAwaitsCollection

--------------------------------------------------------------------------------
\* The inductive invariant.  The safety properties need each other: a timer of an
\* idle engine cannot fire because EngineStates, which depends on the count of the
\* sessions; what an event finds in its session is InterestFollowsState; and a
\* progression looks at one session only, so that PendingIsScheduled needs to have
\* held for the others.
IInv ==
  /\ TypeOK
  /\ AllGood(sess)
  /\ InterestFollowsState
  /\ ClosedAwaitsCollection
  /\ PendingIsScheduled
  /\ SessionsCounted
  /\ EngineStates
  /\ ReportedState
  /\ OverBLE \/ SecuredWhileReading

\* The count stays right when no slot is taken or given back.
LEMMA KeptCounted ==
  ASSUME SessionsCounted, Kept(sess, sess'), numSessions' = numSessions
  PROVE  SessionsCounted'
<1>1. {t \in Slots : sess[t].state # "Free"} = {t \in Slots : sess'[t].state # "Free"}
  BY DEF Kept
<1>. QED  BY <1>1 DEF SessionsCounted

\* A stream event preserves the invariant.
LEMMA StreamStep ==
  ASSUME IInv, NEW s \in Slots, BytesAvailable(s) \/ SpaceAvailable(s)
  PROVE  /\ IInv' /\ Kept(sess, sess')
         /\ UNCHANGED <<state, ipState, listening, numSessions, idleTimer>>
         /\ due \subseteq due'
         /\ ipState = "Stopping" => \A t \in Slots : AtRest(sess'[t]) => AtRest(sess[t])
         /\ \A t \in Roomy : Told(sess[t], sess'[t])
<1>1. Live(sess[s])
  BY DEF IInv, InterestFollowsState, InterestOf, Live, BytesAvailable, SpaceAvailable
<1>2. AllGood(Stamped(s)) /\ Live(Stamped(s)[s])
  <2>. DEFINE r == [sess[s] EXCEPT !.idle = 0]
  <2>1. sess[s] \in Session /\ Good(sess[s]) /\ 0 \in 0 .. MaxIdle
    BY Bounds DEF IInv, AllGood
  <2>2. r \in Session
    BY <2>1 DEF Session
  <2>3. /\ r.state = sess[s].state /\ r.subs = sess[s].subs /\ r.flags = sess[s].flags
        /\ r.auth = sess[s].auth /\ r.secured = sess[s].secured
    BY <2>1 DEF Session
  <2>4. Live(r) /\ Good(r)
    BY <1>1, <2>1, <2>3 DEF Live, Good, Subscribed
  <2>5. Stamped(s) = [sess EXCEPT ![s] = r] /\ Stamped(s)[s] = r
    BY DEF Stamped, IInv, AllGood
  <2>. HIDE DEF r
  <2>. QED  BY <2>2, <2>4, <2>5 DEF AllGood, IInv
<1>3. PICK S : Outcome(Stamped(s), S, s) /\ HandleIOProgression(S, s)
  <2>1. CASE BytesAvailable(s)
    BY <1>2, <2>1, ReadLemma DEF BytesAvailable
  <2>2. CASE SpaceAvailable(s)
    BY <1>2, <2>2, WriteLemma DEF SpaceAvailable
  <2>. QED  BY <2>1, <2>2
<1>4. /\ TypeOK' /\ Kept(sess, sess')
      /\ InterestFollowsState' /\ ClosedAwaitsCollection' /\ PendingIsScheduled'
      /\ SecuredWhileReading => SecuredWhileReading'
      /\ due \subseteq due' /\ due' \subseteq due \cup {"gc", "callback"}
      /\ ipState = "Stopping" => \A t \in Slots : AtRest(sess'[t]) => AtRest(sess[t])
      /\ \A t \in Roomy : Told(sess[t], sess'[t])
      /\ UNCHANGED <<state, ipState, listening, numSessions, idleTimer>>
  BY <1>1, <1>3, ProgressionLemma DEF IInv
<1>5. SessionsCounted'
  BY <1>4, KeptCounted DEF IInv
<1>6. EngineStates'
  <2>1. ipState # "Idle"
    BY <1>1 DEF IInv, EngineStates, Live
  <2>. QED  BY <1>4, <2>1 DEF IInv, EngineStates
<1>7. ReportedState'
  BY <1>4 DEF IInv, ReportedState
<1>8. AllGood(sess')
  BY <1>4 DEF Kept
<1>. QED  BY <1>4, <1>5, <1>6, <1>7, <1>8 DEF IInv

\* schedule_max_idle_time_timer closes sessions in use and touches no other.
LEMMA IdleTimerLemma ==
  ASSUME NEW S, AllGood(S), NEW n, NEW d, listening \in BOOLEAN,
         ScheduleMaxIdleTimeTimer(S, n, d)
  PROVE  /\ AllGood(sess')
         /\ \A t \in Slots : \/ sess'[t] = S[t]
                             \/ sess'[t] = ClosedSession /\ Live(S[t])
         /\ listening' \in BOOLEAN
         /\ listening' = (listening /\ ipState # "Stopping")
         /\ idleTimer' \in {Off} \cup 0 .. MaxIdle
         /\ due' = d \cup {"gc"}
         /\ ipState = "Stopping" => \A t \in Slots : ~AtRest(sess'[t])
         /\ Limited(n) /\ (\E t \in Slots : Live(sess'[t])) => idleTimer' # Off
<1>. DEFINE closing == {s \in Slots :
                    \/ AtRest(S[s]) /\ ipState = "Stopping"
                    \/ Live(S[s]) /\ Limited(n) /\ S[s].idle >= MaxIdle}
            waiting == {s \in Slots \ closing : Live(S[s]) /\ Limited(n)}
            delays == {MaxIdle - S[s].idle : s \in waiting}
<1>1. /\ listening' = (listening /\ ipState # "Stopping")
      /\ sess' = CloseSessions(S, closing)
      /\ idleTimer' \in Earliest(delays)
      /\ due' = d \cup {"gc"}
  BY DEF ScheduleMaxIdleTimeTimer
<1>2. \A t \in closing : t \in Slots /\ Live(S[t])
  BY DEF AtRest, Live
<1>3. ASSUME NEW t \in waiting
      PROVE  MaxIdle - S[t].idle \in 0 .. MaxIdle
  <2>1. t \in Slots /\ Live(S[t]) /\ Limited(n) /\ t \notin closing
    OBVIOUS
  <2>2. ~(S[t].idle >= MaxIdle) /\ S[t].idle \in 0 .. MaxIdle
    BY <2>1 DEF AllGood, Session
  <2>. QED  BY <2>2, Bounds
<1>4. delays \subseteq 0 .. MaxIdle /\ Off \notin delays
  BY <1>3 DEF Off
<1>7. ipState = "Stopping" => \A t \in Slots : ~AtRest(sess'[t])
  BY <1>1 DEF CloseSessions, AtRest, ClosedSession, FreeSession
<1>8. ASSUME Limited(n), NEW t \in Slots, Live(sess'[t])
      PROVE  idleTimer' # Off
  <2>1. t \notin closing /\ Live(S[t])
    BY <1>1, <1>8 DEF CloseSessions, Live, ClosedSession, FreeSession
  <2>2. t \in waiting
    BY <1>8, <2>1
  <2>3. delays # {}
    BY <2>2
  <2>. HIDE DEF closing, waiting, delays
  <2>. QED  BY <1>1, <1>4, <2>3, EarliestLemma
<1>. HIDE DEF closing, waiting, delays
<1>5. AllGood(sess')
  BY <1>1, FreeIsSession, SpecialSessions DEF CloseSessions, AllGood
<1>6. \A t \in Slots : \/ sess'[t] = S[t]
                       \/ sess'[t] = ClosedSession /\ Live(S[t])
  BY <1>1, <1>2 DEF CloseSessions
<1>. QED  BY <1>1, <1>4, <1>5, <1>6, <1>7, <1>8, EarliestLemma

\* The transition timer and the idle timer preserve the invariant.
LEMMA IdleTimerStep ==
  ASSUME IInv, StateTransitionTimer \/ MaxIdleTimeTimer
  PROVE  /\ IInv' /\ Kept(sess, sess')
         /\ UNCHANGED <<state, ipState, numSessions>>
         /\ listening' = (listening /\ ipState # "Stopping")
<1>1. PICK d : /\ ScheduleMaxIdleTimeTimer(sess, numSessions, d)
               /\ d \in {due, due \ {"transition"}}
               /\ UNCHANGED <<state, ipState, numSessions, eventTimer, orphan>>
  BY DEF StateTransitionTimer, MaxIdleTimeTimer
<1>2. ipState # "Idle"
  BY DEF IInv, EngineStates, StateTransitionTimer, MaxIdleTimeTimer, Off
<1>3. /\ AllGood(sess')
      /\ \A t \in Slots : \/ sess'[t] = sess[t]
                          \/ sess'[t] = ClosedSession /\ Live(sess[t])
      /\ listening' \in BOOLEAN
      /\ listening' = (listening /\ ipState # "Stopping")
      /\ idleTimer' \in {Off} \cup 0 .. MaxIdle
      /\ due' = d \cup {"gc"}
  BY <1>1, IdleTimerLemma DEF IInv, TypeOK
<1>4. Kept(sess, sess')
  BY <1>3 DEF Kept, Live, ClosedSession, FreeSession
<1>5. TypeOK'
  BY <1>1, <1>3 DEF IInv, TypeOK, AllGood
<1>6. InterestFollowsState' /\ ClosedAwaitsCollection'
  BY <1>3 DEF IInv, InterestFollowsState, ClosedAwaitsCollection, InterestOf,
              ClosedSession, FreeSession
<1>7. PendingIsScheduled'
  BY <1>1, <1>3 DEF IInv, PendingIsScheduled, AtRest, ClosedSession, FreeSession
<1>8. SessionsCounted'
  BY <1>1, <1>4, KeptCounted DEF IInv
<1>9. EngineStates'
  BY <1>1, <1>2, <1>3 DEF IInv, EngineStates
<1>10. ReportedState'
  BY <1>1, <1>2, <1>3 DEF IInv, ReportedState
<1>11. SecuredWhileReading => SecuredWhileReading'
  BY <1>3 DEF SecuredWhileReading, ClosedSession, FreeSession
<1>. QED  BY <1>1, <1>3, <1>4, <1>5, <1>6, <1>7, <1>8, <1>9, <1>10, <1>11 DEF IInv

\* What RegisterSession puts into a slot is a good descriptor.
LEMMA AcceptedIsGood ==
  /\ AcceptedSession \in Session /\ Good(AcceptedSession)
  /\ AcceptedSession.state = "Reading" /\ AcceptedSession.interest = "read"
  /\ ~AcceptedSession.secured /\ AcceptedSession.flags = {}
<1>1. EventDelay \in 0 .. EventDelay /\ FreeSession \in Session
  BY Bounds, FreeIsSession
<1>2. AcceptedSession \in Session
  BY <1>1 DEF AcceptedSession, Session
<1>3. /\ AcceptedSession.state = "Reading" /\ AcceptedSession.interest = "read"
      /\ AcceptedSession.secured = FALSE /\ AcceptedSession.flags = {}
      /\ AcceptedSession.subs = {}
  BY DEF AcceptedSession, FreeSession
<1>. QED  BY <1>2, <1>3 DEF Good, Subscribed

\* A connection accepted preserves the invariant, the one that fills the last
\* slot included.
LEMMA AcceptStep ==
  ASSUME IInv, NEW s \in Slots, Accept(s)
  PROVE  /\ IInv'
         /\ listening /\ ~Live(sess[s])
         /\ \A t \in Slots \ {s} : Live(sess'[t]) => Live(sess[t])
         /\ sess'[s] \in {AcceptedSession, ClosedSession}
         /\ \A t \in Slots \ {s} : \/ sess'[t] = sess[t]
                                   \/ sess'[t] = ClosedSession /\ Live(sess[t])
         /\ listening' = listening \/ (ipState = "Stopping" /\ listening' = FALSE)
         /\ UNCHANGED <<state, ipState>>
<1>. DEFINE S == [sess EXCEPT ![s] = AcceptedSession]
<1>1. /\ listening /\ sess[s].state = "Free"
      /\ numSessions' = numSessions + 1
      /\ UNCHANGED <<state, ipState, eventTimer, orphan>>
      /\ \/ ScheduleMaxIdleTimeTimer(S, numSessions + 1, due)
         \/ sess' = S /\ UNCHANGED <<listening, due, idleTimer>>
  BY DEF Accept
<1>2. /\ S \in [Slots -> Session] /\ S[s] = AcceptedSession
      /\ \A t \in Slots \ {s} : S[t] = sess[t]
  BY AcceptedIsGood DEF IInv, AllGood
<1>3. AllGood(S)
  BY <1>2, AcceptedIsGood DEF AllGood, IInv
<1>. HIDE DEF S
<1>4. /\ AllGood(sess')
      /\ \A t \in Slots : \/ sess'[t] = S[t]
                          \/ sess'[t] = ClosedSession /\ Live(S[t]) /\ "gc" \in due'
      /\ listening' \in BOOLEAN
      /\ listening' = listening \/ (ipState = "Stopping" /\ listening' = FALSE)
      /\ idleTimer' \in {Off} \cup 0 .. MaxIdle
      /\ due \subseteq due' /\ due' \subseteq due \cup {"gc"}
  <2>1. CASE ScheduleMaxIdleTimeTimer(S, numSessions + 1, due)
    BY <1>3, <2>1, IdleTimerLemma DEF IInv, TypeOK
  <2>2. CASE sess' = S /\ UNCHANGED <<listening, due, idleTimer>>
    BY <1>3, <2>2 DEF IInv, TypeOK
  <2>. QED  BY <1>1, <2>1, <2>2
<1>5. ipState # "Idle"
  BY <1>1 DEF IInv, EngineStates
<1>6. TypeOK'
  BY <1>1, <1>4 DEF IInv, TypeOK, AllGood
<1>7. InterestFollowsState' /\ ClosedAwaitsCollection'
  BY <1>2, <1>4, AcceptedIsGood
     DEF IInv, InterestFollowsState, ClosedAwaitsCollection, InterestOf,
         ClosedSession, FreeSession
<1>8. PendingIsScheduled'
  BY <1>1, <1>2, <1>4, AcceptedIsGood
     DEF IInv, PendingIsScheduled, AtRest, ClosedSession, FreeSession
<1>9. SessionsCounted'
  <2>. DEFINE taken == {t \in Slots : sess[t].state # "Free"}
  <2>1. taken \cup {s} = {t \in Slots : sess'[t].state # "Free"}
    <3>1. sess'[s].state # "Free"
      BY <1>2, <1>4, AcceptedIsGood DEF ClosedSession, FreeSession
    <3>2. ASSUME NEW t \in Slots \ {s}
          PROVE  sess'[t].state # "Free" <=> sess[t].state # "Free"
      BY <1>2, <1>4 DEF ClosedSession, FreeSession, Live
    <3>. QED  BY <3>1, <3>2
  <2>2. IsFiniteSet(taken) /\ s \notin taken
    BY <1>1, ServerAssumption, FS_Subset DEF ServerAssumption
  <2>3. Cardinality(taken \cup {s}) = Cardinality(taken) + 1
    BY <2>2, FS_AddElement
  <2>. QED  BY <1>1, <2>1, <2>3 DEF IInv, SessionsCounted
<1>10. EngineStates'
  BY <1>1, <1>4, <1>5 DEF IInv, EngineStates
<1>11. ReportedState'
  BY <1>1, <1>4, <1>5 DEF IInv, ReportedState
<1>12. SecuredWhileReading => SecuredWhileReading'
  BY <1>2, <1>4, AcceptedIsGood DEF SecuredWhileReading, PairingLost, ClosedSession, FreeSession
<1>13. /\ ~Live(sess[s])
       /\ \A t \in Slots \ {s} : Live(sess'[t]) => Live(sess[t])
       /\ sess'[s] \in {AcceptedSession, ClosedSession}
       /\ \A t \in Slots \ {s} : \/ sess'[t] = sess[t]
                                 \/ sess'[t] = ClosedSession /\ Live(sess[t])
  BY <1>1, <1>2, <1>4 DEF Live, ClosedSession, FreeSession
<1>. QED
  BY <1>1, <1>4, <1>6, <1>7, <1>8, <1>9, <1>10, <1>11, <1>12, <1>13 DEF IInv

\* The collection of closed sessions preserves the invariant; the count is what
\* lets it conclude that no session is left.
LEMMA CollectStep ==
  ASSUME IInv, CollectGarbage
  PROVE  /\ IInv'
         /\ \A t \in Slots : Live(sess'[t]) <=> Live(sess[t])
         /\ UNCHANGED <<state, listening>>
<1>. DEFINE gone == {t \in Slots : sess[t].state = "Idle"}
            taken == {t \in Slots : sess[t].state # "Free"}
<1>1. /\ sess' = [t \in Slots |-> IF t \in gone THEN FreeSession ELSE sess[t]]
      /\ numSessions' = numSessions - Cardinality(gone)
      /\ \/ /\ due' = due \ {"gc"}
            /\ UNCHANGED <<ipState, idleTimer>>
            /\ ~(~listening /\ numSessions' = 0)
         \/ /\ ~listening /\ numSessions' = 0
            /\ ipState' = "Idle"
            /\ idleTimer' = Off
            /\ due' = (due \ {"gc", "transition"}) \cup {"callback"}
      /\ UNCHANGED <<state, listening, eventTimer, orphan>>
      /\ "gc" \in due
  BY DEF CollectGarbage, Remaining, Finished
<1>2. \A t \in Slots : \/ sess'[t] = FreeSession /\ sess[t].state = "Idle"
                       \/ sess'[t] = sess[t] /\ sess[t].state # "Idle"
  BY <1>1
<1>3. AllGood(sess')
  BY <1>1, FreeIsSession, SpecialSessions DEF IInv, AllGood
<1>4. taken \ gone = {t \in Slots : sess'[t].state # "Free"}
  BY <1>2 DEF FreeSession
<1>5. /\ IsFiniteSet(taken) /\ IsFiniteSet(gone)
      /\ Cardinality(taken \ gone) = Cardinality(taken) - Cardinality(gone)
      /\ Cardinality(gone) \in Nat
  <2>1. IsFiniteSet(taken) /\ IsFiniteSet(gone)
    BY ServerAssumption, FS_Subset DEF ServerAssumption
  <2>2. gone = taken \cap gone
    OBVIOUS
  <2>3. Cardinality(taken \ gone) = Cardinality(taken) - Cardinality(taken \cap gone)
    BY <2>1, FS_Difference
  <2>. QED  BY <2>1, <2>2, <2>3, FS_CardinalityType
<1>6. SessionsCounted'
  BY <1>1, <1>4, <1>5 DEF IInv, SessionsCounted
<1>7. numSessions' = 0 => \A t \in Slots : sess'[t].state = "Free"
  <2>. SUFFICES ASSUME numSessions' = 0
                PROVE  {t \in Slots : sess'[t].state # "Free"} = {}
    OBVIOUS
  <2>1. Cardinality(taken \ gone) = 0
    BY <1>4, <1>6 DEF SessionsCounted
  <2>2. IsFiniteSet(taken \ gone)
    BY <1>5, FS_Difference
  <2>3. taken \ gone = {}
    BY <2>1, <2>2, FS_EmptySet
  <2>. QED  BY <1>4, <2>3
<1>8. TypeOK'
  <2>1. numSessions' \in Int
    BY <1>1, <1>5 DEF IInv, TypeOK
  <2>. HIDE DEF gone, taken
  <2>. QED  BY <1>1, <1>3, <2>1 DEF IInv, TypeOK, AllGood
<1>9. InterestFollowsState' /\ ClosedAwaitsCollection'
  BY <1>2 DEF IInv, InterestFollowsState, ClosedAwaitsCollection, InterestOf, FreeSession
<1>10. PendingIsScheduled'
  BY <1>1, <1>2 DEF IInv, PendingIsScheduled, AtRest, FreeSession
<1>11. EngineStates'
  BY <1>1, <1>2, <1>7 DEF IInv, EngineStates, FreeSession
<1>12. ReportedState'
  BY <1>1 DEF IInv, ReportedState, EngineStates, TypeOK
<1>13. SecuredWhileReading => SecuredWhileReading'
  BY <1>2 DEF SecuredWhileReading, FreeSession
<1>14. \A t \in Slots : Live(sess'[t]) <=> Live(sess[t])
  BY <1>2 DEF Live, FreeSession
<1>. QED
  BY <1>1, <1>3, <1>6, <1>8, <1>9, <1>10, <1>11, <1>12, <1>13, <1>14 DEF IInv

\* The passing of time preserves the invariant.
LEMMA TickStep ==
  ASSUME IInv, Tick
  PROVE  IInv' /\ Kept(sess, sess') /\ UNCHANGED <<state, ipState, listening>>
<1>1. /\ idleTimer' = Elapsed(idleTimer) /\ eventTimer' = Elapsed(eventTimer)
      /\ UNCHANGED <<state, ipState, listening, numSessions, due, orphan>>
  BY DEF Tick
<1>2. ASSUME NEW t \in Slots
      PROVE  /\ sess'[t] \in Session /\ Good(sess'[t])
             /\ sess'[t].state = sess[t].state /\ sess'[t].input = sess[t].input
             /\ sess'[t].flags = sess[t].flags /\ sess'[t].interest = sess[t].interest
             /\ sess'[t].secured = sess[t].secured /\ sess'[t].auth = sess[t].auth
  <2>. DEFINE i == IF sess[t].idle < MaxIdle THEN sess[t].idle + 1 ELSE sess[t].idle
              q == IF sess[t].quiet < EventDelay THEN sess[t].quiet + 1 ELSE sess[t].quiet
  <2>1. sess[t] \in Session /\ Good(sess[t])
    BY DEF IInv, AllGood
  <2>2. i \in 0 .. MaxIdle /\ q \in 0 .. EventDelay
    BY <2>1, Bounds DEF Session
  <2>3. CASE ~Live(sess[t])
    <3>1. sess'[t] = sess[t]
      BY <2>3 DEF Tick
    <3>. QED  BY <2>1, <3>1
  <2>4. CASE Live(sess[t])
    <3>1. sess'[t] = [sess[t] EXCEPT !.idle = i, !.quiet = q]
      BY <2>1, <2>4 DEF Tick, Session
    <3>. HIDE DEF i, q
    <3>2. /\ sess'[t] \in Session
          /\ sess'[t].state = sess[t].state /\ sess'[t].input = sess[t].input
          /\ sess'[t].flags = sess[t].flags /\ sess'[t].interest = sess[t].interest
          /\ sess'[t].secured = sess[t].secured /\ sess'[t].auth = sess[t].auth
          /\ sess'[t].subs = sess[t].subs
      BY <2>1, <2>2, <3>1 DEF Session
    <3>. QED  BY <2>1, <2>4, <3>2 DEF Good, Subscribed, Live
  <2>. QED  BY <2>3, <2>4
<1>3. AllGood(sess')
  BY <1>2 DEF AllGood, Tick
<1>4. Kept(sess, sess')
  BY <1>2, <1>3 DEF Kept, Live
<1>5. /\ idleTimer' \in {Off} \cup 0 .. MaxIdle
      /\ eventTimer' \in {Off} \cup 0 .. EventDelay
      /\ idleTimer = Off => idleTimer' = Off
      /\ eventTimer # Off => eventTimer' # Off
  BY <1>1, Bounds DEF IInv, TypeOK, Elapsed, Off
<1>6. TypeOK'
  BY <1>1, <1>3, <1>5 DEF IInv, TypeOK, AllGood
<1>7. InterestFollowsState' /\ ClosedAwaitsCollection'
  BY <1>1, <1>2 DEF IInv, InterestFollowsState, ClosedAwaitsCollection, InterestOf
<1>8. PendingIsScheduled'
  BY <1>2, <1>5 DEF IInv, PendingIsScheduled, AtRest
<1>9. SessionsCounted'
  BY <1>1, <1>4, KeptCounted DEF IInv
<1>10. EngineStates' /\ ReportedState'
  BY <1>1, <1>2, <1>5 DEF IInv, EngineStates, ReportedState
<1>11. SecuredWhileReading => SecuredWhileReading'
  BY <1>2 DEF SecuredWhileReading, PairingLost, HAPSessionIsSecured
<1>. QED
  BY <1>1, <1>3, <1>4, <1>6, <1>7, <1>8, <1>9, <1>10, <1>11 DEF IInv

\* The event notification timer preserves the invariant.
LEMMA EventTimerStep ==
  ASSUME IInv, EventNotificationTimer
  PROVE  IInv' /\ Kept(sess, sess') /\ UNCHANGED <<state, ipState, listening>>
<1>1. /\ ScheduleEventNotifications(sess)
      /\ UNCHANGED <<state, ipState, listening, numSessions, due, idleTimer>>
  BY DEF EventNotificationTimer
<1>2. /\ Notified(sess, sess')
      /\ eventTimer' \in {Off} \cup 0 .. EventDelay
      /\ orphan' \in BOOLEAN
      /\ PendingIsScheduled'
  BY <1>1, ScheduleLemma DEF IInv, TypeOK
<1>3. AllGood(sess')
  BY <1>2 DEF Notified
<1>4. ASSUME NEW t \in Slots
      PROVE  /\ sess'[t].state = "Free" <=> sess[t].state = "Free"
             /\ sess'[t].state = "Idle" <=> sess[t].state = "Idle"
             /\ Live(sess'[t]) <=> Live(sess[t])
  <2>1. sess[t] \in Session /\ sess'[t] \in Session
    BY <1>3 DEF IInv, AllGood
  <2>. QED  BY <1>2, <2>1 DEF Notified, Live, Session
<1>5. Kept(sess, sess')
  BY <1>3, <1>4 DEF Kept
<1>6. TypeOK'
  BY <1>1, <1>2, <1>3 DEF IInv, TypeOK, AllGood
<1>7. InterestFollowsState' /\ ClosedAwaitsCollection'
  BY <1>1, <1>2, <1>4 DEF IInv, InterestFollowsState, ClosedAwaitsCollection, Notified
<1>8. SessionsCounted'
  BY <1>1, <1>5, KeptCounted DEF IInv
<1>9. EngineStates' /\ ReportedState'
  BY <1>1, <1>4 DEF IInv, EngineStates, ReportedState
<1>10. SecuredWhileReading => SecuredWhileReading'
  BY <1>2 DEF SecuredWhileReading, Notified, Lost
<1>. QED
  BY <1>1, <1>2, <1>3, <1>5, <1>6, <1>7, <1>8, <1>9, <1>10 DEF IInv

\* An event raised by the application preserves the invariant.
LEMMA RaiseStep ==
  ASSUME IInv, NEW c \in Chars, NEW targets, AppRaisesEvent(c, targets)
  PROVE  IInv' /\ Kept(sess, sess') /\ UNCHANGED <<state, ipState, listening>>
<1>1. /\ sess' = RaiseEvent(sess, c, targets) /\ eventTimer' = 0
      /\ UNCHANGED <<state, ipState, listening, numSessions, due, idleTimer, orphan>>
  BY DEF AppRaisesEvent
<1>2. Notified(sess, sess')
  BY <1>1, RaiseNotified DEF IInv
<1>3. AllGood(sess')
  BY <1>2 DEF Notified
<1>4. ASSUME NEW t \in Slots
      PROVE  /\ sess'[t].state = "Free" <=> sess[t].state = "Free"
             /\ sess'[t].state = "Idle" <=> sess[t].state = "Idle"
             /\ Live(sess'[t]) <=> Live(sess[t])
  <2>1. sess[t] \in Session /\ sess'[t] \in Session
    BY <1>3 DEF IInv, AllGood
  <2>. QED  BY <1>2, <2>1 DEF Notified, Live, Session
<1>5. Kept(sess, sess')
  BY <1>3, <1>4 DEF Kept
<1>6. 0 \in 0 .. EventDelay /\ 0 # Off
  BY Bounds DEF Off
<1>7. TypeOK' /\ PendingIsScheduled'
  BY <1>1, <1>3, <1>6 DEF IInv, TypeOK, AllGood, PendingIsScheduled
<1>8. InterestFollowsState' /\ ClosedAwaitsCollection'
  BY <1>1, <1>2, <1>4 DEF IInv, InterestFollowsState, ClosedAwaitsCollection, Notified
<1>9. SessionsCounted'
  BY <1>1, <1>5, KeptCounted DEF IInv
<1>10. EngineStates' /\ ReportedState'
  BY <1>1, <1>4 DEF IInv, EngineStates, ReportedState
<1>11. SecuredWhileReading => SecuredWhileReading'
  BY <1>2 DEF SecuredWhileReading, Notified, Lost
<1>. QED
  BY <1>1, <1>3, <1>5, <1>7, <1>8, <1>9, <1>10, <1>11 DEF IInv

\* A pairing removed over Bluetooth LE preserves the invariant, which promises
\* SecuredWhileReading only without that transport.
LEMMA RemoveStep ==
  ASSUME IInv, NEW s \in Slots, RemovePairingOverBLE(s)
  PROVE  IInv' /\ Kept(sess, sess') /\ UNCHANGED <<state, ipState, listening>>
<1>. DEFINE r == [sess[s] EXCEPT !.auth = "removed"]
<1>1. /\ OverBLE /\ sess[s].auth = "verified"
      /\ sess' = [sess EXCEPT ![s].auth = "removed"]
      /\ due \subseteq due' /\ due' \subseteq due \cup {"callback"}
      /\ UNCHANGED <<state, ipState, listening, numSessions, idleTimer, eventTimer, orphan>>
  BY DEF RemovePairingOverBLE
<1>2. sess[s] \in Session /\ Good(sess[s]) /\ sess \in [Slots -> Session]
  BY DEF IInv, AllGood
<1>3. r \in Session
  BY <1>2 DEF Session
<1>4. /\ r.state = sess[s].state /\ r.input = sess[s].input /\ r.flags = sess[s].flags
      /\ r.subs = sess[s].subs /\ r.secured = sess[s].secured
      /\ r.interest = sess[s].interest /\ r.auth = "removed"
  BY <1>2 DEF Session
<1>5. sess' = [sess EXCEPT ![s] = r]
  BY <1>1, <1>2
<1>. HIDE DEF r
<1>6. Good(r)
  BY <1>1, <1>2, <1>4 DEF Good, Subscribed, FreeSession, ClosedSession
<1>7. AllGood(sess')
  BY <1>2, <1>3, <1>5, <1>6 DEF AllGood, IInv
<1>8. \A t \in Slots : /\ sess'[t].state = sess[t].state /\ sess'[t].input = sess[t].input
                       /\ sess'[t].flags = sess[t].flags
                       /\ sess'[t].interest = sess[t].interest
  BY <1>2, <1>4, <1>5
<1>9. Kept(sess, sess')
  BY <1>7, <1>8 DEF Kept, Live
<1>10. TypeOK'
  BY <1>1, <1>7 DEF IInv, TypeOK, AllGood
<1>11. InterestFollowsState' /\ ClosedAwaitsCollection' /\ PendingIsScheduled'
  BY <1>1, <1>8
     DEF IInv, InterestFollowsState, ClosedAwaitsCollection, PendingIsScheduled,
         InterestOf, AtRest
<1>12. SessionsCounted'
  BY <1>1, <1>9, KeptCounted DEF IInv
<1>13. EngineStates' /\ ReportedState'
  BY <1>1, <1>8 DEF IInv, EngineStates, ReportedState
<1>. QED
  BY <1>1, <1>7, <1>9, <1>10, <1>11, <1>12, <1>13 DEF IInv

\* The calls of the application and its callback preserve the invariant.
LEMMA ControlStep ==
  ASSUME IInv, Start \/ StartRefused \/ Stop \/ HandleUpdatedState
  PROVE  IInv' /\ UNCHANGED sess
<1>1. UNCHANGED <<numSessions, sess, idleTimer, eventTimer, orphan>>
  BY DEF Start, StartRefused, Stop, HandleUpdatedState
<1>2. TypeOK'
  BY <1>1 DEF IInv, TypeOK, Start, StartRefused, Stop, HandleUpdatedState
<1>3. ClosedAwaitsCollection'
  BY <1>1 DEF IInv, ClosedAwaitsCollection, Start, StartRefused, Stop, HandleUpdatedState
<1>4. EngineStates'
  <2>1. CASE Start
    BY <1>1, <2>1 DEF IInv, EngineStates, Start
  <2>2. CASE StartRefused
    BY <1>1, <2>2 DEF IInv, EngineStates, StartRefused
  <2>3. CASE Stop
    BY <1>1, <2>3 DEF IInv, EngineStates, Stop
  <2>4. CASE HandleUpdatedState
    BY <1>1, <2>4 DEF IInv, EngineStates, HandleUpdatedState
  <2>. QED  BY <2>1, <2>2, <2>3, <2>4
<1>5. ReportedState'
  <2>1. CASE Start
    BY <2>1 DEF IInv, ReportedState, Start
  <2>2. CASE StartRefused
    BY <2>2 DEF IInv, ReportedState, StartRefused
  <2>3. CASE Stop
    BY <2>3 DEF IInv, ReportedState, Stop
  <2>4. CASE HandleUpdatedState
    BY <2>4 DEF IInv, ReportedState, HandleUpdatedState
  <2>. QED  BY <2>1, <2>2, <2>3, <2>4
<1>6. /\ AllGood(sess') /\ InterestFollowsState' /\ PendingIsScheduled' /\ SessionsCounted'
      /\ SecuredWhileReading => SecuredWhileReading'
  BY <1>1 DEF IInv, InterestFollowsState, PendingIsScheduled, SessionsCounted,
              SecuredWhileReading
<1>. QED  BY <1>1, <1>2, <1>3, <1>4, <1>5, <1>6 DEF IInv

--------------------------------------------------------------------------------
\* A server that has been created satisfies the invariant.
LEMMA Initially == Init => IInv
<1>. SUFFICES ASSUME Init
              PROVE  IInv
  OBVIOUS
<1>1. \A s \in Slots : sess[s] = FreeSession
  BY DEF Init
<1>2. AllGood(sess)
  BY <1>1, FreeIsSession, SpecialSessions DEF AllGood, Init
<1>3. TypeOK
  <2>1. listening \in BOOLEAN /\ orphan \in BOOLEAN
    BY DEF Init
  <2>2. numSessions \in Int
    BY DEF Init
  <2>. QED  BY <1>2, <2>1, <2>2 DEF TypeOK, Init, AllGood
<1>4. SessionsCounted
  <2>1. {s \in Slots : sess[s].state # "Free"} = {}
    BY <1>1 DEF FreeSession
  <2>. QED  BY <2>1, FS_EmptySet DEF SessionsCounted, Init
<1>5. /\ InterestFollowsState /\ ClosedAwaitsCollection /\ PendingIsScheduled
      /\ SecuredWhileReading
  BY <1>1 DEF InterestFollowsState, ClosedAwaitsCollection, PendingIsScheduled,
              SecuredWhileReading, InterestOf, AtRest, FreeSession
<1>6. EngineStates /\ ReportedState
  BY <1>1 DEF EngineStates, ReportedState, Init, FreeSession
<1>. QED  BY <1>2, <1>3, <1>4, <1>5, <1>6 DEF IInv

\* Every step preserves the invariant.
LEMMA Inductive == IInv /\ [Next]_vars => IInv'
<1>. SUFFICES ASSUME IInv, [Next]_vars
              PROVE  IInv'
  OBVIOUS
<1>1. CASE Timers
  BY <1>1, CollectStep, IdleTimerStep, EventTimerStep, ControlStep DEF Timers
<1>2. CASE Application
  BY <1>2, ControlStep, RaiseStep DEF Application
<1>3. CASE Streams
  BY <1>3, AcceptStep, StreamStep, RemoveStep DEF Streams
<1>4. CASE Tick
  BY <1>4, TickStep
<1>5. CASE UNCHANGED vars
  BY <1>5 DEF vars, IInv, TypeOK, InterestFollowsState, ClosedAwaitsCollection,
              PendingIsScheduled, SessionsCounted, EngineStates, ReportedState,
              SecuredWhileReading
<1>. QED  BY <1>1, <1>2, <1>3, <1>4, <1>5 DEF Next

\* IInv is an invariant of the server.
THEOREM Invariance == Spec => []IInv
BY Initially, Inductive, PTL DEF Spec

\* The descriptors of HAPIPAccessoryServer.c keep their types: buffer positions stay
\* within the buffers and the timers within their periods.
THEOREM TypeCorrect == Spec => []TypeOK
<1>1. IInv => TypeOK
  BY DEF IInv
<1>. QED  BY <1>1, Invariance, PTL

\* The assertion n == numSessions of collect_garbage holds, for any number of
\* slots: RegisterSession and collect_garbage keep numSessions right.
THEOREM CountCorrect == Spec => []SessionsCounted
<1>1. IInv => SessionsCounted
  BY DEF IInv
<1>. QED  BY <1>1, Invariance, PTL

\* CloseSession, whoever calls it, leaves the garbage collection timer registered
\* (the assertion of handle_io_progression).
THEOREM ClosedIsCollected == Spec => []ClosedAwaitsCollection
<1>1. IInv => ClosedAwaitsCollection
  BY DEF IInv
<1>. QED  BY <1>1, Invariance, PTL

\* No slot is lost (RegisterSession, CloseSession, collect_garbage): the counter is
\* right, and what is closed will be collected.
THEOREM SlotsAreAccounted == Spec => []SlotsAccounted
BY CountCorrect, ClosedIsCollected, PTL DEF SlotsAccounted

\* A session that waits with notifications pending has an event timer: none of
\* schedule_event_notifications, handle_io_progression and raise_event forgets it.
THEOREM PendingIsCovered == Spec => []PendingIsScheduled
<1>1. IInv => PendingIsScheduled
  BY DEF IInv
<1>. QED  BY <1>1, Invariance, PTL

\* The interest registered with the TCP stream manager is that of the session's
\* state, as HandleTCPStreamEvent asserts.
THEOREM InterestIsCurrent == Spec => []InterestFollowsState
<1>1. IInv => InterestFollowsState
  BY DEF IInv
<1>. QED  BY <1>1, Invariance, PTL

\* Both: whatever a session waits for is registered.
THEOREM WaitsRegistered == Spec => []WaitsAreRegistered
BY PendingIsCovered, InterestIsCurrent, PTL DEF WaitsAreRegistered

\* Subscriptions and pending notifications exist on secured sessions only, and only
\* for what is subscribed to (CloseSession, write_event_notifications).
THEOREM SubscriptionsAreSecured == Spec => []SubscribersSecured
<1>1. IInv => SubscribersSecured
  BY DEF IInv, AllGood, Good, Subscribed, SubscribersSecured
<1>. QED  BY <1>1, Invariance, PTL

\* A running engine listens and an idle one has nothing left: collect_garbage
\* completes a stop that was asked for, and once.
THEOREM EngineIsConsistent == Spec => []EngineStates
<1>1. IInv => EngineStates
  BY DEF IInv
<1>. QED  BY <1>1, Invariance, PTL

\* The state reported by HAPAccessoryServerGetState and the handleUpdatedState
\* callback agrees with the engine's.
THEOREM ReportIsTrue == Spec => []ReportedState
<1>1. IInv => ReportedState
  BY DEF IInv
<1>. QED  BY <1>1, Invariance, PTL

\* The engine and what HAPAccessoryServerGetState tells of it agree in every state.
THEOREM LifeCycleIsConsistent == Spec => []LifeCycleConsistent
BY EngineIsConsistent, ReportIsTrue, PTL DEF LifeCycleConsistent

\* Served over IP only, no session reaches handle_input in a state that fails its
\* assertion: the loop of handle_pairing_data closes every one that could.
THEOREM ReadersAreSecured ==
  ASSUME ~OverBLE
  PROVE  Spec => []SecuredWhileReading
<1>1. IInv => SecuredWhileReading
  BY DEF IInv
<1>. QED  BY <1>1, Invariance, PTL

\* The same of whoever is subscribed, read from, or both.
THEOREM OnlySecuredAreServed ==
  ASSUME ~OverBLE
  PROVE  Spec => []OnlySecured
BY SubscriptionsAreSecured, ReadersAreSecured, PTL DEF OnlySecured

\* What SlotsNotStolen says of a step.
SlotStep ==
  \A s \in Slots :
    /\ sess[s].state = "Free" => sess'[s] \in {FreeSession, AcceptedSession, ClosedSession}
    /\ Live(sess[s]) => sess'[s].state # "Free"
    /\ sess[s].state = "Idle" => sess'[s] \in {ClosedSession, FreeSession}

\* A step that takes and gives back no slot.
LEMMA KeptSlots ==
  ASSUME AllGood(sess), Kept(sess, sess')
  PROVE  SlotStep
<1>1. ASSUME NEW s \in Slots
      PROVE  /\ sess[s].state = "Free" => sess'[s] = FreeSession
             /\ Live(sess[s]) => sess'[s].state # "Free"
             /\ sess[s].state = "Idle" => sess'[s] = ClosedSession
  <2>1. sess[s] \in Session /\ sess'[s] \in Session /\ Good(sess'[s])
    BY DEF AllGood, Kept
  <2>2. /\ sess[s].state = "Free" <=> sess'[s].state = "Free"
        /\ Live(sess'[s]) => Live(sess[s])
    BY DEF Kept
  <2>. QED  BY <2>1, <2>2 DEF Good, Live, Session
<1>. QED  BY <1>1 DEF SlotStep

\* No step of the server steals a slot.
LEMMA SlotsPreserved == IInv /\ [Next]_vars => SlotStep
<1>. SUFFICES ASSUME IInv, [Next]_vars
              PROVE  SlotStep
  OBVIOUS
<1>1. AllGood(sess)
  BY DEF IInv
<1>2. ASSUME Kept(sess, sess')
      PROVE  SlotStep
  BY <1>1, <1>2, KeptSlots
<1>3. ASSUME UNCHANGED sess
      PROVE  SlotStep
  BY <1>1, <1>3 DEF SlotStep, AllGood, Good, Live
<1>4. ASSUME CollectGarbage
      PROVE  SlotStep
  <2>1. \A s \in Slots : sess'[s] = IF sess[s].state = "Idle" THEN FreeSession ELSE sess[s]
    BY <1>4 DEF CollectGarbage
  <2>. QED  BY <1>1, <2>1 DEF SlotStep, AllGood, Good, Live
<1>5. ASSUME NEW s \in Slots, Accept(s)
      PROVE  SlotStep
  <2>1. sess[s].state = "Free"
    BY <1>5 DEF Accept
  <2>2. sess'[s] \in {AcceptedSession, ClosedSession}
        /\ \A t \in Slots \ {s} : \/ sess'[t] = sess[t]
                                  \/ sess'[t] = ClosedSession /\ Live(sess[t])
    BY <1>5, AcceptStep
  <2>. QED  BY <1>1, <2>1, <2>2 DEF SlotStep, AllGood, Good, Live, ClosedSession, FreeSession
<1>6. CASE Timers
  BY <1>2, <1>3, <1>4, <1>6, IdleTimerStep, EventTimerStep, ControlStep DEF Timers
<1>7. CASE Application
  BY <1>2, <1>3, <1>7, ControlStep, RaiseStep DEF Application
<1>8. CASE Streams
  BY <1>2, <1>5, <1>8, StreamStep, RemoveStep DEF Streams
<1>9. CASE Tick
  BY <1>2, <1>9, TickStep
<1>10. CASE UNCHANGED vars
  BY <1>3, <1>10 DEF vars
<1>. QED  BY <1>6, <1>7, <1>8, <1>9, <1>10 DEF Next

\* HandlePendingTCPStream never hands out a slot in use, and collect_garbage never
\* zeroes one (SlotsNotStolen).
THEOREM SlotsAreKept == Spec => SlotsNotStolen
<1>1. IInv /\ [Next]_vars => [SlotStep]_vars
  BY SlotsPreserved
<1>. QED  BY <1>1, Invariance, PTL DEF Spec, SlotsNotStolen, SlotStep

--------------------------------------------------------------------------------
\* A stop that has been asked for is under way before the listener is closed, and
\* goes on afterwards: with IInv, this is inductive.
Watched ==
  /\ ipState = "Stopping" /\ listening => "transition" \in due
  /\ NeverWaitsOnClients

\* A step that leaves the timers of a stop alone, and brings no session to rest while
\* the engine stops.
LEMMA StillWatched ==
  ASSUME Watched, Kept(sess, sess'), due \cap {"gc", "transition"} \subseteq due',
         ipState = "Stopping" => \A t \in Slots : AtRest(sess'[t]) => AtRest(sess[t]),
         idleTimer = Off <=> idleTimer' = Off,
         UNCHANGED <<ipState, listening, numSessions>>
  PROVE  Watched'
<1>1. StopContinues'
  BY DEF Watched, NeverWaitsOnClients, StopContinues
<1>2. IdlenessWatched'
  BY DEF Watched, NeverWaitsOnClients, IdlenessWatched, Full, Kept
<1>. QED  BY <1>1, <1>2 DEF Watched, NeverWaitsOnClients

\* schedule_max_idle_time_timer watches whoever it leaves, whichever timer has called it.
LEMMA TimersWatch ==
  ASSUME IInv, Watched, StateTransitionTimer \/ MaxIdleTimeTimer
  PROVE  Watched'
<1>1. PICK d : /\ ScheduleMaxIdleTimeTimer(sess, numSessions, d)
               /\ UNCHANGED <<ipState, numSessions>>
  BY DEF StateTransitionTimer, MaxIdleTimeTimer
<1>2. /\ listening' = (listening /\ ipState # "Stopping") /\ "gc" \in due'
      /\ ipState = "Stopping" => \A t \in Slots : ~AtRest(sess'[t])
      /\ Limited(numSessions) /\ (\E t \in Slots : Live(sess'[t])) => idleTimer' # Off
  BY <1>1, IdleTimerLemma DEF IInv, TypeOK
<1>3. StopContinues' /\ IdlenessWatched'
  BY <1>1, <1>2 DEF StopContinues, IdlenessWatched, Full, Limited
<1>. QED  BY <1>1, <1>2, <1>3 DEF Watched, NeverWaitsOnClients

\* RegisterSession has the timer registered when it fills the last slot.
LEMMA AcceptWatched ==
  ASSUME IInv, Watched, NEW s \in Slots, Accept(s)
  PROVE  Watched'
<1>. DEFINE S == [sess EXCEPT ![s] = AcceptedSession]
<1>1. listening /\ numSessions' = numSessions + 1 /\ UNCHANGED ipState
  BY DEF Accept
<1>2. CASE numSessions + 1 = Cardinality(Slots) /\ ScheduleMaxIdleTimeTimer(S, numSessions + 1, due)
  <2>1. AllGood(S)
    BY AcceptedIsGood DEF AllGood, IInv
  <2>. HIDE DEF S
  <2>2. /\ listening' = (listening /\ ipState # "Stopping") /\ "gc" \in due' /\ due \subseteq due'
        /\ ipState = "Stopping" => \A t \in Slots : ~AtRest(sess'[t])
        /\ Limited(numSessions + 1) /\ (\E t \in Slots : Live(sess'[t])) => idleTimer' # Off
    BY <1>2, <2>1, IdleTimerLemma DEF IInv, TypeOK
  <2>3. StopContinues' /\ IdlenessWatched'
    BY <1>1, <2>2 DEF StopContinues, IdlenessWatched, Full, Limited
  <2>. QED  BY <1>1, <2>2, <2>3 DEF Watched, NeverWaitsOnClients
<1>3. CASE numSessions + 1 # Cardinality(Slots) /\ UNCHANGED <<listening, due, idleTimer>>
  <2>1. StopContinues'
    BY <1>1, <1>3 DEF Watched, NeverWaitsOnClients, StopContinues
  <2>2. IdlenessWatched'
    BY <1>1, <1>3 DEF IdlenessWatched, Full
  <2>. QED  BY <1>1, <1>3, <2>1, <2>2 DEF Watched, NeverWaitsOnClients
<1>. QED  BY <1>2, <1>3 DEF Accept

\* collect_garbage leaves a session only if it is watched, or if the listener has yet to
\* be closed.
LEMMA CollectWatched ==
  ASSUME IInv, Watched, CollectGarbage
  PROVE  Watched'
<1>. DEFINE gone == {t \in Slots : sess[t].state = "Idle"}
<1>1. /\ IInv' /\ \A t \in Slots : Live(sess'[t]) <=> Live(sess[t])
      /\ UNCHANGED listening
  BY CollectStep
<1>2. \A t \in Slots : sess'[t] = IF sess[t].state = "Idle" THEN FreeSession ELSE sess[t]
  BY DEF CollectGarbage
<1>3. CASE Finished(Remaining(gone))
  <2>1. ipState' = "Idle" /\ \A t \in Slots : ~Live(sess'[t])
    BY <1>1, <1>3 DEF CollectGarbage, IInv, EngineStates, Live
  <2>. QED  BY <2>1 DEF Watched, NeverWaitsOnClients, StopContinues, IdlenessWatched
<1>4. CASE ~Finished(Remaining(gone))
  <2>1. numSessions' = numSessions - Cardinality(gone) /\ due' = due \ {"gc"}
        /\ UNCHANGED <<ipState, idleTimer>> /\ (listening \/ numSessions' # 0)
    BY <1>1, <1>4 DEF CollectGarbage, Remaining, Finished
  <2>2. Full' => Full
    <3>1. IsFiniteSet({t \in Slots : sess[t].state # "Free"}) /\ IsFiniteSet(gone) /\ IsFiniteSet(Slots)
      BY ServerAssumption, FS_Subset DEF ServerAssumption
    <3>2. numSessions <= Cardinality(Slots) /\ Cardinality(gone) \in Nat
          /\ Cardinality(Slots) \in Nat /\ numSessions \in Nat
      BY <3>1, FS_Subset, FS_CardinalityType DEF IInv, SessionsCounted
    <3>. QED  BY <2>1, <3>2 DEF Full
  <2>3. numSessions' # 0 => \E t \in Slots : Live(sess'[t])
    <3>1. ASSUME \A t \in Slots : ~Live(sess'[t])
          PROVE  numSessions' = 0
      <4>1. \A t \in Slots : sess[t] \in Session
        BY DEF IInv, AllGood
      <4>2. {t \in Slots : sess'[t].state # "Free"} = {}
        BY <1>2, <3>1, <4>1 DEF Live, Session, FreeSession
      <4>. QED  BY <1>1, <4>2, FS_EmptySet DEF IInv, SessionsCounted
    <3>. QED  BY <3>1
  <2>4. IdlenessWatched'
    BY <1>1, <2>1, <2>2 DEF Watched, NeverWaitsOnClients, IdlenessWatched
  <2>5. \A t \in Slots : AtRest(sess'[t]) => AtRest(sess[t])
    BY <1>2 DEF AtRest, FreeSession
  <2>6. StopContinues'
    BY <1>1, <2>1, <2>3, <2>4, <2>5
       DEF Watched, NeverWaitsOnClients, StopContinues, IdlenessWatched
  <2>. QED  BY <1>1, <2>1, <2>4, <2>6 DEF Watched, NeverWaitsOnClients
<1>. QED  BY <1>3, <1>4

\* A start, a stop and the report of either.
LEMMA ControlWatched ==
  ASSUME IInv, Watched, Start \/ StartRefused \/ Stop \/ HandleUpdatedState
  PROVE  Watched'
<1>1. UNCHANGED <<numSessions, sess, idleTimer>>
  BY ControlStep DEF Start, StartRefused, Stop, HandleUpdatedState
<1>2. CASE Start
  <2>1. ipState' = "Running" /\ \A t \in Slots : ~Live(sess[t])
    BY <1>2 DEF Start, IInv, EngineStates, Live
  <2>. QED  BY <1>1, <2>1 DEF Watched, NeverWaitsOnClients, StopContinues, IdlenessWatched
<1>3. CASE Stop /\ ipState = "Running" /\ ipState' # "Running"
  <2>1. ipState' = "Stopping" /\ "transition" \in due' /\ listening /\ listening' = listening
    BY <1>3 DEF Stop, IInv, EngineStates
  <2>. QED
    BY <1>1, <2>1 DEF Watched, NeverWaitsOnClients, StopContinues, IdlenessWatched, Full
<1>4. CASE UNCHANGED <<ipState, listening>> /\ due \cap {"gc", "transition"} \subseteq due'
  BY <1>1, <1>4 DEF Watched, NeverWaitsOnClients, StopContinues, IdlenessWatched, Full
<1>. QED
  BY <1>2, <1>3, <1>4 DEF StartRefused, Stop, HandleUpdatedState

LEMMA WatchedKept == IInv /\ Watched /\ [Next]_vars => Watched'
<1>. SUFFICES ASSUME IInv, Watched, [Next]_vars
              PROVE  Watched'
  OBVIOUS
<1>1. ASSUME NEW s \in Slots, BytesAvailable(s) \/ SpaceAvailable(s)
      PROVE  Watched'
  BY <1>1, StreamStep, StillWatched
<1>2. ASSUME NEW s \in Slots, RemovePairingOverBLE(s)
      PROVE  Watched'
  <2>1. /\ sess' = [sess EXCEPT ![s].auth = "removed"] /\ due \subseteq due'
        /\ UNCHANGED <<ipState, listening, numSessions, idleTimer>>
    BY <1>2 DEF RemovePairingOverBLE
  <2>2. \A t \in Slots : AtRest(sess'[t]) => AtRest(sess[t])
    BY <2>1 DEF IInv, AllGood, Session, AtRest
  <2>. QED  BY <1>2, <2>1, <2>2, RemoveStep, StillWatched
<1>3. CASE EventNotificationTimer
  <2>1. UNCHANGED <<ipState, listening, numSessions, due, idleTimer>> /\ Notified(sess, sess')
    BY <1>3, ScheduleLemma DEF EventNotificationTimer, IInv, TypeOK
  <2>. QED  BY <1>3, <2>1, EventTimerStep, StillWatched DEF Notified
<1>4. ASSUME NEW c \in Chars, NEW targets, AppRaisesEvent(c, targets)
      PROVE  Watched'
  <2>1. UNCHANGED <<ipState, listening, numSessions, due, idleTimer>> /\ Notified(sess, sess')
    BY <1>4, RaiseNotified DEF AppRaisesEvent, IInv
  <2>. QED  BY <1>4, <2>1, RaiseStep, StillWatched DEF Notified
<1>5. CASE Tick
  <2>1. UNCHANGED <<ipState, listening, numSessions, due>> /\ idleTimer' = Elapsed(idleTimer)
    BY <1>5 DEF Tick
  <2>2. idleTimer = Off <=> idleTimer' = Off
    BY <2>1, Bounds DEF IInv, TypeOK, Elapsed, Off
  <2>3. \A t \in Slots : AtRest(sess'[t]) => AtRest(sess[t])
    BY <1>5, ZenonT(60) DEF Tick, IInv, AllGood, Session, AtRest
  <2>. QED  BY <1>5, <2>1, <2>2, <2>3, TickStep, StillWatched
<1>6. CASE UNCHANGED vars
  BY <1>6 DEF vars, Watched, NeverWaitsOnClients, StopContinues, IdlenessWatched, Full
<1>. QED
  BY <1>1, <1>2, <1>3, <1>4, <1>5, <1>6, TimersWatch, AcceptWatched, CollectWatched, ControlWatched
     DEF Next, Timers, Application, Streams

\* Neither a stop nor a full server depends on its clients to go on: schedule_max_idle_time_timer
\* and collect_garbage always leave a timer behind, for any number of slots.
THEOREM NoClientIsWaitedFor == Spec => []NeverWaitsOnClients
<1>1. Init => Watched
  BY DEF Init, Watched, NeverWaitsOnClients, StopContinues, IdlenessWatched, Live, FreeSession
<1>2. Watched => NeverWaitsOnClients
  BY DEF Watched
<1>. QED  BY <1>1, <1>2, WatchedKept, Invariance, PTL DEF Spec

\* What NotificationsSent says of a step.
SentStep ==
  \A s \in Roomy :
    sess[s].flags \ sess'[s].flags # {} => sess'[s].state \in {"Writing", "Idle"}

LEMMA NotificationsPreserved ==
  ASSUME IInv, [Next]_vars
  PROVE  SentStep
<1>1. ASSUME \A t \in Roomy : Told(sess[t], sess'[t])
      PROVE  SentStep
  BY <1>1 DEF Told, SentStep
<1>2. ASSUME \A t \in Slots : sess[t].flags \subseteq sess'[t].flags \/ sess'[t] = ClosedSession
      PROVE  SentStep
  BY <1>2, Bounds DEF SentStep, ClosedSession, FreeSession
<1>3. ASSUME NEW s \in Slots, Accept(s)
      PROVE  SentStep
  <2>1. sess[s] = FreeSession
    BY <1>3 DEF Accept, IInv, AllGood, Good
  <2>2. \A t \in Slots \ {s} : sess'[t] = sess[t] \/ sess'[t] = ClosedSession
    BY <1>3, AcceptStep
  <2>3. sess[s].flags = {}
    BY <2>1 DEF FreeSession
  <2>. QED  BY <1>2, <2>2, <2>3
<1>4. CASE CollectGarbage
  <2>1. \A t \in Slots : sess'[t] = IF sess[t].state = "Idle" THEN FreeSession ELSE sess[t]
    BY <1>4 DEF CollectGarbage
  <2>2. \A t \in Slots : sess[t].state = "Idle" => sess[t].flags = {}
    BY DEF IInv, AllGood, Good, ClosedSession, FreeSession
  <2>. QED  BY <1>2, <2>1, <2>2
<1>5. CASE StateTransitionTimer \/ MaxIdleTimeTimer
  <2>1. PICK d : ScheduleMaxIdleTimeTimer(sess, numSessions, d)
    BY <1>5 DEF StateTransitionTimer, MaxIdleTimeTimer
  <2>2. \A t \in Slots : sess'[t] = sess[t] \/ sess'[t] = ClosedSession
    BY <2>1, IdleTimerLemma DEF IInv, TypeOK
  <2>. QED  BY <1>2, <2>2
<1>6. CASE EventNotificationTimer
  <2>1. Notified(sess, sess')
    BY <1>6, ScheduleLemma DEF EventNotificationTimer, IInv, TypeOK
  <2>. QED  BY <1>1, <2>1, Bounds DEF Notified, Told
<1>7. ASSUME NEW c \in Chars, NEW targets, AppRaisesEvent(c, targets)
      PROVE  SentStep
  <2>1. Notified(sess, sess')
    BY <1>7, RaiseNotified DEF AppRaisesEvent, IInv
  <2>. QED  BY <1>1, <2>1, Bounds DEF Notified, Told
<1>8. ASSUME NEW s \in Slots, RemovePairingOverBLE(s)
      PROVE  SentStep
  <2>1. \A t \in Slots : sess'[t].flags = sess[t].flags
    BY <1>8 DEF RemovePairingOverBLE, IInv, AllGood, Session
  <2>. QED  BY <1>2, <2>1
<1>9. CASE Tick
  <2>1. \A t \in Slots : sess'[t].flags = sess[t].flags
    BY <1>9 DEF Tick, IInv, AllGood, Session
  <2>. QED  BY <1>2, <2>1
<1>10. ASSUME UNCHANGED sess
       PROVE  SentStep
  BY <1>10 DEF SentStep
<1>11. ASSUME NEW s \in Slots, BytesAvailable(s) \/ SpaceAvailable(s)
       PROVE  SentStep
  BY <1>1, <1>11, StreamStep
<1>12. CASE Timers
  BY <1>4, <1>5, <1>6, <1>10, <1>12, ControlStep DEF Timers
<1>13. CASE Application
  BY <1>7, <1>10, <1>13, ControlStep DEF Application
<1>14. CASE Streams
  BY <1>3, <1>8, <1>11, <1>14 DEF Streams
<1>15. CASE UNCHANGED vars
  BY <1>10, <1>15 DEF vars
<1>. QED  BY <1>9, <1>12, <1>13, <1>14, <1>15 DEF Next

\* In a session whose outbound buffer takes any notification, notifications are cleared
\* only by being sent or with their connection (write_event_notifications,
\* engine_raise_event), whatever the buffers of the others.
THEOREM NotificationsAreSent == Spec => NotificationsSent
<1>1. IInv /\ [Next]_vars => [SentStep]_vars
  BY NotificationsPreserved
<1>. QED  BY <1>1, Invariance, PTL DEF Spec, NotificationsSent, SentStep

--------------------------------------------------------------------------------
\* A step that only closes connections is one of the abstract server.
LEMMA OpenShrinks ==
  ASSUME \A t \in Slots : Live(sess'[t]) => Live(sess[t]),
         state' = state,
         listening' = listening \/ (state = "Stopping" /\ listening' = FALSE)
  PROVE  Lifecycle!Disconnect
<1>1. {t \in Slots : Live(sess'[t])} \subseteq {t \in Slots : Live(sess[t])}
  OBVIOUS
<1>. QED  BY <1>1 DEF Lifecycle!Disconnect, Lifecycle!Accepting

\* Every step of the server is a step of the abstract one, or none.
LEMMA LifecycleStep == IInv /\ [Next]_vars => [Lifecycle!Next]_(Lifecycle!lifecycle)
<1>. SUFFICES ASSUME IInv, [Next]_vars
              PROVE  Lifecycle!Next \/ UNCHANGED Lifecycle!lifecycle
  OBVIOUS
<1>1. ipState = "Stopping" => state = "Stopping"
  BY DEF IInv, ReportedState
<1>2. ASSUME Kept(sess, sess'), UNCHANGED <<state, listening>>
      PROVE  Lifecycle!Next
  BY <1>2, OpenShrinks DEF Kept, Lifecycle!Next
<1>3. ASSUME NEW s \in Slots, Accept(s)
      PROVE  Lifecycle!Next
  <2>1. /\ listening /\ ~Live(sess[s])
        /\ \A t \in Slots \ {s} : Live(sess'[t]) => Live(sess[t])
        /\ listening' = listening \/ (ipState = "Stopping" /\ listening' = FALSE)
        /\ state' = state
    BY <1>3, AcceptStep
  <2>2. {t \in Slots : Live(sess'[t])} \subseteq {t \in Slots : Live(sess[t])} \cup {s}
    BY <2>1
  <2>3. Lifecycle!Connect(s)
    BY <1>1, <2>1, <2>2 DEF Lifecycle!Connect, Lifecycle!Accepting
  <2>. QED  BY <2>3 DEF Lifecycle!Next
<1>4. CASE Timers
  <2>1. CASE CollectGarbage
    BY <2>1, CollectStep, OpenShrinks DEF Lifecycle!Next
  <2>2. CASE StateTransitionTimer \/ MaxIdleTimeTimer
    <3>1. /\ Kept(sess, sess') /\ state' = state
          /\ listening' = (listening /\ ipState # "Stopping")
      BY <2>2, IdleTimerStep
    <3>2. listening \in BOOLEAN
      BY DEF IInv, TypeOK
    <3>. QED  BY <1>1, <3>1, <3>2, OpenShrinks DEF Kept, Lifecycle!Next
  <2>3. CASE EventNotificationTimer
    BY <1>2, <2>3, EventTimerStep
  <2>4. CASE HandleUpdatedState
    <3>1. UNCHANGED <<listening, sess>>
      BY <2>4 DEF HandleUpdatedState
    <3>2. CASE ipState = "Idle" /\ state # "Idle"
      <4>1. state' = "Idle" /\ state = "Stopping" /\ ~listening
        BY <2>4, <3>2 DEF HandleUpdatedState, IInv, ReportedState, EngineStates
      <4>2. {t \in Slots : Live(sess[t])} = {}
        BY <3>2 DEF IInv, EngineStates, Live
      <4>. QED  BY <3>1, <4>1, <4>2 DEF Lifecycle!Stopped, Lifecycle!Next
    <3>3. CASE ~(ipState = "Idle" /\ state # "Idle")
      <4>1. state' = state
        BY <2>4, <3>3 DEF HandleUpdatedState
      <4>. QED  BY <3>1, <4>1 DEF Lifecycle!lifecycle
    <3>. QED  BY <3>2, <3>3
  <2>. QED  BY <1>4, <2>1, <2>2, <2>3, <2>4 DEF Timers
<1>5. CASE Application
  <2>1. CASE Start
    BY <2>1 DEF Start, Lifecycle!Start, Lifecycle!Next
  <2>2. CASE StartRefused
    BY <2>2 DEF StartRefused, Lifecycle!lifecycle
  <2>3. CASE Stop
    <3>1. state' = "Stopping" /\ state # "Idle" /\ UNCHANGED <<listening, sess>>
      BY <2>3 DEF Stop
    <3>2. state \in {"Running", "Stopping"}
      BY <3>1 DEF IInv, TypeOK
    <3>. QED  BY <3>1, <3>2 DEF Lifecycle!Stop, Lifecycle!Next, Lifecycle!lifecycle
  <2>4. ASSUME NEW c \in Chars, NEW targets, AppRaisesEvent(c, targets)
        PROVE  Lifecycle!Next
    BY <1>2, <2>4, RaiseStep
  <2>. QED  BY <1>5, <2>1, <2>2, <2>3, <2>4 DEF Application
<1>6. CASE Streams
  BY <1>2, <1>3, <1>6, StreamStep, RemoveStep DEF Streams
<1>7. CASE Tick
  BY <1>2, <1>7, TickStep
<1>8. CASE UNCHANGED vars
  BY <1>8 DEF vars, Lifecycle!lifecycle
<1>. QED  BY <1>4, <1>5, <1>6, <1>7, <1>8 DEF Next

\* The engine implements the life cycle that HAPAccessoryServerStart and -Stop
\* promise the application (LifecycleKept), for any number of connections.
THEOREM LifecycleIsKept == Spec => LifecycleKept
<1>1. Init => Lifecycle!Init
  BY DEF Init, Lifecycle!Init, Live, FreeSession
<1>. QED  BY <1>1, LifecycleStep, Invariance, PTL DEF Spec, LifecycleKept, Lifecycle!Spec
================================================================================
