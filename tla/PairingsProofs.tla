---------------------------- MODULE PairingsProofs ----------------------------
(***************************************************************************)
(* Proofs about module PairedAccessory: first about Pairings, for any      *)
(* controllers, sessions, limit of pairings and cache, then about what a   *)
(* paired accessory is to its controllers (Configuration).                 *)
(*                                                                         *)
(* What a session is allowed to do rests on the pairing it was proven to   *)
(* be of; so the invariant of Pairings is about every place that holds a   *)
(* reference to a pairing (Refers): the active session, an exchange that   *)
(* has been proven and not been answered, and an element of the cache.     *)
(***************************************************************************)
EXTENDS PairedAccessory, Sequences, FiniteSets, FiniteSetTheorems, WellFoundedInduction, TLAPS

Pairing == {NoPairing} \cup [controller : Controllers, admin : BOOLEAN]
PairingIDs == Keys \cup {-1}
Haps == [active : BOOLEAN, pairingID : PairingIDs, stale : BOOLEAN]
PairVerifies == [state : 0 .. 3, resumes : BOOLEAN, error : BOOLEAN, pairingID : PairingIDs, stale : BOOLEAN]
Procedures ==
  [state : 0 .. 1, error : BOOLEAN,
   method : {"none", "AddPairing", "RemovePairing", "ListPairings"}, removed : Controllers \cup {NoOne}]
SessionType ==
  [client : Controllers \cup {NoOne}, hap : Haps, pairVerify : PairVerifies, pairings : Procedures]
Secrets == [controller : Controllers, stale : BOOLEAN]
Element == [lastUsed : Nat, pairingID : Keys, secret : Secrets \cup {0}]

TypeOK ==
  /\ pairings \in [Keys -> Pairing]
  /\ session \in [Sessions -> SessionType]
  /\ cache \in [Elements -> Element]
  /\ timestamp \in Nat
  /\ pending \in Sessions \cup {NoOne}

\* For pairings p, controller c is, or was, the one of the pairing at key id.
Refers(p, id, stale, c) ==
  /\ id \in Keys /\ c \in Controllers
  /\ ~stale => p[id].controller = c

\* The exchange will make the session active if it is answered.
IsProven(pv) == ~pv.error /\ (pv.state = 3 \/ pv.resumes)

SessionSound(p, x) ==
  /\ x.hap.active => Refers(p, x.hap.pairingID, x.hap.stale, x.client)
  /\ IsProven(x.pairVerify) => Refers(p, x.pairVerify.pairingID, x.pairVerify.stale, x.client)

ElementSound(p, d) ==
  d.lastUsed # 0 => d.secret \in Secrets /\ Refers(p, d.pairingID, d.secret.stale, d.secret.controller)

References ==
  /\ \A s \in Sessions : SessionSound(pairings, session[s])
  /\ \A e \in Elements : ElementSound(pairings, cache[e])

IInv == TypeOK /\ References /\ AdminOrNone

-----------------------------------------------------------------------------
(* The operators the steps are made of                                       *)

\* Of the keys that are free there is a first one, and AddPairing takes it.
LEMMA FirstFreeKey ==
  ASSUME FreeKeys # {}
  PROVE  (CHOOSE k \in FreeKeys : \A j \in FreeKeys : k <= j) \in FreeKeys
<1>1. FreeKeys \subseteq Nat /\ Keys \subseteq Nat
  BY PairVerifyAssumption DEF FreeKeys, Keys
<1>2. \E x \in FreeKeys : \A y \in FreeKeys : ~(<<y, x>> \in OpToRel(<, Nat))
  BY <1>1, WFMin, NatLessThanWellFounded
<1>3. PICK x \in FreeKeys : \A y \in FreeKeys : ~(<<y, x>> \in OpToRel(<, Nat))
  BY <1>2
<1>4. \A y \in FreeKeys : ~(y < x)
  BY <1>1, <1>3, Zenon DEF OpToRel
<1>5. \E k \in FreeKeys : \A j \in FreeKeys : k <= j
  BY <1>1, <1>4
<1> QED
  BY <1>5

\* The parts of a session that are reset have the type of what they were.
LEMMA ResetTypes ==
  /\ NoPairing \in Pairing /\ NoPairing.controller = NoOne
  /\ 0 \in Keys /\ -1 \in PairingIDs /\ Keys \subseteq PairingIDs
  /\ PairVerifyReset \in PairVerifies /\ ~IsProven(PairVerifyReset)
  /\ PairingsReset \in Procedures
  /\ Closed \in SessionType /\ ~Closed.hap.active /\ Closed.pairVerify = PairVerifyReset
  /\ EmptyCache \in [Elements -> Element] /\ \A e \in Elements : EmptyCache[e].lastUsed = 0
<1> USE PairVerifyAssumption
<1>1. 0 \in Keys /\ -1 \in PairingIDs /\ Keys \subseteq PairingIDs
  BY DEF Keys, PairingIDs
<1>2. PairVerifyReset \in PairVerifies /\ ~IsProven(PairVerifyReset)
  BY <1>1 DEF PairVerifyReset, PairVerifies, IsProven
<1>3. PairingsReset \in Procedures
  BY DEF PairingsReset, Procedures
<1>4. Closed \in SessionType /\ ~Closed.hap.active /\ Closed.pairVerify = PairVerifyReset
  BY <1>1, <1>2, <1>3 DEF Closed, NotActive, SessionType, Haps
<1>5. EmptyCache \in [Elements -> Element] /\ \A e \in Elements : EmptyCache[e].lastUsed = 0
  BY <1>1 DEF EmptyCache, ZeroedElement, Element
<1> QED
  BY <1>1, <1>2, <1>3, <1>4, <1>5 DEF NoPairing, Pairing

\* What every session needs of the step: it is sound, and so is what is cached.
LEMMA SessionsStaySound ==
  ASSUME IInv, NEW s \in Sessions, UNCHANGED pairings,
         NEW x \in SessionType, SessionSound(pairings, x),
         session' = [session EXCEPT ![s] = x]
  PROVE  /\ session' \in [Sessions -> SessionType]
         /\ \A t \in Sessions : SessionSound(pairings', session'[t])
BY DEF IInv, TypeOK, References

\* Only the state of Pair Verify changes, to one that refers to a pairing if it is proven.
LEMMA PairVerifyChanges ==
  ASSUME IInv, NEW s \in Sessions, UNCHANGED pairings, NEW pv \in PairVerifies, WithPairVerify(s, pv),
         IsProven(pv) => Refers(pairings, pv.pairingID, pv.stale, session[s].client)
  PROVE  /\ session' \in [Sessions -> SessionType]
         /\ \A t \in Sessions : SessionSound(pairings', session'[t])
<1> DEFINE x == [session[s] EXCEPT !.pairVerify = pv]
<1>1. session[s] \in SessionType /\ SessionSound(pairings, session[s])
  BY DEF IInv, TypeOK, References
<1>2. /\ x \in SessionType
      /\ x.pairVerify = pv /\ x.hap = session[s].hap /\ x.client = session[s].client
  BY <1>1 DEF SessionType
<1>3. SessionSound(pairings, x)
  BY <1>1, <1>2 DEF SessionSound
<1>4. session' = [session EXCEPT ![s] = x]
  BY DEF WithPairVerify
<1> QED
  BY <1>2, <1>3, <1>4, SessionsStaySound

\* Only the state of the procedure changes.
LEMMA ProcedureChanges ==
  ASSUME IInv, NEW s \in Sessions, UNCHANGED pairings, NEW prs \in Procedures,
         session' = [session EXCEPT ![s].pairings = prs]
  PROVE  /\ session' \in [Sessions -> SessionType]
         /\ \A t \in Sessions : SessionSound(pairings', session'[t])
<1> DEFINE x == [session[s] EXCEPT !.pairings = prs]
<1>1. session[s] \in SessionType /\ SessionSound(pairings, session[s])
  BY DEF IInv, TypeOK, References
<1>2. /\ x \in SessionType
      /\ x.pairVerify = session[s].pairVerify /\ x.hap = session[s].hap /\ x.client = session[s].client
  BY <1>1 DEF SessionType
<1>3. SessionSound(pairings, x)
  BY <1>1, <1>2 DEF SessionSound
<1> QED
  BY <1>2, <1>3, SessionsStaySound

\* The session begins to be active with the pairing of a proven exchange.
LEMMA SessionStarts ==
  ASSUME IInv, NEW s \in Sessions, UNCHANGED pairings, IsProven(session[s].pairVerify), StartSession(s)
  PROVE  /\ session' \in [Sessions -> SessionType]
         /\ \A t \in Sessions : SessionSound(pairings', session'[t])
<1> DEFINE pv == session[s].pairVerify
           hap == [active |-> TRUE, pairingID |-> pv.pairingID, stale |-> pv.stale]
           x == [session[s] EXCEPT !.hap = hap, !.pairVerify = PairVerifyReset]
<1>1. session[s] \in SessionType /\ SessionSound(pairings, session[s])
  BY DEF IInv, TypeOK, References
<1>2. pv \in PairVerifies /\ hap \in Haps
  BY <1>1 DEF SessionType, PairVerifies, Haps
<1>3. /\ x \in SessionType
      /\ x.pairVerify = PairVerifyReset /\ x.hap = hap /\ x.client = session[s].client
  BY <1>1, <1>2, ResetTypes DEF SessionType
<1>4. SessionSound(pairings, x)
  BY <1>1, <1>3, ResetTypes DEF SessionSound
<1>5. session' = [session EXCEPT ![s] = x]
  BY DEF StartSession
<1> QED
  BY <1>3, <1>4, <1>5, SessionsStaySound

\* Saving the session of a proven exchange caches a reference to its pairing, whichever element
\* is overwritten and whether the time stamp wraps or not.
LEMMA SavedIsSound ==
  ASSUME IInv, NEW s \in Sessions, UNCHANGED pairings, IsProven(session[s].pairVerify), SaveSession(s)
  PROVE  /\ cache' \in [Elements -> Element] /\ timestamp' \in Nat
         /\ \A e \in Elements : ElementSound(pairings', cache'[e])
<1> DEFINE pv == session[s].pairVerify
           secret == [controller |-> session[s].client, stale |-> pv.stale]
           lru == LeastRecentlyUsed(cache)
           wraps == (timestamp + 1) % TimestampModulus = 0
           used == IF wraps THEN 2 ELSE timestamp + 1
           new == [lastUsed |-> used, pairingID |-> pv.pairingID, secret |-> secret]
           old == IF wraps THEN Renewed(cache) ELSE cache
<1>1. /\ session[s] \in SessionType /\ SessionSound(pairings, session[s])
      /\ cache \in [Elements -> Element] /\ timestamp \in Nat
      /\ \A e \in Elements : ElementSound(pairings, cache[e])
  BY DEF IInv, TypeOK, References
<1>2. used \in Nat
  BY <1>1
<1>3. pv \in PairVerifies /\ Refers(pairings, pv.pairingID, pv.stale, session[s].client)
  BY <1>1 DEF SessionType, SessionSound
<1>4. secret \in Secrets
  BY <1>1, <1>3 DEF Refers, Secrets, PairVerifies
<1>5. new \in Element /\ ElementSound(pairings, new)
  BY <1>2, <1>3, <1>4 DEF Element, ElementSound, Refers
<1>6. old \in [Elements -> Element] /\ \A e \in Elements : ElementSound(pairings, old[e])
  <2>1. ASSUME NEW e \in Elements
        PROVE  /\ [cache[e] EXCEPT !.lastUsed = 1] \in Element
               /\ cache[e].lastUsed # 0 => ElementSound(pairings, [cache[e] EXCEPT !.lastUsed = 1])
    BY <1>1 DEF Element, ElementSound
  <2>2. Renewed(cache) \in [Elements -> Element] /\ \A e \in Elements : ElementSound(pairings, Renewed(cache)[e])
    BY <1>1, <2>1 DEF Renewed
  <2> QED
    BY <1>1, <2>2
<1>7. cache' = [old EXCEPT ![lru] = new] /\ timestamp' = used
  BY DEF SaveSession, Save
<1> HIDE DEF new, old, lru, used
<1> QED
  BY <1>2, <1>5, <1>6, <1>7

\* What is taken out of the cache leaves the rest of it as it was.
LEMMA FetchedIsGone ==
  ASSUME IInv, UNCHANGED pairings, NEW e \in Elements, cache' = Fetch(cache, e)
  PROVE  cache' \in [Elements -> Element] /\ \A d \in Elements : ElementSound(pairings', cache'[d])
<1>1. ZeroedElement \in Element /\ ElementSound(pairings, ZeroedElement)
  BY ResetTypes DEF ZeroedElement, Element, ElementSound
<1> QED
  BY <1>1 DEF Fetch, IInv, TypeOK, References

-----------------------------------------------------------------------------
(* Changes of the pairings                                                   *)

\* Which pairings q may follow pairings p: none gets another controller without having been
\* away, and none appears.
Remain(p, q) ==
  /\ q \in [Keys -> Pairing]
  /\ \A k \in Keys : q[k] # NoPairing => p[k] # NoPairing /\ q[k].controller = p[k].controller

\* Only whether it refers to a pairing that was removed is noted in a session.
LEMMA StaleTypes ==
  ASSUME TypeOK, NEW t \in Sessions, NEW removed \in SUBSET Keys
  PROVE  /\ Stale(t, removed) \in SessionType
         /\ Stale(t, removed).client = session[t].client
         /\ Stale(t, removed).hap = [session[t].hap EXCEPT !.stale = @ \/ session[t].hap.pairingID \in removed]
         /\ Stale(t, removed).pairVerify =
              [session[t].pairVerify EXCEPT !.stale = @ \/ session[t].pairVerify.pairingID \in removed]
<1> DEFINE hap == [session[t].hap EXCEPT !.stale = @ \/ session[t].hap.pairingID \in removed]
           pv == [session[t].pairVerify EXCEPT !.stale = @ \/ session[t].pairVerify.pairingID \in removed]
<1>1. session[t] \in SessionType
  BY DEF TypeOK
<1>2. hap \in Haps /\ pv \in PairVerifies
  BY <1>1 DEF SessionType, Haps, PairVerifies
<1>3. Stale(t, removed) = [session[t] EXCEPT !.hap = hap, !.pairVerify = pv]
  BY <1>1 DEF Stale, SessionType
<1> HIDE DEF hap, pv
<1>4. /\ [session[t] EXCEPT !.hap = hap, !.pairVerify = pv] \in SessionType
      /\ [session[t] EXCEPT !.hap = hap, !.pairVerify = pv].client = session[t].client
      /\ [session[t] EXCEPT !.hap = hap, !.pairVerify = pv].hap = hap
      /\ [session[t] EXCEPT !.hap = hap, !.pairVerify = pv].pairVerify = pv
  BY <1>1, <1>2 DEF SessionType
<1> QED
  BY <1>3, <1>4 DEF hap, pv

\* A session that is sound stays so when pairings are removed.
LEMMA StaleIsSound ==
  ASSUME IInv, NEW t \in Sessions, NEW q, Remain(pairings, q)
  PROVE  SessionSound(q, Stale(t, {k \in Keys : pairings[k] # NoPairing /\ q[k] = NoPairing}))
<1> DEFINE removed == {k \in Keys : pairings[k] # NoPairing /\ q[k] = NoPairing}
           x == Stale(t, removed)
<1>1. TypeOK /\ session[t] \in SessionType /\ SessionSound(pairings, session[t])
  BY DEF IInv, TypeOK, References
<1>2. /\ x.client = session[t].client
      /\ x.hap = [session[t].hap EXCEPT !.stale = @ \/ session[t].hap.pairingID \in removed]
      /\ x.pairVerify = [session[t].pairVerify EXCEPT !.stale = @ \/ session[t].pairVerify.pairingID \in removed]
  BY <1>1, StaleTypes
<1>3. session[t].hap \in Haps /\ session[t].pairVerify \in PairVerifies
  BY <1>1 DEF SessionType
<1>4. /\ x.hap.active = session[t].hap.active /\ x.hap.pairingID = session[t].hap.pairingID
      /\ x.hap.stale = (session[t].hap.stale \/ session[t].hap.pairingID \in removed)
  BY <1>2, <1>3 DEF Haps
<1>5. /\ IsProven(x.pairVerify) <=> IsProven(session[t].pairVerify)
      /\ x.pairVerify.pairingID = session[t].pairVerify.pairingID
      /\ x.pairVerify.stale = (session[t].pairVerify.stale \/ session[t].pairVerify.pairingID \in removed)
  BY <1>2, <1>3 DEF PairVerifies, IsProven
<1>6. ASSUME NEW id, NEW stale \in BOOLEAN, Refers(pairings, id, stale, session[t].client)
      PROVE  Refers(q, id, (stale \/ id \in removed), session[t].client)
  <2>1. pairings \in [Keys -> Pairing] /\ NoOne \notin Controllers
    BY <1>1, PairVerifyAssumption DEF TypeOK
  <2>2. CASE ~stale /\ id \notin removed
    <3>1. pairings[id] # NoPairing
      BY <1>6, <2>1, <2>2 DEF Refers, NoPairing
    <3> QED
      BY <1>6, <2>2, <3>1 DEF Refers, Remain
  <2> QED
    BY <1>6, <2>2 DEF Refers
<1>7. session[t].hap.stale \in BOOLEAN /\ session[t].pairVerify.stale \in BOOLEAN
  BY <1>3 DEF Haps, PairVerifies
<1> QED
  BY <1>1, <1>2, <1>4, <1>5, <1>6, <1>7 DEF SessionSound

\* When pairings are removed or changed, whoever refers to them is told, and the clean-up leaves an
\* admin or nobody.
LEMMA UpdateIsSound ==
  ASSUME IInv, NEW s \in Sessions, NEW p, Remain(pairings, p),
         NEW c \in [Elements -> Element], \A e \in Elements : ElementSound(p, c[e]),
         NEW prs \in Procedures, Update(s, p, c, prs), pending' \in Sessions \cup {NoOne}
  PROVE  IInv'
<1> DEFINE clean == CleanupPairings(p, c)
           q == clean.pairings
           removed == {k \in Keys : pairings[k] # NoPairing /\ q[k] = NoPairing}
<1>1. TypeOK /\ AdminOrNone
  BY DEF IInv
<1>2. /\ Remain(pairings, q)
      /\ clean.cache \in [Elements -> Element] /\ \A e \in Elements : ElementSound(q, clean.cache[e])
      /\ (\E k \in Keys : q[k] # NoPairing) => \E k \in Keys : q[k].admin
  <2>1. CASE \E k \in Keys : p[k].admin
    <3>1. clean = [pairings |-> p, cache |-> c]
      BY <2>1 DEF CleanupPairings
    <3> QED
      BY <2>1, <3>1
  <2>2. CASE ~\E k \in Keys : p[k].admin
    <3>1. clean = [pairings |-> [k \in Keys |-> NoPairing], cache |-> EmptyCache]
      BY <2>2 DEF CleanupPairings
    <3> QED
      BY <3>1, ResetTypes DEF Remain, ElementSound
  <2> QED
    BY <2>1, <2>2
<1>3. /\ pairings' = q /\ cache' = clean.cache /\ timestamp' = timestamp
      /\ session' = [t \in Sessions |->
                       IF t = s THEN [Stale(t, removed) EXCEPT !.pairings = prs] ELSE Stale(t, removed)]
  BY DEF Update
<1> HIDE DEF q, clean
<1>4. removed \in SUBSET Keys
  OBVIOUS
<1>5. ASSUME NEW t \in Sessions
      PROVE  Stale(t, removed) \in SessionType /\ SessionSound(q, Stale(t, removed))
  <2>1. SessionSound(q, Stale(t, removed))
    BY <1>2, StaleIsSound
  <2>2. Stale(t, removed) \in SessionType
    <3> HIDE DEF removed
    <3> QED
      BY <1>1, <1>4, StaleTypes
  <2> QED
    BY <2>1, <2>2
<1>6. ASSUME NEW t \in Sessions
      PROVE  session'[t] \in SessionType /\ SessionSound(q, session'[t])
  <2> DEFINE x == Stale(t, removed)
  <2>1. x \in SessionType /\ SessionSound(q, x)
    BY <1>5
  <2> HIDE DEF x
  <2>2. [x EXCEPT !.pairings = prs] \in SessionType /\ SessionSound(q, [x EXCEPT !.pairings = prs])
    BY <2>1 DEF SessionType, SessionSound
  <2>3. session'[t] = IF t = s THEN [x EXCEPT !.pairings = prs] ELSE x
    BY <1>3 DEF x
  <2> QED
    BY <2>1, <2>2, <2>3
<1>7. session' \in [Sessions -> SessionType]
  BY <1>3, <1>6
<1>8. TypeOK'
  BY <1>1, <1>2, <1>3, <1>7 DEF TypeOK, Remain
<1>9. References'
  BY <1>2, <1>3, <1>6 DEF References
<1>10. AdminOrNone'
  BY <1>1, <1>2, <1>3 DEF AdminOrNone, Paired, Remain
<1> QED
  BY <1>8, <1>9, <1>10 DEF IInv

\* A pairing that is added where there is none does not become that of anyone who refers to
\* another one, since those who refer to a pairing that has gone know that.
LEMMA AdditionIsSound ==
  ASSUME IInv, NEW k \in Keys, pairings[k] = NoPairing, NEW c \in Controllers, FindPairing(c) = {},
         NEW admin \in BOOLEAN, admin \/ \E j \in Keys : pairings[j].admin,
         pairings' = [pairings EXCEPT ![k] = [controller |-> c, admin |-> admin]]
  PROVE  /\ pairings' \in [Keys -> Pairing] /\ AdminOrNone'
         /\ \A s \in Sessions : SessionSound(pairings', session[s])
         /\ \A e \in Elements : ElementSound(pairings', cache[e])
<1>1. /\ pairings \in [Keys -> Pairing] /\ NoOne \notin Controllers
      /\ NoPairing.controller = NoOne /\ ~NoPairing.admin
      /\ AdminOrNone
  BY PairVerifyAssumption DEF IInv, TypeOK, NoPairing
<1> DEFINE new == [controller |-> c, admin |-> admin]
<1>2. new \in Pairing /\ new.controller = c /\ new.admin = admin /\ new # NoPairing
  BY <1>1 DEF Pairing
<1>3. pairings' = [pairings EXCEPT ![k] = new]
  OBVIOUS
<1> HIDE DEF new
<1>4. ASSUME NEW id, NEW stale, NEW d, Refers(pairings, id, stale, d)
      PROVE  Refers(pairings', id, stale, d)
  BY <1>1, <1>3, <1>4 DEF Refers
<1>5. pairings' \in [Keys -> Pairing]
  BY <1>1, <1>2, <1>3
<1>6. (\A s \in Sessions : SessionSound(pairings', session[s])) /\ \A e \in Elements : ElementSound(pairings', cache[e])
  BY <1>4 DEF IInv, References, SessionSound, ElementSound
<1>7. \E j \in Keys : pairings'[j].admin
  BY <1>1, <1>2, <1>3
<1>8. \A i, j \in Paired' : pairings'[i].controller = pairings'[j].controller => i = j
  BY <1>1, <1>2, <1>3 DEF AdminOrNone, Paired, FindPairing
<1> QED
  BY <1>5, <1>6, <1>7, <1>8 DEF AdminOrNone

-----------------------------------------------------------------------------
(* The steps of Pair Verify                                                  *)

\* What an action has to show when it leaves the pairings alone.
LEMMA UnchangedPairings ==
  ASSUME IInv, UNCHANGED pairings, session' \in [Sessions -> SessionType],
         \A t \in Sessions : SessionSound(pairings', session'[t]),
         cache' \in [Elements -> Element], \A e \in Elements : ElementSound(pairings', cache'[e]),
         timestamp' \in Nat, pending' \in Sessions \cup {NoOne}
  PROVE  IInv'
BY DEF IInv, TypeOK, References, AdminOrNone, Paired

\* Likewise the cache.
LEMMA UnchangedCache ==
  ASSUME IInv, UNCHANGED <<pairings, cache, timestamp>>, session' \in [Sessions -> SessionType],
         \A t \in Sessions : SessionSound(pairings', session'[t]),
         pending' \in Sessions \cup {NoOne}
  PROVE  IInv'
<1>1. /\ cache' \in [Elements -> Element] /\ \A e \in Elements : ElementSound(pairings', cache'[e])
      /\ timestamp' \in Nat
  BY DEF IInv, TypeOK, References
<1> QED
  BY <1>1, UnchangedPairings

\* What PairVerifyReset is changed into
LEMMA ResetFields ==
  /\ PairVerifyReset \in PairVerifies
  /\ ~PairVerifyReset.error /\ ~PairVerifyReset.resumes /\ ~PairVerifyReset.stale
BY ResetTypes DEF PairVerifyReset

\* An exchange that failed is not proven.
LEMMA FailingTypes ==
  ASSUME NEW n \in {1, 3}
  PROVE  Failing(n) \in PairVerifies /\ ~IsProven(Failing(n))
<1> DEFINE x == [PairVerifyReset EXCEPT !.state = n]
<1>1. x \in PairVerifies
  BY ResetFields DEF PairVerifies
<1>2. Failing(n) = [x EXCEPT !.error = TRUE]
  BY DEF Failing
<1> HIDE DEF x
<1>3. [x EXCEPT !.error = TRUE] \in PairVerifies /\ [x EXCEPT !.error = TRUE].error
  BY <1>1 DEF PairVerifies
<1> QED
  BY <1>2, <1>3 DEF IsProven

\* Writes to the characteristic of Pair Verify.
LEMMA PairVerifyWrites ==
  ASSUME IInv, NEW s \in Sessions,
         \/ WriteM1(s) \/ WriteBad(s)
         \/ \E e \in Used(cache) : WriteM1Resume(s, e)
         \/ \E c \in Controllers : WriteM3(s, c)
  PROVE  IInv'
<1>1. /\ pending \in Sessions \cup {NoOne} /\ Due(s) \in Sessions \cup {NoOne}
      /\ session[s] \in SessionType
      /\ pairings \in [Keys -> Pairing]
      /\ timestamp \in Nat
  BY DEF IInv, TypeOK, Due
<1>2. CASE WriteM1(s)
  <2> DEFINE pv == [PairVerifyReset EXCEPT !.state = 1]
  <2>1. pv \in PairVerifies /\ ~IsProven(pv)
    BY ResetFields DEF PairVerifies, IsProven
  <2>2. UNCHANGED <<pairings, cache, timestamp>> /\ WithPairVerify(s, pv) /\ pending' = Due(s)
    BY <1>2 DEF WriteM1
  <2> HIDE DEF pv
  <2> QED
    BY <1>1, <2>1, <2>2, PairVerifyChanges, UnchangedCache
<1>3. ASSUME WriteRefused(s), UNCHANGED <<pairings, timestamp>>
      PROVE  IInv'
  BY <1>1, <1>3, ResetTypes, PairVerifyChanges, UnchangedCache DEF WriteRefused
<1>4. CASE WriteBad(s)
  BY <1>3, <1>4 DEF WriteBad
<1>5. ASSUME NEW e \in Used(cache), WriteM1Resume(s, e)
      PROVE  IInv'
  <2>1. UNCHANGED <<pairings, timestamp>>
    BY <1>5 DEF WriteM1Resume
  <2>2. CASE s \notin OverBLE
    BY <1>3, <1>5, <2>2 DEF WriteM1Resume
  <2>3. CASE s \in OverBLE
    <3> DEFINE pv == [PairVerifyReset EXCEPT !.state = 1, !.resumes = TRUE,
                                             !.pairingID = cache[e].pairingID, !.stale = cache[e].secret.stale]
    <3>1. e \in Elements /\ cache[e] \in Element /\ cache[e].lastUsed # 0 /\ ElementSound(pairings, cache[e])
      BY DEF Used, IInv, TypeOK, References
    <3>2. pv \in PairVerifies /\ pv.pairingID = cache[e].pairingID /\ pv.stale = cache[e].secret.stale
      <4> DEFINE id == cache[e].pairingID
                 stale == cache[e].secret.stale
                 x == [PairVerifyReset EXCEPT !.state = 1]
                 y == [x EXCEPT !.resumes = TRUE]
                 z == [y EXCEPT !.pairingID = id]
      <4>1. id \in PairingIDs /\ stale \in BOOLEAN
        BY <3>1, ResetTypes DEF Element, ElementSound, Secrets
      <4>2. pv = [z EXCEPT !.stale = stale]
        OBVIOUS
      <4> HIDE DEF id, stale, pv
      <4>3. x \in PairVerifies
        BY ResetFields DEF PairVerifies
      <4> HIDE DEF x
      <4>4. y \in PairVerifies
        BY <4>3 DEF PairVerifies
      <4> HIDE DEF y
      <4>5. z \in PairVerifies /\ z.pairingID = id
        BY <4>1, <4>4 DEF PairVerifies
      <4> HIDE DEF z
      <4>6. pv \in PairVerifies /\ pv.pairingID = id /\ pv.stale = stale
        BY <4>1, <4>2, <4>5 DEF PairVerifies
      <4> QED
        BY <4>6 DEF id, stale
    <3>3. TagIsRight(s, e) => Refers(pairings, pv.pairingID, pv.stale, session[s].client)
      BY <3>1, <3>2 DEF TagIsRight, ElementSound
    <3>4. /\ WithPairVerify(s, IF TagIsRight(s, e) THEN pv ELSE Failing(1))
          /\ cache' = Fetch(cache, e) /\ UNCHANGED pending
      BY <1>5, <2>3 DEF WriteM1Resume
    <3> HIDE DEF pv
    <3>5. /\ session' \in [Sessions -> SessionType]
          /\ \A t \in Sessions : SessionSound(pairings', session'[t])
      <4>1. CASE TagIsRight(s, e)
        BY <2>1, <3>2, <3>3, <3>4, <4>1, PairVerifyChanges
      <4>2. CASE ~TagIsRight(s, e)
        BY <2>1, <3>4, <4>2, FailingTypes, PairVerifyChanges
      <4> QED
        BY <4>1, <4>2
    <3>6. cache' \in [Elements -> Element] /\ \A d \in Elements : ElementSound(pairings', cache'[d])
      BY <2>1, <3>1, <3>4, FetchedIsGone
    <3> QED
      BY <1>1, <2>1, <3>4, <3>5, <3>6, UnchangedPairings
  <2> QED
    BY <2>2, <2>3
<1>6. ASSUME NEW c \in Controllers, WriteM3(s, c)
      PROVE  IInv'
  <2>1. CASE session[s].pairVerify.state # 2
    BY <1>3, <1>6, <2>1 DEF WriteM3
  <2>2. CASE session[s].pairVerify.state = 2
    <3>1. UNCHANGED <<pairings, cache, timestamp>> /\ pending' = Due(s)
      BY <1>6, <2>2 DEF WriteM3
    <3>2. ASSUME NEW k \in ProvenPairing(s, c),
                 WithPairVerify(s, [PairVerifyReset EXCEPT !.state = 3, !.pairingID = k])
          PROVE  IInv'
      <4> DEFINE pv == [PairVerifyReset EXCEPT !.state = 3, !.pairingID = k]
      <4>1. k \in Keys /\ session[s].client = c /\ pairings[k].controller = c
        BY <3>2 DEF ProvenPairing, FindPairing, Paired
      <4>2. pv \in PairVerifies /\ pv.pairingID = k
        <5> DEFINE x == [PairVerifyReset EXCEPT !.state = 3]
        <5>1. x \in PairVerifies
          BY ResetFields DEF PairVerifies
        <5>2. pv = [x EXCEPT !.pairingID = k]
          OBVIOUS
        <5> HIDE DEF x, pv
        <5> QED
          BY <4>1, <5>1, <5>2, ResetTypes DEF PairVerifies
      <4>3. Refers(pairings, pv.pairingID, pv.stale, session[s].client)
        BY <4>1, <4>2 DEF Refers
      <4> HIDE DEF pv
      <4>4. WithPairVerify(s, pv)
        BY <3>2 DEF pv
      <4> QED
        BY <1>1, <3>1, <4>2, <4>3, <4>4, PairVerifyChanges, UnchangedCache
    <3>3. CASE WithPairVerify(s, Failing(3))
      BY <1>1, <3>1, <3>3, FailingTypes, PairVerifyChanges, UnchangedCache
    <3> QED
      BY <1>6, <2>2, <3>2, <3>3 DEF WriteM3
  <2> QED
    BY <2>1, <2>2
<1> QED
  BY <1>2, <1>4, <1>5, <1>6

\* The read of the response: the session becomes active, or it does not.
LEMMA PairVerifyReads ==
  ASSUME IInv, NEW s \in Sessions, ReadPairVerify(s)
  PROVE  IInv'
<1> DEFINE pv == session[s].pairVerify
<1>1. UNCHANGED pairings /\ pending' = NoOne
  BY DEF ReadPairVerify
<1>2. /\ session[s] \in SessionType /\ timestamp \in Nat
      /\ cache \in [Elements -> Element] /\ \A e \in Elements : ElementSound(pairings, cache[e])
  BY DEF IInv, TypeOK, References
<1>3. ASSUME WithPairVerify(s, PairVerifyReset)
      PROVE  /\ session' \in [Sessions -> SessionType]
             /\ \A t \in Sessions : SessionSound(pairings', session'[t])
  BY <1>1, <1>3, ResetTypes, PairVerifyChanges
<1>4. CASE GetErrorResponse(s)
  BY <1>1, <1>3, <1>4, UnchangedCache DEF GetErrorResponse
<1>5. CASE ~pv.error /\ pv.state = 1 /\ ~pv.resumes /\ GetM2(s)
  <2>1. CASE WithPairVerify(s, PairVerifyReset)
    BY <1>1, <1>3, <1>5, <2>1, UnchangedCache DEF GetM2
  <2>2. CASE WithPairVerify(s, [pv EXCEPT !.state = 2])
    <3>1. [pv EXCEPT !.state = 2] \in PairVerifies /\ ~IsProven([pv EXCEPT !.state = 2])
      BY <1>2, <1>5 DEF SessionType, PairVerifies, IsProven
    <3> DEFINE next == [pv EXCEPT !.state = 2]
    <3> HIDE DEF next
    <3>2. next \in PairVerifies /\ ~IsProven(next) /\ WithPairVerify(s, next)
      BY <2>2, <3>1 DEF next
    <3> QED
      BY <1>1, <1>5, <3>2, PairVerifyChanges, UnchangedCache DEF GetM2
  <2> QED
    BY <1>5, <2>1, <2>2 DEF GetM2
<1>6. CASE ~pv.error /\ pv.state = 1 /\ pv.resumes /\ GetM2ForBLEPairResume(s)
  <2>1. IsProven(pv)
    BY <1>6 DEF IsProven
  <2>2. /\ cache' \in [Elements -> Element] /\ timestamp' \in Nat
        /\ \A e \in Elements : ElementSound(pairings', cache'[e])
    BY <1>1, <1>6, <2>1, SavedIsSound DEF GetM2ForBLEPairResume
  <2>3. /\ session' \in [Sessions -> SessionType]
        /\ \A t \in Sessions : SessionSound(pairings', session'[t])
    BY <1>1, <1>3, <1>6, <2>1, SessionStarts DEF GetM2ForBLEPairResume
  <2> QED
    BY <1>1, <2>2, <2>3, UnchangedPairings
<1>7. CASE ~pv.error /\ pv.state = 3 /\ GetM4(s)
  <2>1. IsProven(pv)
    BY <1>7 DEF IsProven
  <2>2. CASE WithPairVerify(s, PairVerifyReset) /\ UNCHANGED <<cache, timestamp>>
    BY <1>1, <1>3, <2>2, UnchangedCache
  <2>3. CASE /\ IF s \in OverBLE THEN SaveSession(s) ELSE UNCHANGED <<cache, timestamp>>
             /\ StartSession(s)
    <3>1. /\ cache' \in [Elements -> Element] /\ timestamp' \in Nat
          /\ \A e \in Elements : ElementSound(pairings', cache'[e])
      BY <1>1, <1>2, <2>1, <2>3, SavedIsSound
    <3>2. /\ session' \in [Sessions -> SessionType]
          /\ \A t \in Sessions : SessionSound(pairings', session'[t])
      BY <1>1, <2>1, <2>3, SessionStarts
    <3> QED
      BY <1>1, <3>1, <3>2, UnchangedPairings
  <2> QED
    BY <1>7, <2>2, <2>3 DEF GetM4
<1> QED
  BY <1>4, <1>5, <1>6, <1>7 DEF ReadPairVerify

\* Connections that come and go.
LEMMA Connections ==
  ASSUME IInv, NEW s \in Sessions, (\E c \in Controllers : Connect(s, c)) \/ Disconnect(s)
  PROVE  IInv'
<1>1. UNCHANGED <<pairings, cache, timestamp, pending>> /\ pending \in Sessions \cup {NoOne}
  BY DEF Connect, Disconnect, IInv, TypeOK
<1>2. ASSUME NEW x \in SessionType, ~x.hap.active, ~IsProven(x.pairVerify), session' = [session EXCEPT ![s] = x]
      PROVE  IInv'
  BY <1>1, <1>2, SessionsStaySound, UnchangedCache DEF SessionSound
<1>3. CASE Disconnect(s)
  BY <1>2, <1>3, ResetTypes DEF Disconnect
<1>4. ASSUME NEW c \in Controllers, Connect(s, c)
      PROVE  IInv'
  <2> DEFINE x == [Closed EXCEPT !.client = c]
  <2>1. x \in SessionType /\ x.hap = Closed.hap /\ x.pairVerify = Closed.pairVerify
    BY ResetTypes DEF SessionType
  <2>2. session' = [session EXCEPT ![s] = x]
    BY <1>4 DEF Connect
  <2> HIDE DEF x
  <2> QED
    BY <1>2, <2>1, <2>2, ResetTypes
<1> QED
  BY <1>3, <1>4

-----------------------------------------------------------------------------
(* The steps of the procedure that changes the pairings                      *)

\* The states a procedure is left in
LEMMA AwaitingTypes ==
  /\ AwaitingError \in Procedures /\ AwaitingError.state = 1
  /\ \A method \in {"AddPairing", "RemovePairing", "ListPairings"}, removed \in Controllers \cup {NoOne} :
       Awaiting(method, removed) \in Procedures /\ Awaiting(method, removed).state = 1
<1> DEFINE asked == [PairingsReset EXCEPT !.state = 1]
<1>1. asked \in Procedures /\ asked.state = 1
  BY ResetTypes DEF Procedures
<1>2. AwaitingError = [asked EXCEPT !.error = TRUE]
  BY DEF AwaitingError
<1>3. ASSUME NEW method \in {"AddPairing", "RemovePairing", "ListPairings"}, NEW removed \in Controllers \cup {NoOne}
      PROVE  Awaiting(method, removed) \in Procedures /\ Awaiting(method, removed).state = 1
  <2> DEFINE known == [asked EXCEPT !.method = method]
  <2>1. Awaiting(method, removed) = [known EXCEPT !.removed = removed]
    BY DEF Awaiting
  <2> HIDE DEF asked
  <2>2. known \in Procedures /\ known.state = 1
    BY <1>1 DEF Procedures
  <2> HIDE DEF known
  <2> QED
    BY <2>1, <2>2 DEF Procedures
<1> HIDE DEF asked
<1> QED
  BY <1>1, <1>2, <1>3 DEF Procedures

\* A step that changes only the state of the procedure
LEMMA OnlyProcedure ==
  ASSUME IInv, NEW s \in Sessions, NEW prs \in Procedures, WithPairings(s, prs),
         pending' \in Sessions \cup {NoOne}
  PROVE  IInv'
BY ProcedureChanges, UnchangedCache DEF WithPairings

\* Permission is that of an admin.
LEMMA PermittedIsAdmin ==
  ASSUME IInv, NEW s \in Sessions, Permission(s) = "none"
  PROVE  /\ session[s].hap.active /\ session[s].hap.pairingID \in Keys
         /\ pairings[session[s].hap.pairingID].admin
BY DEF Permission, Refused, IInv, References, SessionSound, Refers

\* The requests and their responses keep the invariant.
\* The pairings are all that is left.
LEMMA RestartInv ==
  ASSUME IInv, Restart
  PROVE  IInv'
BY ResetTypes DEF Restart, IInv, TypeOK, References, SessionSound, ElementSound, AdminOrNone, Paired

LEMMA PairingsSteps ==
  ASSUME IInv, NEW s \in Sessions, PairingsStep(s)
  PROVE  IInv'
<1>1. /\ pending \in Sessions \cup {NoOne} /\ Due(s) \in Sessions \cup {NoOne}
      /\ session \in [Sessions -> SessionType] /\ session[s].pairings \in Procedures
      /\ pairings \in [Keys -> Pairing]
      /\ cache \in [Elements -> Element] /\ \A e \in Elements : ElementSound(pairings, cache[e])
      /\ NoOne \notin Controllers
  BY PairVerifyAssumption DEF IInv, TypeOK, References, Due, SessionType
<1>2. CASE WritePairingsBad(s)
  BY <1>1, <1>2, ResetTypes, OnlyProcedure DEF WritePairingsBad
<1>3. ASSUME WriteFails(s)
      PROVE  IInv'
  BY <1>1, <1>3, AwaitingTypes, OnlyProcedure, RestartInv DEF WriteFails
<1>4. ASSUME NEW c \in Controllers, NEW admin \in BOOLEAN, NEW sameKey \in BOOLEAN, AddPairing(s, c, admin, sameKey)
      PROVE  IInv'
  <2> DEFINE prs == Awaiting("AddPairing", NoOne)
  <2>1. prs \in Procedures
    BY AwaitingTypes
  <2>2. CASE WriteFails(s)
    BY <1>3, <2>2
  <2>3. ASSUME pending' = Due(s), WithPairings(s, AwaitingError)
        PROVE  IInv'
    BY <1>1, <2>3, AwaitingTypes, OnlyProcedure
  <2>4. ASSUME pending' = Due(s), NEW k \in FindPairing(c),
               Update(s, [pairings EXCEPT ![k].admin = admin], cache, prs)
        PROVE  IInv'
    <3> DEFINE new == [pairings[k] EXCEPT !.admin = admin]
               p == [pairings EXCEPT ![k] = new]
    <3>1. k \in Keys /\ pairings[k] # NoPairing /\ pairings[k].controller = c
      BY DEF FindPairing, Paired
    <3>2. pairings[k] \in [controller : Controllers, admin : BOOLEAN]
      BY <1>1, <3>1 DEF Pairing
    <3>3. new \in Pairing /\ new.controller = c
      BY <3>1, <3>2 DEF Pairing
    <3>4. Update(s, p, cache, prs)
      BY <2>4
    <3> HIDE DEF new, prs
    <3>5. Remain(pairings, p) /\ \A j \in Keys : p[j].controller = pairings[j].controller
      BY <1>1, <3>1, <3>3 DEF Remain
    <3>6. \A e \in Elements : ElementSound(p, cache[e])
      BY <1>1, <3>5 DEF ElementSound, Refers
    <3> HIDE DEF p
    <3> QED
      BY <1>1, <2>1, <2>4, <3>4, <3>5, <3>6, UpdateIsSound
  <2>5. ASSUME Permission(s) = "none", pending' = Due(s), FindPairing(c) = {}, FreeKeys # {}, NEW k,
               k = (CHOOSE j \in FreeKeys : \A i \in FreeKeys : j <= i),
               pairings' = [pairings EXCEPT ![k] = [controller |-> c, admin |-> admin]],
               session' = [session EXCEPT ![s].pairings = prs],
               UNCHANGED <<cache, timestamp>>
        PROVE  IInv'
    <3>1. k \in Keys /\ pairings[k] = NoPairing
      BY <2>5, FirstFreeKey DEF FreeKeys
    <3>2. \E j \in Keys : pairings[j].admin
      BY <2>5, PermittedIsAdmin
    <3>3. /\ pairings' \in [Keys -> Pairing] /\ AdminOrNone'
          /\ \A t \in Sessions : SessionSound(pairings', session[t])
          /\ \A e \in Elements : ElementSound(pairings', cache[e])
      BY <2>5, <3>1, <3>2, AdditionIsSound
    <3> DEFINE x == [session[s] EXCEPT !.pairings = prs]
    <3>4. session' = [session EXCEPT ![s] = x]
      BY <2>5
    <3> HIDE DEF prs
    <3>5. /\ x \in SessionType
          /\ x.hap = session[s].hap /\ x.pairVerify = session[s].pairVerify /\ x.client = session[s].client
      BY <1>1, <2>1 DEF SessionType
    <3> HIDE DEF x
    <3>6. session' \in [Sessions -> SessionType] /\ \A t \in Sessions : SessionSound(pairings', session'[t])
      BY <1>1, <3>3, <3>4, <3>5 DEF SessionSound
    <3>7. TypeOK'
      BY <1>1, <2>5, <3>3, <3>6 DEF IInv, TypeOK
    <3> QED
      BY <2>5, <3>3, <3>6, <3>7 DEF IInv, References
  <2> QED
    BY <1>4, <2>2, <2>3, <2>4, <2>5 DEF AddPairing
<1>5. ASSUME NEW method \in {"RemovePairing", "ListPairings"}, NEW removed \in Controllers \cup {NoOne},
             Asks(s, method, removed)
      PROVE  IInv'
  BY <1>1, <1>3, <1>5, AwaitingTypes, OnlyProcedure DEF Asks
<1>6. CASE ReadPairings(s)
  <2>1. pending' = NoOne
    BY <1>6 DEF ReadPairings
  <2>2. ASSUME WithPairings(s, PairingsReset)
        PROVE  IInv'
    BY <2>1, <2>2, ResetTypes, OnlyProcedure
  <2>3. ASSUME NEW k \in FindPairing(session[s].pairings.removed),
               Update(s, [pairings EXCEPT ![k] = NoPairing], CacheAfterRemoval(k), PairingsReset)
        PROVE  IInv'
    <3> DEFINE p == [pairings EXCEPT ![k] = NoPairing]
               c == CacheAfterRemoval(k)
    <3>1. k \in Keys /\ pairings[k] # NoPairing
      BY <2>3 DEF FindPairing, Paired
    <3>2. Remain(pairings, p)
      BY <1>1, <3>1, ResetTypes DEF Remain
    <3>3. c = [e \in Elements |-> IF cache[e].pairingID = k THEN ZeroedElement ELSE cache[e]]
      BY DEF CacheAfterRemoval, InvalidateEntriesForPairing
    <3>4. ZeroedElement \in Element /\ ZeroedElement.lastUsed = 0
      BY ResetTypes DEF ZeroedElement, Element
    <3>5. c \in [Elements -> Element]
      BY <1>1, <3>3, <3>4
    <3>6. \A e \in Elements : ElementSound(p, c[e])
      BY <1>1, <3>1, <3>3, <3>4 DEF ElementSound, Refers
    <3>7. Update(s, p, c, PairingsReset)
      BY <2>3
    <3> HIDE DEF p, c
    <3> QED
      BY <2>1, <3>2, <3>5, <3>6, <3>7, ResetTypes, UpdateIsSound
  <2> QED
    BY <1>6, <2>2, <2>3, RestartInv
       DEF ReadPairings, AddPairingGetM2, RemovePairing, ListPairingsGetM2, PairingsErrorResponse
<1> QED
  BY <1>2, <1>4, <1>5, <1>6 DEF PairingsStep, AskToRemove, AskForList

-----------------------------------------------------------------------------
(* The theorems                                                              *)

\* References to pairings are sound from the start, and no step of anyone changes that.
THEOREM InvariantHolds == Spec => []IInv
<1>1. Init => IInv
  <2> SUFFICES ASSUME Init PROVE IInv
    OBVIOUS
  <2>1. TypeOK
    BY ResetTypes DEF Init, TypeOK
  <2>2. References
    BY ResetTypes DEF Init, References, SessionSound, ElementSound
  <2>3. Paired = {}
    BY DEF Init, Paired
  <2> QED
    BY <2>1, <2>2, <2>3 DEF IInv, AdminOrNone
<1>2. IInv /\ [Next]_vars => IInv'
  <2> SUFFICES ASSUME IInv, [Next]_vars PROVE IInv'
    OBVIOUS
  <2>1. ASSUME NEW s \in Sessions, VerifyStep(s)
        PROVE  IInv'
    BY <2>1, PairVerifyWrites, PairVerifyReads, Connections DEF VerifyStep
  <2>2. ASSUME NEW s \in Sessions, PairingsStep(s)
        PROVE  IInv'
    BY <2>2, PairingsSteps
  <2>3. ASSUME NEW c \in Controllers, PairSetup(c)
        PROVE  IInv'
    <3>1. 0 \in Keys /\ pairings[0] = NoPairing /\ FindPairing(c) = {}
      BY <2>3, ResetTypes DEF PairSetup, FindPairing, Paired
    <3>2. pairings' = [pairings EXCEPT ![0] = [controller |-> c, admin |-> TRUE]]
      BY <2>3 DEF PairSetup
    <3>3. /\ pairings' \in [Keys -> Pairing] /\ AdminOrNone'
          /\ \A s \in Sessions : SessionSound(pairings', session[s])
          /\ \A e \in Elements : ElementSound(pairings', cache[e])
      BY <3>1, <3>2, AdditionIsSound
    <3> QED
      BY <2>3, <3>3 DEF PairSetup, IInv, TypeOK, References
  <2>4. CASE Restart
    BY <2>4, RestartInv
  <2>5. CASE UNCHANGED vars
    BY <2>5 DEF vars, IInv, TypeOK, References, AdminOrNone, Paired
  <2> QED
    BY <2>1, <2>2, <2>3, <2>4, <2>5 DEF Next
<1> QED
  BY <1>1, <1>2, PTL DEF Spec

\* Whatever exchanges are begun, broken off, repeated or overtaken by changes to the pairings, an
\* active session and one that can be resumed are those of the controller whose pairing they refer
\* to, unless it has been removed since; and there is an admin if there is anyone, and one pairing
\* for a controller.
THEOREM PairingsAreSound == Spec => []PairingsSound
<1>1. IInv => PairingsSound
  BY DEF IInv, PairingsSound, References, VerifiedIsPaired, SessionSound, ElementSound, Refers, Used
<1> QED
  BY <1>1, InvariantHolds, PTL

\* Nobody but an admin changes the pairings of an accessory that is paired, at the moment that he is
\* one.
THEOREM AdminsChangePairings == Spec => ChangedByAdmin
<1> DEFINE Changed ==
      pairings' # pairings =>
        \/ Paired = {}
        \/ \E s \in Sessions :
             /\ session'[s].pairings # session[s].pairings
             /\ session[s].hap.active
             /\ pairings[session[s].hap.pairingID].admin
<1>1. IInv /\ [Next]_vars => [Changed]_vars
  <2> SUFFICES ASSUME IInv, Next, pairings' # pairings, Paired # {}
               PROVE  \E s \in Sessions :
                        /\ session'[s].pairings # session[s].pairings
                        /\ session[s].hap.active
                        /\ pairings[session[s].hap.pairingID].admin
    BY DEF vars
  <2>1. PICK s \in Sessions : PairingsStep(s)
    <3>1. ASSUME NEW s \in Sessions, VerifyStep(s)
          PROVE  FALSE
      BY <3>1 DEF VerifyStep, Connect, Disconnect, WriteM1, WriteM1Resume, WriteM3, WriteBad, ReadPairVerify
    <3> QED
      BY <3>1 DEF Next, PairSetup, Restart
  <2>2. session \in [Sessions -> SessionType]
    BY DEF IInv, TypeOK
  <2>3. ASSUME NEW prs \in Procedures, NEW p, NEW c, Update(s, p, c, prs)
        PROVE  session'[s].pairings = prs
    <3> DEFINE removed == {k \in Keys : pairings[k] # NoPairing /\ CleanupPairings(p, c).pairings[k] = NoPairing}
    <3>1. Stale(s, removed) \in SessionType
      <4>1. removed \in SUBSET Keys
        OBVIOUS
      <4> HIDE DEF removed
      <4> QED
        BY <4>1, StaleTypes DEF IInv
    <3>2. session'[s] = [Stale(s, removed) EXCEPT !.pairings = prs]
      BY <2>3 DEF Update
    <3> HIDE DEF removed
    <3> QED
      BY <3>1, <3>2 DEF SessionType
  <2>4. CASE \E c \in Controllers, admin, sameKey \in BOOLEAN : AddPairing(s, c, admin, sameKey)
    <3>1. Permission(s) = "none" /\ session[s].pairings.state = 0
      BY <2>4 DEF AddPairing, Begins, WriteFails, WithPairings, Restart
    <3>2. session'[s].pairings = Awaiting("AddPairing", NoOne)
      <4> DEFINE prs == Awaiting("AddPairing", NoOne)
      <4>1. prs \in Procedures
        BY AwaitingTypes
      <4>2. ASSUME session' = [session EXCEPT ![s].pairings = prs]
            PROVE  session'[s].pairings = prs
        <5> HIDE DEF prs
        <5> QED
          BY <2>2, <4>2 DEF SessionType
      <4>3. \/ session' = [session EXCEPT ![s].pairings = prs]
            \/ \E p, c : Update(s, p, c, prs)
        BY <2>4 DEF AddPairing, WriteFails, WithPairings, Restart
      <4> QED
        BY <2>3, <4>1, <4>2, <4>3
    <3>3. session'[s].pairings.state = 1
      BY <3>2, AwaitingTypes
    <3> QED
      BY <3>1, <3>3, PermittedIsAdmin
  <2>5. CASE session[s].pairings.state # 0 /\ ReadPairings(s)
    <3>1. Permission(s) = "none"
      BY <2>5 DEF ReadPairings, PairingsErrorResponse, WithPairings, ReadPermission, Permission, Refused, Restart
    <3>2. \E p, c : Update(s, p, c, PairingsReset)
      BY <2>5 DEF ReadPairings, PairingsErrorResponse, AddPairingGetM2, ListPairingsGetM2, RemovePairing, WithPairings, Restart
    <3>3. session'[s].pairings.state = 0
      BY <2>3, <3>2, ResetTypes DEF PairingsReset
    <3> QED
      BY <2>5, <3>1, <3>3, PermittedIsAdmin
  <2>6. ~WritePairingsBad(s) /\ ~AskForList(s) /\ \A c \in Controllers : ~AskToRemove(s, c)
    BY DEF WritePairingsBad, AskForList, AskToRemove, Asks, WriteFails, WithPairings, Restart
  <2> QED
    BY <2>1, <2>4, <2>5, <2>6 DEF PairingsStep
<1> QED
  BY <1>1, InvariantHolds, PTL DEF Spec, ChangedByAdmin

-----------------------------------------------------------------------------
(* Configuration, for any versions of the firmware, any widths of the      *)
(* configuration number, and any number of pairings and of starts that are *)
(* cut short.                                                              *)

(* The invariant                                                             *)

Starting == {"handleFirmwareUpdate", "saveVersion", "loadLTSK", "cleanupPairings", "started",
             "getCN", "getDeviceID"}
Loaded == {"cleanupPairings", "started", "getCN", "getDeviceID", "running", "removing"}
Updated == {"loadLTSK"} \cup Loaded

VersionOf(firmware) == Identity!ParseVersionString(Firmwares[firmware])

IdentityTypes ==
  /\ DOMAIN kept = {"version", "cn", "id", "ltsk", "pairings"}
  /\ DOMAIN process = {"at", "firmware", "ltsk", "purging", "txt"}
  /\ DOMAIN past = {"toImport", "changed", "last", "other", "newest", "cutReset", "cuts"}
  /\ process.at \in {"off", "idle", "purging", "running", "removing"} \cup Starting
  /\ kept.cn \in 0 .. UINT32_MAX
  /\ IsFiniteSet(kept.pairings) /\ Cardinality(kept.pairings) <= MaxPairings
  /\ past.last \in 0 .. UINT16_MAX /\ past.newest \in Nat /\ past.cuts \in 0 .. MaxCuts
  /\ process.at # "off" => process.firmware \in DOMAIN Firmwares
  /\ process.at = "purging" => process.purging \in {<<"Configuration", "Pairings">>, <<"Pairings">>}

\* Nothing has been started before everything has been imported.
Imported ==
  /\ past.toImport \in {<<"id", "cn", "ltsk", "pairing">>, <<"cn", "ltsk", "pairing">>,
                        <<"ltsk", "pairing">>, <<"pairing">>, <<>>}
  /\ past.toImport # <<>> =>
       /\ process.at = "off" /\ kept.pairings = {} /\ past.last = 0 /\ past.newest = 0
       /\ Head(past.toImport) # "id" => kept.id = 1
       /\ Head(past.toImport) = "pairing" => kept.ltsk = 1

\* Pairings belong to the key, and to the device ID while it can be told which.
Keyed ==
  /\ \A p \in kept.pairings :
       /\ p.id # Identity!NotFound
       /\ kept.ltsk # Identity!NotFound =>
            p.ltsk = kept.ltsk /\ (p.id = kept.id \/ past.cutReset)
  /\ process.at \in Loaded => process.ltsk = kept.ltsk /\ kept.ltsk # Identity!NotFound
  /\ process.at \in {"started", "getCN", "getDeviceID", "running"} =>
       kept.pairings = {} \/ Identity!AdminFound
  /\ process.at = "removing" => kept.pairings # {}

Announced ==
  /\ process.at \in {"getDeviceID", "running", "removing"} => kept.cn # Identity!NotFound
  /\ process.at \in {"running", "removing"} =>
       /\ kept.id # Identity!NotFound /\ process.txt.id = kept.id
       /\ process.txt.cn = Identity!Reported(kept.cn) /\ process.txt.cn # past.other
       /\ process.firmware = past.newest
       /\ process.txt.paired <=> (kept.pairings # {})

\* No version is kept that is older than what was announced.
Versions ==
  /\ process.at \in Starting => Identity!Version # Identity!NoVersion
  /\ process.at \in Updated => kept.version = Identity!Version
  /\ process.at \in {"handleFirmwareUpdate", "saveVersion"} /\ kept.version # Identity!NoVersion =>
       kept.version # Identity!Version /\ ~Identity!Older(Identity!Version, kept.version)
  /\ past.newest # 0 =>
       /\ past.newest \in DOMAIN Firmwares /\ VersionOf(past.newest) # Identity!NoVersion
       /\ \E f \in DOMAIN Firmwares :
            f >= past.newest /\ kept.version = VersionOf(f) /\ VersionOf(f) # Identity!NoVersion
  /\ process.at = "purging" /\ Head(process.purging) = "Configuration" =>
       past.newest = 0 /\ past.last = 0 /\ past.cutReset
  /\ past.cutReset => past.last = 0

\* The number is ahead of the one announced last by as much as starts have counted since, and
\* it is ahead once another configuration has been prepared.
Counted == IF process.at \in {"saveVersion", "loadLTSK", "cleanupPairings", "started"} THEN 1
           ELSE IF process.at \in {"getCN", "getDeviceID"} THEN 2 ELSE 0
Ahead(cn, k) == IF cn + k <= UINT16_MAX THEN cn + k ELSE cn + k - UINT16_MAX
Counting ==
  past.last # 0 =>
    /\ past.newest # 0 /\ kept.cn # Identity!NotFound
    /\ \E k \in 0 .. 2 * past.cuts + Counted :
         /\ Identity!Reported(kept.cn) = Ahead(past.last, k)
         /\ past.changed /\ process.at \in {"getCN", "getDeviceID"} => k # 0
         /\ kept.version # VersionOf(past.newest) \/ process.at = "saveVersion" => k # 0

ConfigurationInv == IdentityTypes /\ Imported /\ Keyed /\ Announced /\ Versions /\ Counting

-----------------------------------------------------------------------------
(* Numbers                                                                   *)

\* What follows from the assumption
LEMMA Widths ==
  /\ UINT16_MAX \in Nat \ {0} /\ UINT32_MAX \in Nat \ {0} /\ UINT32_MAX % UINT16_MAX = 0
  /\ ImportedCN \in 1 .. UINT32_MAX
  /\ MaxCuts \in Nat /\ 2 * (MaxCuts + 1) < UINT16_MAX
  /\ MaxPairings \in Nat \ {0}
  /\ IsFiniteSet(Randoms) /\ Cardinality(Randoms) > MaxPairings /\ 0 \notin Randoms
  /\ DOMAIN Firmwares \subseteq Nat \ {0}
<1>1. Identity!IsFiniteSet(Randoms) = IsFiniteSet(Randoms)
  BY DEF Identity!IsFiniteSet, IsFiniteSet
<1>2. Identity!Cardinality(Randoms) = Cardinality(Randoms)
  BY DEF Identity!Cardinality, Cardinality
<1> QED
  BY <1>1, <1>2, IdentityAssumption DEF Identity!ConfigurationAssumption, Identity!NotFound

LEMMA VersionsGrow ==
  ASSUME NEW i \in DOMAIN Firmwares, NEW j \in DOMAIN Firmwares, i < j,
         VersionOf(i) # Identity!NoVersion, VersionOf(j) # Identity!NoVersion
  PROVE  VersionOf(i) # VersionOf(j) /\ Identity!Older(VersionOf(i), VersionOf(j))
  BY IdentityAssumption DEF Identity!ConfigurationAssumption, VersionOf

\* What is left of a multiple and less than the divisor is the remainder.
LEMMA Quotients ==
  ASSUME NEW p \in Int, NEW q \in Int, NEW m \in Nat \ {0}, p < q
  PROVE  p * m + m <= q * m
  BY Z3

LEMMA Divided ==
  ASSUME NEW a \in Int, NEW m \in Nat \ {0}
  PROVE  \E q \in Int, r \in 0 .. m - 1 : r = a % m /\ a = q * m + r
<1>1. a \div m \in Int /\ a % m \in 0 .. m - 1 /\ a = (a \div m) * m + (a % m)
  BY Z3
<1>2. PICK q, r : q = a \div m /\ r = a % m
  OBVIOUS
<1>3. q \in Int /\ r \in 0 .. m - 1 /\ a = q * m + r
  BY <1>1, <1>2
<1> QED BY <1>2, <1>3

LEMMA Remainder ==
  ASSUME NEW q \in Int, NEW m \in Nat \ {0}, NEW r \in 0 .. m - 1
  PROVE  (q * m + r) % m = r
<1>1. PICK a \in Int : a = q * m + r
  OBVIOUS
<1>2. PICK p \in Int, t \in 0 .. m - 1 : t = a % m /\ a = p * m + t
  BY Divided
<1>3. PICK x \in Int, y \in Int : x = p * m /\ y = q * m
  OBVIOUS
<1>4. ~(p < q)
  <2>1. p < q => x + m <= y
    BY <1>3, Quotients
  <2> QED BY <1>1, <1>2, <1>3, <2>1
<1>5. ~(q < p)
  <2>1. q < p => y + m <= x
    BY <1>3, Quotients
  <2> QED BY <1>1, <1>2, <1>3, <2>1
<1>6. p = q
  BY <1>4, <1>5
<1>7. x = y
  BY <1>3, <1>6
<1> QED BY <1>1, <1>2, <1>3, <1>7

LEMMA SuccessorRemainder ==
  ASSUME NEW a \in Nat, NEW m \in Nat \ {0}
  PROVE  (a + 1) % m = IF a % m = m - 1 THEN 0 ELSE (a % m) + 1
<1>1. PICK q \in Int, r \in 0 .. m - 1 : r = a % m /\ a = q * m + r
  <2>1. a \in Int
    OBVIOUS
  <2> QED BY <2>1, Divided, Zenon
<1>2. CASE r = m - 1
  <2>1. a + 1 = (q + 1) * m + 0
    BY <1>1, <1>2, Z3
  <2>2. ((q + 1) * m + 0) % m = 0
    <3>1. q + 1 \in Int /\ 0 \in 0 .. m - 1
      OBVIOUS
    <3> QED BY <3>1, Remainder
  <2> QED BY <1>1, <1>2, <2>1, <2>2
<1>3. CASE r # m - 1
  <2>1. r + 1 \in 0 .. m - 1
    BY <1>3
  <2>2. (q * m + (r + 1)) % m = r + 1
    BY <2>1, Remainder
  <2>3. a + 1 = q * m + (r + 1)
    BY <1>1
  <2> QED BY <1>1, <1>3, <2>2, <2>3
<1> QED BY <1>2, <1>3

LEMMA LastRemainder ==
  ASSUME NEW a \in Nat \ {0}, NEW m \in Nat \ {0}, a % m = 0
  PROVE  (a - 1) % m = m - 1
<1>1. PICK q \in Int : a = q * m
  <2>1. PICK q \in Int, r \in 0 .. m - 1 : r = a % m /\ a = q * m + r
    <3>1. a \in Int
      OBVIOUS
    <3> QED BY <3>1, Divided, Zenon
  <2>2. PICK x \in Int : x = q * m
    OBVIOUS
  <2> QED BY <2>1, <2>2
<1>2. a - 1 = (q - 1) * m + (m - 1)
  BY <1>1, Z3
<1>3. ((q - 1) * m + (m - 1)) % m = m - 1
  <2>1. q - 1 \in Int /\ m - 1 \in 0 .. m - 1
    OBVIOUS
  <2> QED BY <2>1, Remainder
<1> QED BY <1>2, <1>3

\* The number that is announced counts along with the one that is kept, over its overflow too.
LEMMA ReportedCounts ==
  ASSUME NEW cn \in 1 .. UINT32_MAX
  PROVE  /\ Identity!Reported(cn) \in 1 .. UINT16_MAX
         /\ Identity!IncrementCN(cn) \in 1 .. UINT32_MAX
         /\ Identity!Reported(Identity!IncrementCN(cn)) =
              IF Identity!Reported(cn) = UINT16_MAX THEN 1 ELSE Identity!Reported(cn) + 1
<1>1. UINT16_MAX \in Nat \ {0} /\ UINT32_MAX \in Nat \ {0} /\ UINT32_MAX % UINT16_MAX = 0
  BY Widths
<1>2. PICK a \in Nat : a = cn - 1
  OBVIOUS
<1>3. PICK r : r = a % UINT16_MAX
  OBVIOUS
<1>4. r \in 0 .. UINT16_MAX - 1 /\ Identity!Reported(cn) = r + 1
  BY <1>1, <1>2, <1>3 DEF Identity!Reported
<1>5. CASE cn = UINT32_MAX
  <2>1. r = UINT16_MAX - 1
    BY <1>1, <1>2, <1>3, <1>5, LastRemainder
  <2>2. Identity!IncrementCN(cn) = 1
    BY <1>1, <1>5 DEF Identity!IncrementCN, Identity!NotFound
  <2>3. 0 % UINT16_MAX = 0
    BY <1>1
  <2>4. Identity!Reported(1) = 1
    BY <2>3 DEF Identity!Reported
  <2> QED BY <1>1, <1>4, <2>1, <2>2, <2>4
<1>6. CASE cn # UINT32_MAX
  <2>1. Identity!IncrementCN(cn) = cn + 1
    BY <1>1, <1>6 DEF Identity!IncrementCN, Identity!NotFound
  <2>2. (a + 1) % UINT16_MAX = IF r = UINT16_MAX - 1 THEN 0 ELSE r + 1
    BY <1>1, <1>3, SuccessorRemainder
  <2>3. Identity!Reported(cn + 1) = ((a + 1) % UINT16_MAX) + 1
    BY <1>2 DEF Identity!Reported
  <2> QED BY <1>1, <1>4, <1>6, <2>1, <2>2, <2>3
<1> QED BY <1>5, <1>6

LEMMA AheadCounts ==
  ASSUME NEW last \in 1 .. UINT16_MAX, NEW k \in Nat, k < UINT16_MAX
  PROVE  /\ Ahead(last, k) \in 1 .. UINT16_MAX
         /\ k # 0 => Ahead(last, k) # last
         /\ k + 1 < UINT16_MAX =>
              Ahead(last, k + 1) = IF Ahead(last, k) = UINT16_MAX THEN 1 ELSE Ahead(last, k) + 1
  BY Widths DEF Ahead

\* A new device ID, or key, is one that no pairing has.
LEMMA NewIsNew ==
  ASSUME IdentityTypes, NEW used, IsFiniteSet(used), Cardinality(used) <= MaxPairings
  PROVE  Identity!New(used) \in Randoms \ used
<1>1. \E r \in Randoms : r \notin used
  <2>1. SUFFICES ASSUME Randoms \subseteq used PROVE FALSE
    OBVIOUS
  <2>2. Cardinality(Randoms) <= Cardinality(used)
    BY <2>1, FS_Subset
  <2>3. Cardinality(Randoms) \in Nat /\ Cardinality(used) \in Nat
    BY Widths, FS_CardinalityType
  <2> QED BY <2>2, <2>3, Widths
<1> QED BY <1>1 DEF Identity!New

-----------------------------------------------------------------------------
(* The steps of a start                                                      *)

LEMMA ConfigurationInit == Identity!Init => ConfigurationInv
<1> SUFFICES ASSUME Identity!Init PROVE ConfigurationInv
  OBVIOUS
<1>1. IsFiniteSet({}) /\ Cardinality({}) = 0
  BY FS_EmptySet
<1>2. /\ kept = [version |-> Identity!NoVersion, cn |-> 0, id |-> 0, ltsk |-> 0, pairings |-> {}]
      /\ process = [at |-> "off", firmware |-> 0, ltsk |-> 0, purging |-> <<>>, txt |-> Identity!Unannounced]
  BY DEF Identity!Init, Identity!Off, Identity!NotFound
<1>3. /\ DOMAIN past = {"toImport", "changed", "last", "other", "newest", "cutReset", "cuts"}
      /\ past.toImport \in {<<>>, <<"id", "cn", "ltsk", "pairing">>}
      /\ past.last = 0 /\ past.newest = 0 /\ past.cuts = 0 /\ past.cutReset = FALSE
  BY DEF Identity!Init
<1>4. IdentityTypes
  BY <1>1, <1>2, <1>3, Widths DEF IdentityTypes
<1>5. Imported
  BY <1>2, <1>3 DEF Imported
<1>6. Keyed /\ Announced /\ Versions /\ Counting
  BY <1>2, <1>3 DEF Keyed, Announced, Versions, Counting, Starting, Loaded, Updated
<1> QED BY <1>4, <1>5, <1>6 DEF ConfigurationInv

\* The process goes on to another step.
LEMMA Moves ==
  ASSUME IdentityTypes, NEW next, Identity!At(next)
  PROVE  /\ DOMAIN process' = DOMAIN process
         /\ process'.at = next /\ process'.firmware = process.firmware /\ process'.ltsk = process.ltsk
         /\ process'.purging = process.purging /\ process'.txt = process.txt
         /\ Identity!Version' = Identity!Version
  BY DEF IdentityTypes, Identity!At, Identity!Version

\* What holds while nothing is left to import
LEMMA AllImported ==
  ASSUME ConfigurationInv, process.at # "off"
  PROVE  past.toImport = <<>>
  BY DEF ConfigurationInv, Imported

LEMMA StartKeeps ==
  ASSUME ConfigurationInv, Identity!Start
  PROVE  ConfigurationInv'
<1>1. /\ process.at = "idle" /\ UNCHANGED <<kept, past>> /\ Identity!Version # Identity!NoVersion
      /\ \/ kept.version = Identity!NoVersion /\ Identity!At("saveVersion")
         \/ kept.version = Identity!Version /\ Identity!At("loadLTSK")
         \/ /\ kept.version \notin {Identity!NoVersion, Identity!Version}
            /\ ~Identity!Older(Identity!Version, kept.version)
            /\ Identity!At("handleFirmwareUpdate")
  BY DEF Identity!Start
<1>2. /\ DOMAIN process' = DOMAIN process
      /\ process'.at \in {"saveVersion", "loadLTSK", "handleFirmwareUpdate"}
      /\ process'.firmware = process.firmware
      /\ process'.at = "saveVersion" => kept.version = Identity!NoVersion
      /\ process'.at = "loadLTSK" => kept.version = Identity!Version
      /\ process'.at = "handleFirmwareUpdate" =>
           kept.version # Identity!Version /\ ~Identity!Older(Identity!Version, kept.version)
      /\ Identity!Version' = Identity!Version
  BY <1>1, Moves DEF ConfigurationInv
<1>3. IdentityTypes'
  BY <1>1, <1>2 DEF ConfigurationInv, IdentityTypes, Starting
<1>4. Imported'
  BY <1>1, <1>2, AllImported DEF Imported
<1>5. Keyed' /\ Announced'
  BY <1>1, <1>2 DEF ConfigurationInv, Keyed, Announced, Loaded
<1>6. Versions'
  BY <1>1, <1>2 DEF ConfigurationInv, Versions, Starting, Updated, Loaded
<1>7. Counting'
  BY <1>1, <1>2, Widths DEF ConfigurationInv, IdentityTypes, Versions, Counting, Counted
<1> QED BY <1>3, <1>4, <1>5, <1>6, <1>7 DEF ConfigurationInv

\* A step that counts
LEMMA CountsUp ==
  ASSUME IdentityTypes, kept.cn # 0, past.last # 0,
         NEW k \in Nat, k + 1 < UINT16_MAX, Identity!Reported(kept.cn) = Ahead(past.last, k)
  PROVE  Identity!Reported(Identity!IncrementCN(kept.cn)) = Ahead(past.last, k + 1)
<1>1. kept.cn \in 1 .. UINT32_MAX /\ past.last \in 1 .. UINT16_MAX
  BY Widths DEF IdentityTypes
<1>2. PICK cn \in 1 .. UINT32_MAX, last \in 1 .. UINT16_MAX : cn = kept.cn /\ last = past.last
  BY <1>1
<1>3. Identity!Reported(Identity!IncrementCN(cn)) =
        IF Identity!Reported(cn) = UINT16_MAX THEN 1 ELSE Identity!Reported(cn) + 1
  BY ReportedCounts
<1>4. k < UINT16_MAX
  BY Widths
<1>5. Ahead(last, k + 1) = IF Ahead(last, k) = UINT16_MAX THEN 1 ELSE Ahead(last, k) + 1
  BY <1>4, AheadCounts
<1> QED BY <1>2, <1>3, <1>5

LEMMA HandleFirmwareUpdateKeeps ==
  ASSUME ConfigurationInv, Identity!HandleFirmwareUpdate
  PROVE  ConfigurationInv'
<1>1. /\ process.at = "handleFirmwareUpdate" /\ UNCHANGED past
      /\ kept' = [kept EXCEPT !.cn = Identity!IncrementCN(@)]
      /\ Identity!At("saveVersion")
  BY DEF Identity!HandleFirmwareUpdate
<1>2. /\ DOMAIN process' = DOMAIN process
      /\ process'.at = "saveVersion" /\ process'.firmware = process.firmware
      /\ Identity!Version' = Identity!Version
  BY <1>1, Moves DEF ConfigurationInv
<1>3. /\ DOMAIN kept' = DOMAIN kept /\ kept'.version = kept.version /\ kept'.id = kept.id
      /\ kept'.ltsk = kept.ltsk /\ kept'.pairings = kept.pairings
      /\ kept'.cn = Identity!IncrementCN(kept.cn)
  BY <1>1 DEF ConfigurationInv, IdentityTypes
<1>4. kept'.cn \in 1 .. UINT32_MAX
  <2>1. CASE kept.cn = 0
    BY <1>3, <2>1, Widths DEF Identity!IncrementCN, Identity!NotFound
  <2>2. CASE kept.cn # 0
    BY <1>3, <2>2, ReportedCounts, Widths DEF ConfigurationInv, IdentityTypes
  <2> QED BY <2>1, <2>2
<1>5. IdentityTypes'
  BY <1>1, <1>2, <1>3, <1>4, Widths DEF ConfigurationInv, IdentityTypes, Starting
<1>6. Imported'
  BY <1>1, <1>2, <1>3, AllImported DEF Imported
<1>7. Keyed' /\ Announced'
  BY <1>1, <1>2, <1>3 DEF ConfigurationInv, Keyed, Announced, Loaded
<1>8. Versions'
  BY <1>1, <1>2, <1>3 DEF ConfigurationInv, Versions, Starting, Updated, Loaded
<1>9. Counting'
  <2> SUFFICES ASSUME past.last # 0
               PROVE  /\ past.newest # 0 /\ kept'.cn # 0
                      /\ \E k \in 1 .. 2 * past.cuts + 1 :
                           Identity!Reported(kept'.cn) = Ahead(past.last, k)
    BY <1>1, <1>2, <1>3, Widths DEF Counting, Counted, Identity!NotFound
  <2>1. PICK k \in 0 .. 2 * past.cuts : Identity!Reported(kept.cn) = Ahead(past.last, k)
    BY <1>1 DEF ConfigurationInv, Counting, Counted, IdentityTypes
  <2>2. past.newest # 0 /\ kept.cn # 0
    BY DEF ConfigurationInv, Counting, Identity!NotFound
  <2>3. k + 1 < UINT16_MAX /\ k + 1 \in 1 .. 2 * past.cuts + 1
    BY Widths DEF ConfigurationInv, IdentityTypes
  <2>4. Identity!Reported(kept'.cn) = Ahead(past.last, k + 1)
    BY <1>3, <2>1, <2>2, <2>3, CountsUp DEF ConfigurationInv
  <2> QED BY <1>4, <2>2, <2>3, <2>4
<1> QED BY <1>5, <1>6, <1>7, <1>8, <1>9 DEF ConfigurationInv

LEMMA SaveVersionKeeps ==
  ASSUME ConfigurationInv, Identity!SaveVersion
  PROVE  ConfigurationInv'
<1>1. /\ process.at = "saveVersion" /\ UNCHANGED past
      /\ kept' = [kept EXCEPT !.version = Identity!Version]
      /\ Identity!At("loadLTSK")
  BY DEF Identity!SaveVersion
<1>2. /\ DOMAIN process' = DOMAIN process
      /\ process'.at = "loadLTSK" /\ process'.firmware = process.firmware
      /\ Identity!Version' = Identity!Version
  BY <1>1, Moves DEF ConfigurationInv
<1>3. /\ DOMAIN kept' = DOMAIN kept /\ kept'.version = Identity!Version /\ kept'.id = kept.id
      /\ kept'.ltsk = kept.ltsk /\ kept'.pairings = kept.pairings /\ kept'.cn = kept.cn
  BY <1>1 DEF ConfigurationInv, IdentityTypes
<1>4. IdentityTypes'
  BY <1>1, <1>2, <1>3 DEF ConfigurationInv, IdentityTypes, Starting
<1>5. Imported'
  BY <1>1, <1>2, <1>3, AllImported DEF Imported
<1>6. Keyed' /\ Announced'
  BY <1>1, <1>2, <1>3 DEF ConfigurationInv, Keyed, Announced, Loaded
\* The new version is not older than the one it replaces, and so than what was announced.
<1>7. past.newest # 0 => process.firmware >= past.newest
  <2> SUFFICES ASSUME past.newest # 0 PROVE process.firmware >= past.newest
    OBVIOUS
  <2>1. PICK f \in DOMAIN Firmwares :
          f >= past.newest /\ kept.version = VersionOf(f) /\ VersionOf(f) # Identity!NoVersion
    BY DEF ConfigurationInv, Versions
  <2>2. PICK g \in DOMAIN Firmwares : g = process.firmware /\ VersionOf(g) = Identity!Version
    BY <1>1 DEF ConfigurationInv, IdentityTypes, VersionOf, Identity!Version
  <2>3. /\ VersionOf(g) # Identity!NoVersion
        /\ VersionOf(g) # VersionOf(f) /\ ~Identity!Older(VersionOf(g), VersionOf(f))
    BY <1>1, <2>1, <2>2 DEF ConfigurationInv, Versions, Starting
  <2>4. f \in Nat /\ g \in Nat /\ past.newest \in Nat
    BY Widths DEF ConfigurationInv, IdentityTypes
  <2>5. ~(g < f)
    BY <2>1, <2>3, VersionsGrow
  <2> QED BY <2>1, <2>2, <2>4, <2>5
<1>8. Versions'
  <2>1. /\ process.firmware \in DOMAIN Firmwares /\ Identity!Version = VersionOf(process.firmware)
        /\ Identity!Version # Identity!NoVersion
    BY <1>1 DEF ConfigurationInv, IdentityTypes, Versions, Starting, VersionOf, Identity!Version
  <2> QED BY <1>1, <1>2, <1>3, <1>7, <2>1 DEF ConfigurationInv, Versions, Starting, Updated, Loaded
<1>9. Counting'
  BY <1>1, <1>2, <1>3 DEF ConfigurationInv, Counting, Counted
<1> QED BY <1>4, <1>5, <1>6, <1>8, <1>9 DEF ConfigurationInv

\* A pairing is purged.
LEMMA Purges ==
  ASSUME IdentityTypes, Identity!PurgePairing
  PROVE  /\ DOMAIN kept' = DOMAIN kept /\ kept'.version = kept.version /\ kept'.cn = kept.cn
         /\ kept'.id = kept.id /\ kept'.ltsk = kept.ltsk
         /\ kept'.pairings \subseteq kept.pairings /\ kept.pairings # {}
         /\ IsFiniteSet(kept'.pairings) /\ Cardinality(kept'.pairings) <= MaxPairings
<1>1. PICK p \in kept.pairings : kept' = [kept EXCEPT !.pairings = @ \ {p}]
  BY DEF Identity!PurgePairing
<1>2. /\ DOMAIN kept' = DOMAIN kept /\ kept'.version = kept.version /\ kept'.cn = kept.cn
      /\ kept'.id = kept.id /\ kept'.ltsk = kept.ltsk
      /\ kept'.pairings = kept.pairings \ {p}
  BY <1>1 DEF IdentityTypes
<1>3. IsFiniteSet(kept.pairings) /\ Cardinality(kept.pairings) <= MaxPairings
  BY DEF IdentityTypes
<1>4. /\ IsFiniteSet(kept'.pairings) /\ Cardinality(kept'.pairings) <= Cardinality(kept.pairings)
      /\ Cardinality(kept'.pairings) \in Nat /\ Cardinality(kept.pairings) \in Nat
  <2>1. kept'.pairings \subseteq kept.pairings
    BY <1>2
  <2> QED BY <1>3, <2>1, FS_Subset, FS_CardinalityType
<1> QED BY <1>1, <1>2, <1>3, <1>4, Widths

\* Purging pairings disturbs nothing where it is done.
LEMMA PurgeKeeps ==
  ASSUME ConfigurationInv, Identity!PurgePairing, UNCHANGED <<process, past>>,
         process.at \in {"loadLTSK", "cleanupPairings", "purging"}
  PROVE  ConfigurationInv'
<1>1. /\ DOMAIN kept' = DOMAIN kept /\ kept'.version = kept.version /\ kept'.cn = kept.cn
      /\ kept'.id = kept.id /\ kept'.ltsk = kept.ltsk
      /\ kept'.pairings \subseteq kept.pairings
      /\ IsFiniteSet(kept'.pairings) /\ Cardinality(kept'.pairings) <= MaxPairings
  BY Purges DEF ConfigurationInv
<1>2. IdentityTypes'
  BY <1>1 DEF ConfigurationInv, IdentityTypes
<1>3. Imported'
  BY AllImported DEF Imported
<1>4. Keyed' /\ Announced'
  BY <1>1 DEF ConfigurationInv, Keyed, Announced, Loaded
<1>5. Versions' /\ Counting'
  BY <1>1 DEF ConfigurationInv, Versions, Counting, Counted, Identity!Version
<1> QED BY <1>2, <1>3, <1>4, <1>5 DEF ConfigurationInv

LEMMA LoadLTSKKeeps ==
  ASSUME ConfigurationInv, Identity!LoadLTSK
  PROVE  ConfigurationInv'
<1>1. process.at = "loadLTSK" /\ UNCHANGED past
  BY DEF Identity!LoadLTSK
<1>2. ASSUME NEW ltsk, ltsk # 0,
             \/ kept.ltsk = ltsk /\ UNCHANGED kept
             \/ kept.pairings = {} /\ kept' = [kept EXCEPT !.ltsk = ltsk],
             process' = [process EXCEPT !.at = "cleanupPairings", !.ltsk = ltsk]
      PROVE  ConfigurationInv'
  <2>1. /\ DOMAIN kept' = DOMAIN kept /\ kept'.version = kept.version /\ kept'.cn = kept.cn
        /\ kept'.id = kept.id /\ kept'.ltsk = ltsk /\ kept'.pairings = kept.pairings
    BY <1>2 DEF ConfigurationInv, IdentityTypes
  <2>2. /\ DOMAIN process' = DOMAIN process
        /\ process'.at = "cleanupPairings" /\ process'.ltsk = ltsk /\ process'.firmware = process.firmware
    BY <1>2 DEF ConfigurationInv, IdentityTypes
  <2>3. IdentityTypes'
    BY <1>1, <2>1, <2>2 DEF ConfigurationInv, IdentityTypes, Starting
  <2>4. Imported'
    BY <1>1, <2>1, <2>2, AllImported DEF Imported
  <2>5. Keyed' /\ Announced'
    BY <1>1, <1>2, <2>1, <2>2 DEF ConfigurationInv, Keyed, Announced, Loaded, Identity!NotFound
  <2>6. Versions' /\ Counting'
    BY <1>1, <2>1, <2>2
    DEF ConfigurationInv, Versions, Counting, Counted, Starting, Updated, Loaded, Identity!Version
  <2> QED BY <2>3, <2>4, <2>5, <2>6 DEF ConfigurationInv
<1>3. CASE kept.ltsk = 0 /\ Identity!PurgePairing /\ UNCHANGED process
  BY <1>1, <1>3, PurgeKeeps
<1>4. CASE /\ kept.ltsk # 0
           /\ process' = [process EXCEPT !.at = "cleanupPairings", !.ltsk = kept.ltsk]
           /\ UNCHANGED kept
  BY <1>2, <1>4
<1>5. CASE /\ kept.ltsk = 0 /\ kept.pairings = {}
           /\ \E ltsk : /\ ltsk = Identity!New({p.ltsk : p \in kept.pairings})
                        /\ kept' = [kept EXCEPT !.ltsk = ltsk]
                        /\ process' = [process EXCEPT !.at = "cleanupPairings", !.ltsk = ltsk]
  <2>1. PICK ltsk : /\ ltsk = Identity!New({})
                    /\ kept' = [kept EXCEPT !.ltsk = ltsk]
                    /\ process' = [process EXCEPT !.at = "cleanupPairings", !.ltsk = ltsk]
    <3>1. {p.ltsk : p \in kept.pairings} = {}
      BY <1>5
    <3> QED BY <1>5, <3>1
  <2>2. ltsk # 0
    <3>1. Identity!New({}) \in Randoms \ {}
      BY FS_EmptySet, NewIsNew, Widths DEF ConfigurationInv
    <3> QED BY <2>1, <3>1, Widths
  <2> QED BY <1>2, <1>5, <2>1, <2>2
<1> QED BY <1>3, <1>4, <1>5 DEF Identity!LoadLTSK, Identity!NotFound

LEMMA CleanupPairingsKeeps ==
  ASSUME ConfigurationInv, Identity!CleanupPairings
  PROVE  ConfigurationInv'
<1>1. process.at = "cleanupPairings" /\ UNCHANGED past
  BY DEF Identity!CleanupPairings
<1>2. CASE Identity!PurgePairing /\ UNCHANGED process
  BY <1>1, <1>2, PurgeKeeps
<1>3. CASE (Identity!AdminFound \/ kept.pairings = {}) /\ Identity!At("started") /\ UNCHANGED kept
  <2>1. /\ DOMAIN process' = DOMAIN process /\ process'.at = "started"
        /\ process'.ltsk = process.ltsk /\ process'.firmware = process.firmware
        /\ Identity!Version' = Identity!Version
    BY <1>3, Moves DEF ConfigurationInv
  <2>2. IdentityTypes'
    BY <1>1, <1>3, <2>1 DEF ConfigurationInv, IdentityTypes, Starting
  <2>3. Imported'
    BY <1>1, <1>3, <2>1, AllImported DEF Imported
  <2>4. Keyed' /\ Announced'
    BY <1>1, <1>3, <2>1 DEF ConfigurationInv, Keyed, Announced, Loaded, Identity!AdminFound
  <2>5. Versions' /\ Counting'
    BY <1>1, <1>3, <2>1 DEF ConfigurationInv, Versions, Counting, Counted, Starting, Updated, Loaded
  <2> QED BY <2>2, <2>3, <2>4, <2>5 DEF ConfigurationInv
<1> QED BY <1>2, <1>3 DEF Identity!CleanupPairings

LEMMA StartBridgeKeeps ==
  ASSUME ConfigurationInv, Identity!StartBridge
  PROVE  ConfigurationInv'
<1>1. /\ process.at = "started" /\ UNCHANGED past
      /\ kept' = IF past.changed THEN [kept EXCEPT !.cn = Identity!IncrementCN(@)] ELSE kept
      /\ Identity!At("getCN")
  BY DEF Identity!StartBridge
<1>2. /\ DOMAIN process' = DOMAIN process
      /\ process'.at = "getCN" /\ process'.firmware = process.firmware /\ process'.ltsk = process.ltsk
      /\ Identity!Version' = Identity!Version
  BY <1>1, Moves DEF ConfigurationInv
<1>3. /\ DOMAIN kept' = DOMAIN kept /\ kept'.version = kept.version /\ kept'.id = kept.id
      /\ kept'.ltsk = kept.ltsk /\ kept'.pairings = kept.pairings
      /\ kept'.cn = IF past.changed THEN Identity!IncrementCN(kept.cn) ELSE kept.cn
  BY <1>1 DEF ConfigurationInv, IdentityTypes
<1>4. kept'.cn \in 0 .. UINT32_MAX /\ (kept.cn # 0 => kept'.cn # 0)
  <2>1. CASE kept.cn = 0
    BY <1>3, <2>1, Widths DEF Identity!IncrementCN, Identity!NotFound
  <2>2. CASE kept.cn # 0
    BY <1>3, <2>2, ReportedCounts, Widths DEF ConfigurationInv, IdentityTypes
  <2> QED BY <2>1, <2>2
<1>5. IdentityTypes'
  BY <1>1, <1>2, <1>3, <1>4, Widths DEF ConfigurationInv, IdentityTypes, Starting
<1>6. Imported'
  BY <1>1, <1>2, <1>3, AllImported DEF Imported
<1>7. Keyed' /\ Announced'
  BY <1>1, <1>2, <1>3 DEF ConfigurationInv, Keyed, Announced, Loaded, Identity!AdminFound
<1>8. Versions'
  BY <1>1, <1>2, <1>3 DEF ConfigurationInv, Versions, Starting, Updated, Loaded
<1>9. Counting'
  <2> SUFFICES ASSUME past.last # 0
               PROVE  /\ past.newest # 0 /\ kept'.cn # 0
                      /\ \E k \in 0 .. 2 * past.cuts + 2 :
                           /\ Identity!Reported(kept'.cn) = Ahead(past.last, k)
                           /\ past.changed => k # 0
                           /\ kept.version # VersionOf(past.newest) => k # 0
    BY <1>1, <1>2, <1>3 DEF Counting, Counted, Identity!NotFound
  <2>1. PICK k \in 0 .. 2 * past.cuts + 1 :
          /\ Identity!Reported(kept.cn) = Ahead(past.last, k)
          /\ kept.version # VersionOf(past.newest) => k # 0
    BY <1>1 DEF ConfigurationInv, Counting, Counted, IdentityTypes
  <2>2. past.newest # 0 /\ kept.cn # 0
    BY DEF ConfigurationInv, Counting, Identity!NotFound
  <2>3. k + 1 < UINT16_MAX /\ k + 1 \in 1 .. 2 * past.cuts + 2
    BY Widths DEF ConfigurationInv, IdentityTypes
  <2>4. CASE past.changed
    <3>1. Identity!Reported(kept'.cn) = Ahead(past.last, k + 1)
      BY <1>3, <2>1, <2>2, <2>3, <2>4, CountsUp DEF ConfigurationInv
    <3> QED BY <1>4, <2>2, <2>3, <3>1
  <2>5. CASE ~past.changed
    <3>1. kept'.cn = kept.cn
      BY <1>3, <2>5
    <3>2. k \in 0 .. 2 * past.cuts + 2
      BY DEF ConfigurationInv, IdentityTypes
    <3> QED BY <2>1, <2>2, <2>5, <3>1, <3>2
  <2> QED BY <2>4, <2>5
<1> QED BY <1>5, <1>6, <1>7, <1>8, <1>9 DEF ConfigurationInv

LEMMA GetCNKeeps ==
  ASSUME ConfigurationInv, Identity!GetCN
  PROVE  ConfigurationInv'
<1>1. /\ process.at = "getCN" /\ UNCHANGED past
      /\ kept' = [kept EXCEPT !.cn = IF @ = 0 THEN 1 ELSE @]
      /\ Identity!At("getDeviceID")
  BY DEF Identity!GetCN, Identity!NotFound
<1>2. /\ DOMAIN process' = DOMAIN process
      /\ process'.at = "getDeviceID" /\ process'.firmware = process.firmware /\ process'.ltsk = process.ltsk
      /\ Identity!Version' = Identity!Version
  BY <1>1, Moves DEF ConfigurationInv
<1>3. /\ DOMAIN kept' = DOMAIN kept /\ kept'.version = kept.version /\ kept'.id = kept.id
      /\ kept'.ltsk = kept.ltsk /\ kept'.pairings = kept.pairings
      /\ kept'.cn = IF kept.cn = 0 THEN 1 ELSE kept.cn
  BY <1>1 DEF ConfigurationInv, IdentityTypes
<1>4. IdentityTypes'
  BY <1>1, <1>2, <1>3, Widths DEF ConfigurationInv, IdentityTypes, Starting
<1>5. Imported'
  BY <1>1, <1>2, <1>3, AllImported DEF Imported
<1>6. Keyed' /\ Announced'
  BY <1>1, <1>2, <1>3 DEF ConfigurationInv, Keyed, Announced, Loaded, Identity!AdminFound, Identity!NotFound
<1>7. Versions' /\ Counting'
  BY <1>1, <1>2, <1>3
  DEF ConfigurationInv, Versions, Counting, Counted, Starting, Updated, Loaded, Identity!NotFound
<1> QED BY <1>4, <1>5, <1>6, <1>7 DEF ConfigurationInv

LEMMA DeviceIDGetKeeps ==
  ASSUME ConfigurationInv, Identity!DeviceIDGet
  PROVE  ConfigurationInv'
<1> DEFINE differs == past.changed \/ process.firmware # past.newest
           cn == Identity!Reported(kept.cn)
<1>1. /\ process.at = "getDeviceID"
      /\ kept' = [kept EXCEPT !.id = IF @ = 0 THEN Identity!New({p.id : p \in kept.pairings}) ELSE @]
      /\ process' = [process EXCEPT !.at = "running", !.txt = Identity!SetHAPService(kept')]
      /\ past' = [past EXCEPT !.changed = FALSE, !.cuts = 0,
                              !.last = IF past.cutReset THEN 0 ELSE process'.txt.cn,
                              !.other = IF differs THEN past.last ELSE 0,
                              !.newest = IF @ < process.firmware THEN process.firmware ELSE @]
  BY DEF Identity!DeviceIDGet, Identity!NotFound
<1>2. /\ DOMAIN kept' = DOMAIN kept /\ kept'.version = kept.version /\ kept'.cn = kept.cn
      /\ kept'.ltsk = kept.ltsk /\ kept'.pairings = kept.pairings
      /\ kept'.id = IF kept.id = 0 THEN Identity!New({p.id : p \in kept.pairings}) ELSE kept.id
  BY <1>1 DEF ConfigurationInv, IdentityTypes
<1>3. /\ DOMAIN process' = DOMAIN process
      /\ process'.at = "running" /\ process'.firmware = process.firmware /\ process'.ltsk = process.ltsk
      /\ process'.txt = Identity!SetHAPService(kept')
  BY <1>1 DEF ConfigurationInv, IdentityTypes
<1>4. /\ process'.txt.cn = cn /\ process'.txt.id = kept'.id
      /\ process'.txt.paired <=> (kept.pairings # {})
  <2>1. PICK b \in BOOLEAN : b = (kept'.pairings # {})
    OBVIOUS
  <2>6. PICK id : id = kept'.id
    OBVIOUS
  <2>2. process'.txt = [cn |-> cn, id |-> id, paired |-> b]
    BY <1>2, <1>3, <2>1, <2>6 DEF Identity!SetHAPService
  <2> HIDE DEF cn
  <2>3. process'.txt.cn = cn /\ process'.txt.id = id /\ process'.txt.paired = b
    BY <2>2
  <2>4. kept'.pairings = kept.pairings
    BY <1>2
  <2> QED BY <2>1, <2>6, <2>3, <2>4, Zenon
<1>5. /\ DOMAIN past' = DOMAIN past
      /\ past'.changed = FALSE /\ past'.cuts = 0 /\ past'.toImport = past.toImport
      /\ past'.cutReset = past.cutReset
      /\ past'.last = (IF past.cutReset THEN 0 ELSE cn)
      /\ past'.other = (IF differs THEN past.last ELSE 0)
      /\ past'.newest = (IF past.newest < process.firmware THEN process.firmware ELSE past.newest)
  <2>1. DOMAIN past = {"toImport", "changed", "last", "other", "newest", "cutReset", "cuts"}
    BY DEF ConfigurationInv, IdentityTypes
  <2>2. PICK last, other, newest :
          /\ last = (IF past.cutReset THEN 0 ELSE cn) /\ other = (IF differs THEN past.last ELSE 0)
          /\ newest = (IF past.newest < process.firmware THEN process.firmware ELSE past.newest)
    OBVIOUS
  <2>3. process'.txt.cn = cn
    BY <1>4
  <2>4. past' = [past EXCEPT !.changed = FALSE, !.cuts = 0, !.last = last, !.other = other, !.newest = newest]
    BY <1>1, <2>2, <2>3, Zenon
  <2> HIDE DEF differs, cn
  <2> QED BY <2>1, <2>2, <2>4
<1>6. cn \in 1 .. UINT16_MAX /\ kept.cn # 0
  <2>1. kept.cn \in 1 .. UINT32_MAX
    BY <1>1 DEF ConfigurationInv, Announced, IdentityTypes, Identity!NotFound
  <2> QED BY <2>1, ReportedCounts
<1>7. kept'.id # 0
  <2>1. CASE kept.id = 0
    <3>1. PICK used : used = {p.id : p \in kept.pairings}
      OBVIOUS
    <3>2. /\ IsFiniteSet(used) /\ Cardinality(used) <= Cardinality(kept.pairings)
          /\ Cardinality(kept.pairings) <= MaxPairings
          /\ Cardinality(kept.pairings) \in Nat /\ Cardinality(used) \in Nat
      <4>1. PICK S : S = kept.pairings /\ IsFiniteSet(S) /\ Cardinality(S) <= MaxPairings
        BY DEF ConfigurationInv, IdentityTypes
      <4>2. [p \in S |-> p.id] \in Surjection(S, used)
        BY <3>1, <4>1 DEF Surjection
      <4> QED BY <4>1, <4>2, FS_Surjection, FS_CardinalityType
    <3>3. Identity!New(used) \in Randoms
      BY <3>2, NewIsNew, Widths DEF ConfigurationInv
    <3> QED BY <1>2, <2>1, <3>1, <3>3, Widths
  <2>2. CASE kept.id # 0
    BY <1>2, <2>2
  <2> QED BY <2>1, <2>2
<1>8. /\ process.firmware \in DOMAIN Firmwares /\ process.firmware \in Nat \ {0}
      /\ kept.version = VersionOf(process.firmware) /\ VersionOf(process.firmware) # Identity!NoVersion
  BY <1>1, Widths DEF ConfigurationInv, IdentityTypes, Versions, Starting, Updated, Loaded, VersionOf, Identity!Version
\* The firmware is at least as new as what was announced ...
<1>9. past.newest \in Nat /\ past.newest <= process.firmware
  <2>1. past.newest \in Nat
    BY DEF ConfigurationInv, IdentityTypes
  <2>2. CASE past.newest # 0
    <3>1. PICK f \in DOMAIN Firmwares :
            f >= past.newest /\ kept.version = VersionOf(f) /\ VersionOf(f) # Identity!NoVersion
      BY <2>2 DEF ConfigurationInv, Versions
    <3>2. PICK g \in DOMAIN Firmwares : g = process.firmware
      BY <1>8
    <3>3. f \in Nat /\ g \in Nat
      BY Widths
    <3>4. ~(g < f)
      BY <1>8, <3>1, <3>2, VersionsGrow
    <3> QED BY <2>1, <3>1, <3>2, <3>3, <3>4
  <2> QED BY <1>8, <2>1, <2>2
<1>10. past'.newest = process.firmware
  BY <1>5, <1>8, <1>9
\* ... and what differs from it has been counted.
<1>11. cn # past'.other
  <2> SUFFICES ASSUME differs, past.last # 0 PROVE cn # past.last
    BY <1>5, <1>6
  <2>1. PICK k \in 0 .. 2 * past.cuts + 2 :
          /\ cn = Ahead(past.last, k)
          /\ past.changed => k # 0
          /\ kept.version # VersionOf(past.newest) => k # 0
    BY <1>1 DEF ConfigurationInv, Counting, Counted, IdentityTypes
  <2>2. k # 0
    <3>1. CASE past.changed
      BY <2>1, <3>1
    <3>2. CASE process.firmware # past.newest
      <4>1. PICK f \in DOMAIN Firmwares : f = past.newest /\ VersionOf(f) # Identity!NoVersion
        BY DEF ConfigurationInv, Counting, Versions
      <4>2. PICK g \in DOMAIN Firmwares : g = process.firmware
        BY <1>8
      <4>3. f < g
        BY <1>8, <1>9, <3>2, <4>1, <4>2
      <4>4. VersionOf(f) # VersionOf(g)
        BY <1>8, <4>1, <4>2, <4>3, VersionsGrow
      <4> QED BY <1>8, <2>1, <4>1, <4>2, <4>4
    <3> QED BY <3>1, <3>2
  <2>3. k \in Nat /\ k < UINT16_MAX
    BY Widths DEF ConfigurationInv, IdentityTypes
  <2>4. PICK last \in 1 .. UINT16_MAX : last = past.last
    BY Widths DEF ConfigurationInv, IdentityTypes
  <2> QED BY <2>1, <2>2, <2>3, <2>4, AheadCounts
<1> HIDE DEF differs, cn
<1>12. IdentityTypes'
  BY <1>2, <1>3, <1>5, <1>6, <1>8, <1>10, Widths DEF ConfigurationInv, IdentityTypes
<1>13. Imported'
  BY <1>1, <1>5, AllImported DEF Imported
<1>14. Keyed'
  <2>1. \A p \in kept.pairings : /\ p.id # 0 /\ p.ltsk = kept.ltsk
                                 /\ p.id = kept.id \/ past.cutReset
    BY <1>1 DEF ConfigurationInv, Keyed, Loaded, Identity!NotFound
  <2>2. process.ltsk = kept.ltsk /\ kept.ltsk # 0 /\ (kept.pairings = {} \/ Identity!AdminFound)
    BY <1>1 DEF ConfigurationInv, Keyed, Loaded, Identity!NotFound
  <2> QED BY <1>2, <1>3, <1>5, <2>1, <2>2 DEF Keyed, Identity!NotFound, Identity!AdminFound
<1>15. Announced'
  BY <1>2, <1>3, <1>4, <1>6, <1>7, <1>10, <1>11 DEF Announced, Identity!NotFound, cn
<1>16. Versions'
  BY <1>2, <1>3, <1>5, <1>8, <1>10 DEF Versions, Starting, Updated, VersionOf, Identity!Version
<1>17. Counting'
  <2>1. past'.last # 0 => cn = Ahead(past'.last, 0)
    BY <1>5, <1>6, Widths DEF Ahead
  <2> QED BY <1>2, <1>3, <1>5, <1>6, <1>8, <1>10, <2>1 DEF Counting, Counted, Identity!NotFound, cn
<1> QED BY <1>12, <1>13, <1>14, <1>15, <1>16, <1>17 DEF ConfigurationInv

-----------------------------------------------------------------------------
(* Running                                                                   *)

LEMMA AdminKeptBeside ==
  ASSUME NEW admin, kept.pairings = {} \/ Identity!AdminFound, kept.pairings = {} => admin,
         NEW p, p.admin = admin, kept'.pairings = kept.pairings \cup {p}
  PROVE  Identity!AdminFound'
  BY DEF Identity!AdminFound

\* What Identity!Handled does to the process
LEMMA AnnouncedAnew ==
  ASSUME IdentityTypes, NEW was \in BOOLEAN, Identity!Handled(was)
  PROVE  /\ DOMAIN process' = DOMAIN process
         /\ process'.at = "running" /\ process'.firmware = process.firmware /\ process'.ltsk = process.ltsk
         /\ \/ /\ process'.txt.cn = Identity!Reported(kept'.cn) /\ process'.txt.id = kept'.id
               /\ process'.txt.paired <=> (kept'.pairings # {})
            \/ process'.txt = process.txt /\ (was <=> (kept'.pairings # {}))
<1>1. CASE /\ (kept'.pairings # {}) # was
           /\ process' = [process EXCEPT !.at = "running", !.txt = Identity!SetHAPService(kept')]
  <2>1. PICK b \in BOOLEAN : b = (kept'.pairings # {})
    OBVIOUS
  <2>2. PICK id, cn, txt :
          id = kept'.id /\ cn = Identity!Reported(kept'.cn) /\ txt = Identity!SetHAPService(kept')
    OBVIOUS
  <2>3. txt = [cn |-> cn, id |-> id, paired |-> b]
    BY <2>1, <2>2 DEF Identity!SetHAPService
  <2>4. /\ DOMAIN process' = DOMAIN process /\ process'.txt = txt
        /\ process'.at = "running" /\ process'.firmware = process.firmware /\ process'.ltsk = process.ltsk
    BY <1>1, <2>2 DEF IdentityTypes
  <2>5. txt.cn = cn /\ txt.id = id /\ txt.paired = b
    BY <2>3
  <2> QED BY <2>1, <2>2, <2>4, <2>5, Zenon
<1>2. CASE (kept'.pairings # {}) = was /\ Identity!At("running")
  BY <1>2, Moves
<1> QED BY <1>1, <1>2 DEF Identity!Handled

\* A running accessory whose pairings change
LEMMA RunningKeeps ==
  ASSUME ConfigurationInv, process.at \in {"running", "removing"}, UNCHANGED past,
         DOMAIN kept' = DOMAIN kept, kept'.version = kept.version, kept'.cn = kept.cn,
         kept'.id = kept.id, kept'.ltsk = kept.ltsk,
         IsFiniteSet(kept'.pairings), Cardinality(kept'.pairings) <= MaxPairings,
         \A p \in kept'.pairings : p \in kept.pairings \/ (p.id = kept.id /\ p.ltsk = kept.ltsk),
         DOMAIN process' = DOMAIN process,
         process'.firmware = process.firmware, process'.ltsk = process.ltsk,
         \/ process'.at = "running" /\ (kept'.pairings = {} \/ Identity!AdminFound')
         \/ process'.at = "removing" /\ kept'.pairings # {},
         \/ /\ process'.txt.cn = Identity!Reported(kept'.cn) /\ process'.txt.id = kept'.id
            /\ process'.txt.paired <=> (kept'.pairings # {})
         \/ process'.txt = process.txt /\ (kept.pairings # {} <=> kept'.pairings # {})
  PROVE  ConfigurationInv'
<1>1. process'.at \in {"running", "removing"}
  OBVIOUS
<1>2. IdentityTypes'
  BY <1>1 DEF ConfigurationInv, IdentityTypes
<1>3. Imported'
  BY AllImported DEF Imported
<1>4. Keyed'
  <2>1. kept.id # 0
    BY DEF ConfigurationInv, Announced, Identity!NotFound
  <2> QED BY <1>1, <2>1 DEF ConfigurationInv, Keyed, Loaded, Identity!NotFound
<1>5. Announced'
  <2>1. /\ kept.cn # 0 /\ kept.id # 0 /\ process.txt.id = kept.id
        /\ process.txt.cn = Identity!Reported(kept.cn) /\ process.txt.cn # past.other
        /\ process.firmware = past.newest
        /\ process.txt.paired <=> (kept.pairings # {})
    BY DEF ConfigurationInv, Announced, Identity!NotFound
  <2>2. /\ process'.txt.id = kept'.id /\ process'.txt.cn = Identity!Reported(kept'.cn)
    BY <2>1
  <2>3. process'.txt.paired <=> (kept'.pairings # {})
    BY <2>1, Zenon
  <2> QED BY <1>1, <2>1, <2>2, <2>3 DEF Announced, Identity!NotFound
<1>6. Versions' /\ Counting'
  BY <1>1 DEF ConfigurationInv, Versions, Counting, Counted, Starting, Updated, Loaded, Identity!Version
<1> QED BY <1>2, <1>3, <1>4, <1>5, <1>6 DEF ConfigurationInv

LEMMA AddPairingKeeps ==
  ASSUME ConfigurationInv, NEW admin \in BOOLEAN, Identity!AddPairing(admin)
  PROVE  ConfigurationInv'
<1>1. PICK p : p = [id |-> kept.id, ltsk |-> process.ltsk, admin |-> admin]
  OBVIOUS
<1>2. /\ process.at = "running" /\ UNCHANGED past
      /\ Identity!Cardinality(kept.pairings) < MaxPairings
      /\ kept.pairings = {} => admin
      /\ kept' = [kept EXCEPT !.pairings = @ \cup {p}]
      /\ Identity!Handled(kept.pairings # {})
  BY <1>1 DEF Identity!AddPairing
<1>3. /\ DOMAIN kept' = DOMAIN kept /\ kept'.version = kept.version /\ kept'.cn = kept.cn
      /\ kept'.id = kept.id /\ kept'.ltsk = kept.ltsk
      /\ kept'.pairings = kept.pairings \cup {p}
  BY <1>2 DEF ConfigurationInv, IdentityTypes
<1>4. p.id = kept.id /\ p.ltsk = kept.ltsk /\ p.admin = admin
  <2>1. process.ltsk = kept.ltsk
    BY <1>2 DEF ConfigurationInv, Keyed, Loaded
  <2> QED BY <1>1, <2>1
<1>5. IsFiniteSet(kept'.pairings) /\ Cardinality(kept'.pairings) <= MaxPairings
  <2>1. PICK S : S = kept.pairings /\ IsFiniteSet(S)
    BY DEF ConfigurationInv, IdentityTypes
  <2>2. Identity!Cardinality(S) = Cardinality(S)
    BY DEF Identity!Cardinality, Cardinality
  <2>3. Cardinality(S) \in Nat /\ Cardinality(S) < MaxPairings
    BY <1>2, <2>1, <2>2, FS_CardinalityType
  <2>4. /\ IsFiniteSet(S \cup {p})
        /\ Cardinality(S \cup {p}) = IF p \in S THEN Cardinality(S) ELSE Cardinality(S) + 1
    BY <2>1, FS_AddElement
  <2> QED BY <1>3, <2>1, <2>3, <2>4, Widths
<1>6. PICK was \in BOOLEAN : was = (kept.pairings # {})
  OBVIOUS
<1>7. /\ DOMAIN process' = DOMAIN process
      /\ process'.at = "running" /\ process'.firmware = process.firmware /\ process'.ltsk = process.ltsk
      /\ \/ /\ process'.txt.cn = Identity!Reported(kept'.cn) /\ process'.txt.id = kept'.id
            /\ process'.txt.paired <=> (kept'.pairings # {})
         \/ process'.txt = process.txt /\ (was <=> (kept'.pairings # {}))
  <2>1. Identity!Handled(was)
    BY <1>2, <1>6
  <2> QED BY <2>1, AnnouncedAnew DEF ConfigurationInv
<1>8. Identity!AdminFound'
  <2>1. kept.pairings = {} \/ Identity!AdminFound
    BY <1>2 DEF ConfigurationInv, Keyed
  <2> QED BY <1>2, <1>3, <1>4, <2>1, AdminKeptBeside
<1>9. \/ /\ process'.txt.cn = Identity!Reported(kept'.cn) /\ process'.txt.id = kept'.id
         /\ process'.txt.paired <=> (kept'.pairings # {})
      \/ process'.txt = process.txt /\ (kept.pairings # {} <=> kept'.pairings # {})
  BY <1>6, <1>7, Zenon
<1> QED BY <1>2, <1>3, <1>4, <1>5, <1>7, <1>8, <1>9, RunningKeeps

LEMMA RemovePairingKeeps ==
  ASSUME ConfigurationInv, Identity!RemovePairing
  PROVE  ConfigurationInv'
<1>1. /\ process.at \in {"running", "removing"} /\ Identity!PurgePairing /\ UNCHANGED past
      /\ process.at = "removing" => ~Identity!AdminFound
      /\ IF kept'.pairings # {} /\ ~\E p \in kept'.pairings : p.admin THEN Identity!At("removing")
         ELSE Identity!Handled(TRUE)
  BY DEF Identity!RemovePairing
<1>2. /\ DOMAIN kept' = DOMAIN kept /\ kept'.version = kept.version /\ kept'.cn = kept.cn
      /\ kept'.id = kept.id /\ kept'.ltsk = kept.ltsk
      /\ kept'.pairings \subseteq kept.pairings /\ kept.pairings # {}
      /\ IsFiniteSet(kept'.pairings) /\ Cardinality(kept'.pairings) <= MaxPairings
  BY <1>1, Purges DEF ConfigurationInv
<1>3. CASE kept'.pairings # {} /\ Identity!At("removing")
  <2>1. /\ DOMAIN process' = DOMAIN process
        /\ process'.at = "removing" /\ process'.firmware = process.firmware /\ process'.ltsk = process.ltsk
        /\ process'.txt = process.txt
    BY <1>3, Moves DEF ConfigurationInv
  <2> QED BY <1>1, <1>2, <1>3, <2>1, RunningKeeps
<1>4. CASE (kept'.pairings = {} \/ \E p \in kept'.pairings : p.admin) /\ Identity!Handled(TRUE)
  <2>1. kept'.pairings = {} \/ Identity!AdminFound'
    BY <1>4 DEF Identity!AdminFound
  <2>2. /\ DOMAIN process' = DOMAIN process
        /\ process'.at = "running" /\ process'.firmware = process.firmware /\ process'.ltsk = process.ltsk
        /\ \/ /\ process'.txt.cn = Identity!Reported(kept'.cn) /\ process'.txt.id = kept'.id
              /\ process'.txt.paired <=> (kept'.pairings # {})
           \/ process'.txt = process.txt /\ (TRUE <=> (kept'.pairings # {}))
    BY <1>4, AnnouncedAnew DEF ConfigurationInv
  <2>3. \/ /\ process'.txt.cn = Identity!Reported(kept'.cn) /\ process'.txt.id = kept'.id
           /\ process'.txt.paired <=> (kept'.pairings # {})
        \/ process'.txt = process.txt /\ (kept.pairings # {} <=> kept'.pairings # {})
    BY <1>2, <2>2, Zenon
  <2> QED BY <1>1, <1>2, <2>1, <2>2, <2>3, RunningKeeps
<1> QED BY <1>1, <1>3, <1>4

LEMMA StopKeeps ==
  ASSUME ConfigurationInv, Identity!Stop
  PROVE  ConfigurationInv'
<1>1. /\ process.at = "running" /\ UNCHANGED kept
      /\ process' = [process EXCEPT !.at = "idle", !.ltsk = 0, !.txt = Identity!Unannounced]
      /\ past' = [past EXCEPT !.other = 0]
  BY DEF Identity!Stop
<1>2. /\ DOMAIN process' = DOMAIN process /\ process'.at = "idle" /\ process'.firmware = process.firmware
      /\ DOMAIN past' = DOMAIN past /\ past'.toImport = past.toImport /\ past'.changed = past.changed
      /\ past'.last = past.last /\ past'.newest = past.newest /\ past'.cutReset = past.cutReset
      /\ past'.cuts = past.cuts
  BY <1>1 DEF ConfigurationInv, IdentityTypes
<1>3. IdentityTypes'
  BY <1>1, <1>2 DEF ConfigurationInv, IdentityTypes
<1>4. Imported'
  BY <1>1, <1>2, AllImported DEF Imported
<1>5. Keyed' /\ Announced'
  BY <1>1, <1>2 DEF ConfigurationInv, Keyed, Announced, Loaded
<1>6. Versions' /\ Counting'
  BY <1>1, <1>2 DEF ConfigurationInv, Versions, Counting, Counted, Starting, Updated, Loaded
<1> QED BY <1>3, <1>4, <1>5, <1>6 DEF ConfigurationInv

-----------------------------------------------------------------------------
(* The application, and the process                                          *)

LEMMA ReconfigureKeeps ==
  ASSUME ConfigurationInv, Identity!Reconfigure
  PROVE  ConfigurationInv'
<1>1. /\ process.at = "idle" /\ UNCHANGED <<kept, process>>
      /\ past' = [past EXCEPT !.changed = TRUE]
  BY DEF Identity!Reconfigure
<1>2. /\ DOMAIN past' = DOMAIN past /\ past'.toImport = past.toImport
      /\ past'.last = past.last /\ past'.newest = past.newest /\ past'.cutReset = past.cutReset
      /\ past'.cuts = past.cuts
  BY <1>1 DEF ConfigurationInv, IdentityTypes
<1>3. IdentityTypes'
  BY <1>1, <1>2 DEF ConfigurationInv, IdentityTypes
<1>4. Imported'
  BY <1>1, <1>2, AllImported DEF Imported
<1>5. Keyed' /\ Announced'
  BY <1>1, <1>2 DEF ConfigurationInv, Keyed, Announced, Loaded, Identity!AdminFound
<1>6. Versions' /\ Counting'
  BY <1>1, <1>2 DEF ConfigurationInv, Versions, Counting, Counted, Starting, Updated, Loaded, Identity!Version
<1> QED BY <1>3, <1>4, <1>5, <1>6 DEF ConfigurationInv

LEMMA RestoreFactorySettingsKeeps ==
  ASSUME ConfigurationInv, Identity!RestoreFactorySettings
  PROVE  ConfigurationInv'
<1>1. /\ process.at = "idle" /\ UNCHANGED kept
      /\ process' = [process EXCEPT !.at = "purging", !.purging = <<"Configuration", "Pairings">>]
      /\ past' = [past EXCEPT !.cutReset = TRUE, !.last = 0, !.newest = 0, !.changed = FALSE]
  BY DEF Identity!RestoreFactorySettings
<1>2. /\ DOMAIN past' = DOMAIN past /\ past'.toImport = past.toImport /\ past'.cuts = past.cuts
      /\ past'.last = 0 /\ past'.newest = 0 /\ past'.cutReset = TRUE /\ past'.changed = FALSE
  BY <1>1 DEF ConfigurationInv, IdentityTypes
<1>3. /\ DOMAIN process' = DOMAIN process /\ process'.at = "purging" /\ process'.firmware = process.firmware
      /\ process'.purging = <<"Configuration", "Pairings">>
  BY <1>1 DEF ConfigurationInv, IdentityTypes
<1>4. IdentityTypes'
  BY <1>1, <1>2, <1>3, Widths DEF ConfigurationInv, IdentityTypes
<1>5. Imported'
  BY <1>1, <1>2, AllImported DEF Imported
<1>6. Keyed' /\ Announced'
  BY <1>1, <1>2, <1>3 DEF ConfigurationInv, Keyed, Announced, Loaded
<1>7. Versions' /\ Counting'
  BY <1>1, <1>2, <1>3 DEF ConfigurationInv, Versions, Counting, Starting, Updated, Loaded
<1> QED BY <1>4, <1>5, <1>6, <1>7 DEF ConfigurationInv

LEMMA RemoveAllPairingsKeeps ==
  ASSUME ConfigurationInv, Identity!RemoveAllPairings
  PROVE  ConfigurationInv'
<1>1. /\ process.at = "idle" /\ UNCHANGED <<kept, past>>
      /\ process' = [process EXCEPT !.at = "purging", !.purging = <<"Pairings">>]
  BY DEF Identity!RemoveAllPairings
<1>2. /\ DOMAIN process' = DOMAIN process /\ process'.at = "purging" /\ process'.firmware = process.firmware
      /\ process'.purging = <<"Pairings">>
  BY <1>1 DEF ConfigurationInv, IdentityTypes
<1>3. IdentityTypes'
  BY <1>1, <1>2 DEF ConfigurationInv, IdentityTypes
<1>4. Imported'
  BY <1>1, <1>2, AllImported DEF Imported
<1>5. Keyed' /\ Announced'
  BY <1>1, <1>2 DEF ConfigurationInv, Keyed, Announced, Loaded
<1>6. Versions' /\ Counting'
  BY <1>1, <1>2 DEF ConfigurationInv, Versions, Counting, Counted, Starting, Updated, Loaded
<1> QED BY <1>3, <1>4, <1>5, <1>6 DEF ConfigurationInv

\* What was configured is forgotten, and what was announced with it.
LEMMA ForgetsConfiguration ==
  ASSUME ConfigurationInv, process.at = "purging", Head(process.purging) = "Configuration",
         UNCHANGED <<process, past>>,
         \/ \E key \in Identity!ConfigurationKeys : kept' = [kept EXCEPT ![key] = Identity!NotFound]
         \/ kept' = [kept EXCEPT !.version = Identity!NoVersion]
  PROVE  ConfigurationInv'
<1>1. /\ DOMAIN kept' = DOMAIN kept /\ kept'.pairings = kept.pairings
      /\ kept'.cn \in {0, kept.cn} /\ kept'.id \in {0, kept.id} /\ kept'.ltsk \in {0, kept.ltsk}
  BY DEF ConfigurationInv, IdentityTypes, Identity!ConfigurationKeys, Identity!NotFound
<1>2. past.newest = 0 /\ past.last = 0 /\ past.cutReset
  BY DEF ConfigurationInv, Versions
<1>3. IdentityTypes'
  BY <1>1, Widths DEF ConfigurationInv, IdentityTypes
<1>4. Imported'
  BY AllImported DEF Imported
<1>5. Keyed' /\ Announced'
  BY <1>1, <1>2 DEF ConfigurationInv, Keyed, Announced, Loaded, Identity!NotFound
<1>6. Versions' /\ Counting'
  BY <1>1, <1>2 DEF ConfigurationInv, Versions, Counting, Starting, Updated, Loaded
<1> QED BY <1>3, <1>4, <1>5, <1>6 DEF ConfigurationInv

LEMMA PurgeDomainKeeps ==
  ASSUME ConfigurationInv, Identity!PurgeDomain
  PROVE  ConfigurationInv'
<1>1. process.at = "purging" /\ process.purging \in {<<"Configuration", "Pairings">>, <<"Pairings">>}
  BY DEF Identity!PurgeDomain, ConfigurationInv, IdentityTypes
<1>2. CASE Identity!PurgePairing /\ UNCHANGED <<process, past>>
  BY <1>1, <1>2, PurgeKeeps
<1>3. CASE /\ Head(process.purging) = "Configuration" /\ UNCHANGED <<process, past>>
           /\ \/ \E key \in Identity!ConfigurationKeys : kept' = [kept EXCEPT ![key] = Identity!NotFound]
              \/ kept' = [kept EXCEPT !.version = Identity!NoVersion]
  BY <1>1, <1>3, ForgetsConfiguration
<1>4. CASE /\ Identity!DomainEmpty /\ UNCHANGED kept
           /\ process' = [process EXCEPT !.purging = Tail(@),
                                         !.at = IF Len(process.purging) = 1 THEN "idle" ELSE @]
           /\ past' = IF Head(process.purging) = "Configuration" THEN [past EXCEPT !.cutReset = FALSE] ELSE past
  <2>1. CASE process.purging = <<"Configuration", "Pairings">>
    <3>1. /\ Head(process.purging) = "Configuration" /\ Len(process.purging) = 2
          /\ Tail(process.purging) = <<"Pairings">>
      BY <2>1
    <3>2. /\ DOMAIN process' = DOMAIN process /\ process'.at = "purging" /\ process'.firmware = process.firmware
          /\ process'.purging = <<"Pairings">>
      BY <1>1, <1>4, <3>1 DEF ConfigurationInv, IdentityTypes
    <3>3. /\ DOMAIN past' = DOMAIN past /\ past'.toImport = past.toImport /\ past'.cuts = past.cuts
          /\ past'.last = past.last /\ past'.newest = past.newest /\ past'.cutReset = FALSE
      BY <1>4, <3>1 DEF ConfigurationInv, IdentityTypes
    <3>4. /\ kept.version = Identity!NoVersion /\ kept.ltsk = 0
          /\ past.newest = 0 /\ past.last = 0
      BY <1>1, <1>4, <3>1
      DEF Identity!DomainEmpty, Identity!ConfigurationKeys, Identity!NotFound, ConfigurationInv, Versions
    <3>5. IdentityTypes'
      BY <1>4, <3>2, <3>3 DEF ConfigurationInv, IdentityTypes
    <3>6. Imported'
      BY <1>1, <3>2, <3>3, AllImported DEF Imported
    <3>7. Keyed' /\ Announced'
      BY <1>1, <1>4, <3>2, <3>3, <3>4 DEF ConfigurationInv, Keyed, Announced, Loaded, Identity!NotFound
    <3>8. Head(process'.purging) = "Pairings"
      BY <3>2
    <3>9. Versions' /\ Counting'
      BY <1>4, <3>2, <3>3, <3>4, <3>8 DEF ConfigurationInv, Versions, Counting, Starting, Updated, Loaded
    <3> QED BY <3>5, <3>6, <3>7, <3>9 DEF ConfigurationInv
  <2>2. CASE process.purging = <<"Pairings">>
    <3>1. Head(process.purging) = "Pairings" /\ Len(process.purging) = 1
      BY <2>2
    <3>2. UNCHANGED past
      BY <1>4, <3>1
    <3>3. DOMAIN process' = DOMAIN process /\ process'.at = "idle" /\ process'.firmware = process.firmware
      BY <1>4, <3>1 DEF ConfigurationInv, IdentityTypes
    <3>4. IdentityTypes'
      BY <1>1, <1>4, <3>2, <3>3 DEF ConfigurationInv, IdentityTypes
    <3>5. Imported'
      BY <1>1, <3>2, <3>3, AllImported DEF Imported
    <3>6. Keyed' /\ Announced'
      BY <1>1, <1>4, <3>2, <3>3 DEF ConfigurationInv, Keyed, Announced, Loaded
    <3>7. Versions' /\ Counting'
      BY <1>1, <1>4, <3>2, <3>3 DEF ConfigurationInv, Versions, Counting, Counted, Starting, Updated, Loaded
    <3> QED BY <3>4, <3>5, <3>6, <3>7 DEF ConfigurationInv
  <2> QED BY <1>1, <2>1, <2>2
<1> QED BY <1>2, <1>3, <1>4 DEF Identity!PurgeDomain

LEMMA ImportKeeps ==
  ASSUME ConfigurationInv, Identity!Import
  PROVE  ConfigurationInv'
<1> DEFINE key == Head(past.toImport)
           pairing == [id |-> 1, ltsk |-> 1, admin |-> TRUE]
<1>1. /\ process.at = "off" /\ past.toImport # <<>> /\ UNCHANGED process
      /\ kept' = IF key = "pairing" THEN [kept EXCEPT !.pairings = {pairing}]
                 ELSE [kept EXCEPT ![key] = IF key = "cn" THEN ImportedCN ELSE 1]
      /\ past' = [past EXCEPT !.toImport = Tail(@)]
  BY DEF Identity!Import
<1>2. /\ DOMAIN past' = DOMAIN past /\ past'.toImport = Tail(past.toImport)
      /\ past'.changed = past.changed /\ past'.cuts = past.cuts
      /\ past'.last = past.last /\ past'.newest = past.newest /\ past'.cutReset = past.cutReset
  BY <1>1 DEF ConfigurationInv, IdentityTypes
<1>3. /\ past.toImport \in {<<"id", "cn", "ltsk", "pairing">>, <<"cn", "ltsk", "pairing">>,
                            <<"ltsk", "pairing">>, <<"pairing">>}
      /\ kept.pairings = {} /\ past.last = 0 /\ past.newest = 0
      /\ key # "id" => kept.id = 1
      /\ key = "pairing" => kept.ltsk = 1
  BY <1>1 DEF ConfigurationInv, Imported
<1>4. /\ key \in {"id", "cn", "ltsk", "pairing"}
      /\ key = "id" => Tail(past.toImport) = <<"cn", "ltsk", "pairing">>
      /\ key = "cn" => Tail(past.toImport) = <<"ltsk", "pairing">>
      /\ key = "ltsk" => Tail(past.toImport) = <<"pairing">>
      /\ key = "pairing" => Tail(past.toImport) = <<>>
  <2>1. CASE past.toImport = <<"id", "cn", "ltsk", "pairing">>
    BY <2>1
  <2>2. CASE past.toImport = <<"cn", "ltsk", "pairing">>
    BY <2>2
  <2>3. CASE past.toImport = <<"ltsk", "pairing">>
    BY <2>3
  <2>4. CASE past.toImport = <<"pairing">>
    BY <2>4
  <2> QED BY <1>3, <2>1, <2>2, <2>3, <2>4
<1>5. /\ DOMAIN kept' = DOMAIN kept /\ kept'.version = kept.version
      /\ kept'.cn = IF key = "cn" THEN ImportedCN ELSE kept.cn
      /\ kept'.id = IF key = "id" THEN 1 ELSE kept.id
      /\ kept'.ltsk = IF key = "ltsk" THEN 1 ELSE kept.ltsk
      /\ kept'.pairings = IF key = "pairing" THEN {pairing} ELSE kept.pairings
  <2>1. DOMAIN kept = {"version", "cn", "id", "ltsk", "pairings"}
    BY DEF ConfigurationInv, IdentityTypes
  <2>2. PICK k \in {"id", "cn", "ltsk", "pairing"} : k = key
    BY <1>4
  <2>3. kept' = IF k = "pairing" THEN [kept EXCEPT !.pairings = {pairing}]
                ELSE [kept EXCEPT ![k] = IF k = "cn" THEN ImportedCN ELSE 1]
    BY <1>1, <2>2
  <2> HIDE DEF key, pairing
  <2>4. CASE k = "id"
    BY <2>1, <2>2, <2>3, <2>4
  <2>5. CASE k = "cn"
    BY <2>1, <2>2, <2>3, <2>5
  <2>6. CASE k = "ltsk"
    BY <2>1, <2>2, <2>3, <2>6
  <2>7. CASE k = "pairing"
    BY <2>1, <2>2, <2>3, <2>7
  <2> QED BY <2>4, <2>5, <2>6, <2>7
<1>6. pairing.id = 1 /\ pairing.ltsk = 1
  OBVIOUS
<1>7. IsFiniteSet(kept'.pairings) /\ Cardinality(kept'.pairings) <= MaxPairings
  <2>1. PICK p : p = pairing
    OBVIOUS
  <2>2. IsFiniteSet({p}) /\ Cardinality({p}) = 1
    BY FS_Singleton
  <2> QED BY <1>5, <2>1, <2>2, Widths DEF ConfigurationInv, IdentityTypes
<1> HIDE DEF pairing
<1>8. IdentityTypes'
  BY <1>1, <1>2, <1>5, <1>7, Widths DEF ConfigurationInv, IdentityTypes
<1>9. Imported'
  <2>1. CASE key = "pairing"
    BY <1>2, <1>4, <2>1 DEF Imported
  <2>2. CASE key # "pairing"
    <3>1. /\ kept'.pairings = {} /\ kept'.id = 1
          /\ key = "ltsk" => kept'.ltsk = 1
      BY <1>3, <1>5, <2>2
    <3>2. /\ key = "id" => past'.toImport = <<"cn", "ltsk", "pairing">>
          /\ key = "cn" => past'.toImport = <<"ltsk", "pairing">>
          /\ key = "ltsk" => past'.toImport = <<"pairing">>
      BY <1>2, <1>4
    <3> HIDE DEF key
    <3>3. past'.last = 0 /\ past'.newest = 0 /\ process'.at = "off"
      BY <1>1, <1>2, <1>3
    <3>4. CASE key = "id"
      <4>1. past'.toImport = <<"cn", "ltsk", "pairing">> /\ Head(past'.toImport) = "cn"
        BY <3>2, <3>4
      <4> QED BY <3>1, <3>3, <4>1 DEF Imported
    <3>5. CASE key = "cn"
      <4>1. past'.toImport = <<"ltsk", "pairing">> /\ Head(past'.toImport) = "ltsk"
        BY <3>2, <3>5
      <4> QED BY <3>1, <3>3, <4>1 DEF Imported
    <3>6. CASE key = "ltsk"
      <4>1. past'.toImport = <<"pairing">> /\ Head(past'.toImport) = "pairing"
        BY <3>2, <3>6
      <4> QED BY <3>1, <3>3, <3>6, <4>1 DEF Imported
    <3> QED BY <1>4, <2>2, <3>4, <3>5, <3>6
  <2> QED BY <2>1, <2>2
<1>10. Keyed'
  <2> HIDE DEF key
  <2>1. \A p \in kept'.pairings : p.id # 0 /\ p.ltsk = kept'.ltsk /\ p.id = kept'.id
    BY <1>3, <1>5, <1>6
  <2> QED BY <1>1, <2>1 DEF Keyed, Loaded, Identity!NotFound
<1>11. Announced' /\ Versions' /\ Counting'
  BY <1>1, <1>2, <1>3 DEF ConfigurationInv, Announced, Versions, Counting, Starting, Updated, Loaded
<1> QED BY <1>8, <1>9, <1>10, <1>11 DEF ConfigurationInv

LEMMA CreateKeeps ==
  ASSUME ConfigurationInv, Identity!Create
  PROVE  ConfigurationInv'
<1>1. PICK firmware \in DOMAIN Firmwares :
        /\ process.at = "off" /\ past.toImport = <<>> /\ UNCHANGED <<kept, past>>
        /\ process' = [process EXCEPT !.at = "idle", !.firmware = firmware]
  BY DEF Identity!Create
<1>2. DOMAIN process' = DOMAIN process /\ process'.at = "idle" /\ process'.firmware = firmware
  BY <1>1 DEF ConfigurationInv, IdentityTypes
<1>3. IdentityTypes' /\ Imported'
  BY <1>1, <1>2 DEF ConfigurationInv, IdentityTypes, Imported
<1>4. Keyed' /\ Announced'
  BY <1>1, <1>2 DEF ConfigurationInv, Keyed, Announced, Loaded
<1>5. Versions' /\ Counting'
  BY <1>1, <1>2 DEF ConfigurationInv, Versions, Counting, Counted, Starting, Updated, Loaded
<1> QED BY <1>3, <1>4, <1>5 DEF ConfigurationInv

LEMMA CrashKeeps ==
  ASSUME ConfigurationInv, Identity!Crash
  PROVE  ConfigurationInv'
<1>1. /\ process.at # "off" /\ process' = Identity!Off /\ UNCHANGED kept
      /\ IF process.at \in {"idle", "running", "removing", "purging"} THEN past' = [past EXCEPT !.other = 0]
         ELSE past.cuts < MaxCuts /\ past' = [past EXCEPT !.cuts = @ + 1]
  BY DEF Identity!Crash
<1>2. /\ DOMAIN process' = {"at", "firmware", "ltsk", "purging", "txt"} /\ process'.at = "off"
  BY <1>1 DEF Identity!Off
<1>3. /\ DOMAIN past' = DOMAIN past /\ past'.toImport = past.toImport /\ past'.changed = past.changed
      /\ past'.last = past.last /\ past'.newest = past.newest /\ past'.cutReset = past.cutReset
      /\ past'.cuts = past.cuts + (IF process.at \in {"idle", "running", "removing", "purging"} THEN 0 ELSE 1)
      /\ past'.cuts \in 0 .. MaxCuts
  BY <1>1, Widths DEF ConfigurationInv, IdentityTypes
<1>4. IdentityTypes'
  BY <1>1, <1>2, <1>3 DEF ConfigurationInv, IdentityTypes
<1>5. Imported'
  BY <1>1, <1>2, <1>3, AllImported DEF Imported
<1>6. Keyed' /\ Announced'
  BY <1>1, <1>2, <1>3 DEF ConfigurationInv, Keyed, Announced, Loaded
<1>7. Versions'
  BY <1>1, <1>2, <1>3 DEF ConfigurationInv, Versions, Starting, Updated, Loaded
\* A start that was cut short is one more of those that may have counted.
<1>8. Counting'
  <2> SUFFICES ASSUME past.last # 0
               PROVE  /\ past.newest # 0 /\ kept.cn # 0
                      /\ \E k \in 0 .. 2 * past'.cuts :
                           /\ Identity!Reported(kept.cn) = Ahead(past.last, k)
                           /\ kept.version # VersionOf(past.newest) => k # 0
    BY <1>1, <1>2, <1>3, Widths DEF ConfigurationInv, IdentityTypes, Counting, Counted, Identity!NotFound
  <2>1. past.newest # 0 /\ kept.cn # 0
    BY DEF ConfigurationInv, Counting, Identity!NotFound
  <2>2. PICK k \in 0 .. 2 * past.cuts + Counted :
          /\ Identity!Reported(kept.cn) = Ahead(past.last, k)
          /\ kept.version # VersionOf(past.newest) => k # 0
    BY DEF ConfigurationInv, Counting
  <2>3. Counted \in 0 .. 2 /\ (process.at \in {"idle", "running", "removing", "purging"} => Counted = 0)
    BY DEF Counted
  <2>4. k \in 0 .. 2 * past'.cuts
    BY <1>3, <2>3 DEF ConfigurationInv, IdentityTypes
  <2> QED BY <2>1, <2>2, <2>4
<1> QED BY <1>4, <1>5, <1>6, <1>7, <1>8 DEF ConfigurationInv

LEMMA ConfigurationNext ==
  ASSUME ConfigurationInv, [Identity!Next]_identity
  PROVE  ConfigurationInv'
<1>1. CASE \E admin \in BOOLEAN : Identity!AddPairing(admin)
  BY <1>1, AddPairingKeeps
<1>2. CASE UNCHANGED identity
  BY <1>2
  DEF identity, ConfigurationInv, IdentityTypes, Imported, Keyed, Announced, Versions, Counting, Counted,
      Identity!AdminFound, Identity!Version
<1>3. CASE Identity!Next /\ ~\E admin \in BOOLEAN : Identity!AddPairing(admin)
  BY <1>3, ImportKeeps, CreateKeeps, StartKeeps, HandleFirmwareUpdateKeeps, SaveVersionKeeps, LoadLTSKKeeps,
     CleanupPairingsKeeps, StartBridgeKeeps, GetCNKeeps, DeviceIDGetKeeps, RemovePairingKeeps, StopKeeps,
     ReconfigureKeeps, RestoreFactorySettingsKeeps, RemoveAllPairingsKeeps, PurgeDomainKeeps, CrashKeeps
  DEF Identity!Next
<1> QED BY <1>1, <1>2, <1>3

LEMMA ConfigurationSafe == ConfigurationInv => Identity!IdentityKept
<1> SUFFICES ASSUME ConfigurationInv, process.at = "running" PROVE Identity!IdentityKept
  BY DEF Identity!IdentityKept
<1>1. /\ kept.ltsk # 0 /\ process.ltsk = kept.ltsk
      /\ \A p \in kept.pairings : p.ltsk = kept.ltsk /\ (p.id = kept.id \/ past.cutReset)
      /\ kept.pairings # {} => Identity!AdminFound
  BY DEF ConfigurationInv, Keyed, Loaded, Identity!NotFound
<1>2. /\ process.txt.id = kept.id /\ process.txt.cn # past.other /\ process.firmware = past.newest
      /\ process.txt.paired <=> (kept.pairings # {})
  BY DEF ConfigurationInv, Announced
<1> QED BY <1>1, <1>2 DEF Identity!IdentityKept

\* However often starts, updates and resets are cut short, an accessory that is announced has
\* pairings that belong to its key and its device ID, one of an admin among them, says whether
\* it is paired, and announces another firmware or another configuration under another number,
\* and no older firmware: for any versions, any width of the number that is a multiple of
\* another, any number of pairings and of starts that were cut short.
THEOREM AccessoryStaysItself == Identity!Init /\ [][Identity!Next]_identity => []IdentityKept
<1>1. ConfigurationInv => IdentityKept
  BY ConfigurationSafe DEF IdentityKept
<1> QED
  BY <1>1, ConfigurationInit, ConfigurationNext, PTL

=============================================================================
