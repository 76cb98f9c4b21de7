------------------------------- MODULE Pairings -------------------------------
(* The pairings of the accessory: who is added to and removed from them over which      *)
(* session (HAP/HAPPairingPairings.c, HAPAccessoryServerCleanupPairings), while other    *)
(* sessions verify, resume and are cached.  A key of a removed pairing is given to the   *)
(* next pairing that is added.                                                           *)
EXTENDS PairVerify

\* A pairing that is removed may still be referred to by an active session, and by an exchange
\* whose last message has not been answered.
Stale(s, removed) ==
  [session[s] EXCEPT
     !.hap.stale = @ \/ session[s].hap.pairingID \in removed,
     !.pairVerify.stale = @ \/ session[s].pairVerify.pairingID \in removed]

\* Mutant: the last admin leaves the others behind.
CleanupPairings_Keep(p, c) == [pairings |-> p, cache |-> c]

\* HAPAccessoryServerCleanupPairings, for pairings p and the cache c
CleanupPairings(p, c) ==
  IF \E k \in Keys : p[k].admin THEN [pairings |-> p, cache |-> c]
  ELSE [pairings |-> [k \in Keys |-> NoPairing], cache |-> EmptyCache]

\* The pairings become p and the cache c, cleaned up; s goes on with procedure state prs.
Update(s, p, c, prs) ==
  LET clean == CleanupPairings(p, c)
      removed == {k \in Keys : pairings[k] # NoPairing /\ clean.pairings[k] = NoPairing}
  IN  /\ pairings' = clean.pairings
      /\ cache' = clean.cache
      /\ session' = [t \in Sessions |->
                       IF t = s THEN [Stale(t, removed) EXCEPT !.pairings = prs] ELSE Stale(t, removed)]
      /\ UNCHANGED timestamp

\* Only the procedure state of s changes.
WithPairings(s, prs) ==
  /\ session' = [session EXCEPT ![s].pairings = prs]
  /\ UNCHANGED <<pairings, cache, timestamp>>

\* The process ends and is started. If it ended between a removal and the clean-up, that is
\* done by HAPAccessoryServerPrepareStart; here both are one step.
Restart ==
  /\ session' = [s \in Sessions |-> Closed]
  /\ cache' = EmptyCache /\ timestamp' = 0
  /\ pending' = NoOne
  /\ UNCHANGED pairings

-----------------------------------------------------------------------------
(* Who may use the procedure                                                             *)

Refused == "refused"

\* HAPPairingPairingsHandleWrite, -HandleRead: the session is active, its pairing is there, and
\* that of an admin. For one who is not, the response will tell. A pairing that has gone is an
\* error that HAPSessionHandlePairingsWrite and -Read do not expect: their assertion fails.
Permission(s) ==
  LET hap == session[s].hap
  IN  IF ~hap.active THEN "Authentication"
      ELSE IF pairings[hap.pairingID] = NoPairing THEN Refused
      ELSE IF pairings[hap.pairingID].admin THEN "none" ELSE "Authentication"

\* Mutant: what was permitted to be asked for is permitted.
ReadPermission_Asked(s) == "none"

ReadPermission(s) == Permission(s)

\* The procedure goes on with the response; an error goes into the response.
Awaiting(method, removed) == [PairingsReset EXCEPT !.state = 1, !.method = method, !.removed = removed]
AwaitingError == [PairingsReset EXCEPT !.state = 1, !.error = TRUE]

\* A request that is refused
WriteFails(s) ==
  \/ Permission(s) = Refused /\ Restart
  \/ /\ Permission(s) = "Authentication"
     /\ WithPairings(s, AwaitingError)
     /\ pending' = Due(s)

-----------------------------------------------------------------------------
(* HAPPairingPairingsHandleWrite: out of turn, or malformed, it starts all over.         *)

Begins(s) == MayWrite(s) /\ session[s].pairings.state = 0

WritePairingsBad(s) ==
  /\ MayWrite(s)
  /\ WithPairings(s, PairingsReset) /\ UNCHANGED pending

\* The first key that is free, if any
FreeKeys == {k \in Keys : pairings[k] = NoPairing}

\* HAPPairingPairingsAddPairingProcessM1 for a controller that is new, or known with the
\* permissions to be changed. sameKey: the public key is the one that is known. The key-value
\* store may fail.
AddPairing(s, c, admin, sameKey) ==
  /\ Begins(s)
  /\ \/ WriteFails(s)
     \/ /\ Permission(s) = "none"
        /\ pending' = Due(s)
        /\ \/ /\ FindPairing(c) # {} /\ sameKey
              /\ \E k \in FindPairing(c) :
                   Update(s, [pairings EXCEPT ![k].admin = admin], cache, Awaiting("AddPairing", NoOne))
           \/ /\ FindPairing(c) = {} /\ FreeKeys # {}
              /\ LET k == CHOOSE k \in FreeKeys : \A j \in FreeKeys : k <= j
                 IN  \/ /\ pairings' = [pairings EXCEPT ![k] = [controller |-> c, admin |-> admin]]
                        /\ session' = [session EXCEPT ![s].pairings = Awaiting("AddPairing", NoOne)]
                        /\ UNCHANGED <<cache, timestamp>>
                     \/ WithPairings(s, AwaitingError)
           \/ FindPairing(c) = {} /\ FreeKeys = {} /\ WithPairings(s, AwaitingError)
           \/ FindPairing(c) # {} /\ ~sameKey /\ WithPairings(s, AwaitingError)

\* The request of s is permitted, and carried out when the response is read.
Asks(s, method, removed) ==
  /\ Begins(s)
  /\ \/ WriteFails(s)
     \/ /\ Permission(s) = "none"
        /\ WithPairings(s, Awaiting(method, removed))
        /\ pending' = Due(s)

\* HAPPairingPairingsRemovePairingProcessM1 for the pairing of c
AskToRemove(s, c) == Asks(s, "RemovePairing", c)

\* HAPPairingPairingsListPairingsProcessM1
AskForList(s) == Asks(s, "ListPairings", NoOne)

-----------------------------------------------------------------------------
(* HAPPairingPairingsHandleRead                                                          *)

\* Mutant: the sessions of the pairing can still be resumed.
CacheAfterRemoval_Kept(k) == cache

CacheAfterRemoval(k) == InvalidateEntriesForPairing(cache, k)

\* HAPPairingPairingsRemovePairingGetM2, which may find that the pairing has gone already. If
\* the response does not fit, the pairing has gone nevertheless.
RemovePairing(s) ==
  LET found == FindPairing(session[s].pairings.removed)
  IN  IF found = {} THEN WithPairings(s, PairingsReset)
      ELSE \/ \E k \in found :
                Update(s, [pairings EXCEPT ![k] = NoPairing], CacheAfterRemoval(k), PairingsReset)
           \/ WithPairings(s, PairingsReset)

\* HAPPairingPairingsAddPairingGetM2: what was to be done is done.
AddPairingGetM2(s) == WithPairings(s, PairingsReset)

\* HAPPairingPairingsListPairingsGetM2: the pairings there are now, or an error if they do not all
\* fit; nothing is changed.
ListPairingsGetM2(s) == WithPairings(s, PairingsReset)

\* HAPPairingPairingsGetErrorResponse, or no response at all
PairingsErrorResponse(s) == WithPairings(s, PairingsReset)

\* In every case the procedure is over. The request of s itself may have been the end of its
\* pairing: without an admin none is left.
ReadPairings(s) ==
  /\ MayRead(s)
  /\ pending' = NoOne
  /\ LET prs == session[s].pairings
         permission == IF prs.error THEN "Authentication" ELSE ReadPermission(s)
     IN  \/ permission = "none" /\ prs.method = "AddPairing" /\ AddPairingGetM2(s)
         \/ permission = "none" /\ prs.method = "RemovePairing" /\ RemovePairing(s)
         \/ permission = "none" /\ prs.method = "ListPairings" /\ ListPairingsGetM2(s)
         \/ permission = "Authentication" /\ PairingsErrorResponse(s)
         \/ permission = Refused /\ Restart

-----------------------------------------------------------------------------

\* Pair Setup (module PairSetup): the first pairing is that of an admin, at key 0.
PairSetup(c) ==
  /\ pending = NoOne /\ Paired = {}
  /\ pairings' = [pairings EXCEPT ![0] = [controller |-> c, admin |-> TRUE]]
  /\ UNCHANGED <<session, cache, timestamp, pending>>

Init ==
  /\ pairings = [k \in Keys |-> NoPairing]
  /\ session = [s \in Sessions |-> Closed]
  /\ cache = EmptyCache /\ timestamp = 0
  /\ pending = NoOne

VerifyStep(s) ==
  \/ \E c \in Controllers : Connect(s, c) \/ WriteM3(s, c)
  \/ Disconnect(s)
  \/ WriteM1(s)
  \/ \E e \in Used(cache) : WriteM1Resume(s, e)
  \/ WriteBad(s)
  \/ session[s].pairVerify.state # 0 /\ ReadPairVerify(s)

PairingsStep(s) ==
  \/ WritePairingsBad(s)
  \/ \E c \in Controllers, admin, sameKey \in BOOLEAN : AddPairing(s, c, admin, sameKey)
  \/ \E c \in Controllers : AskToRemove(s, c)
  \/ AskForList(s)
  \/ session[s].pairings.state # 0 /\ ReadPairings(s)

Next ==
  \/ \E s \in Sessions : VerifyStep(s) \/ PairingsStep(s)
  \/ \E c \in Controllers : PairSetup(c)
  \/ Restart

Spec == Init /\ [][Next]_vars

-----------------------------------------------------------------------------
(* Properties *)

\* An active session is that of the controller it was proven to be, whatever exchanges were
\* begun, broken off, repeated or overtaken by changes to the pairings in between, except that
\* its pairing may have been removed (HAPSessionIsSecured looks whether it is there). So is a
\* session that can be resumed, and its pairing is there: RemovePairing invalidates it.
VerifiedIsPaired ==
  /\ \A s \in Sessions : LET hap == session[s].hap IN
       hap.active /\ ~hap.stale => pairings[hap.pairingID].controller = session[s].client
  /\ \A e \in Used(cache) :
       LET secret == cache[e].secret IN
       ~secret.stale => pairings[cache[e].pairingID].controller = secret.controller

\* Without an admin there is no pairing: nobody is left who cannot be removed any more. And a
\* controller has one pairing (HAPAccessoryServerCleanupPairings, HAPPairingFind).
AdminOrNone ==
  /\ Paired # {} => \E k \in Keys : pairings[k].admin
  /\ \A j, k \in Paired : pairings[j].controller = pairings[k].controller => j = k

\* Sessions and pairings fit together, whatever a change of one has interrupted in the other
\* (HAPSessionIsSecured, HAPAccessoryServerCleanupPairings).
PairingsSound == VerifiedIsPaired /\ AdminOrNone

\* The pairings are changed by Pair Setup, and by the session of one who is an admin at that
\* moment, although a removal is asked for and carried out at two different ones.
ChangedByAdmin ==
  [][pairings' # pairings =>
       \/ Paired = {}
       \/ \E s \in Sessions :
            /\ session'[s].pairings # session[s].pairings
            /\ session[s].hap.active
            /\ pairings[session[s].hap.pairingID].admin]_vars

=============================================================================
