-------------------------- MODULE PairSetupProofs --------------------------
(***************************************************************************)
(* Proofs about PairSetup for any sessions, codes and limit of tries. The  *)
(* invariant is about the three records that every handler passes on: the  *)
(* setup code, the shared procedure and the parts of the sessions          *)
(* (WorldInv). So it can be followed through the operators that a handler  *)
(* is made of.                                                             *)
(***************************************************************************)
EXTENDS PairSetup, TLAPS

SessionStates == [state : 0..5, method : {"PairSetup", "PairSetupWithAuth"}, error : BOOLEAN]
Procedures ==
  [session : Sessions \cup {NoSession}, flags : SUBSET {"Transient", "Split"},
   expired : BOOLEAN, code : AllCodes \cup {NoCode}, proof : AllCodes \cup {NoCode}]

\* Locks and timers of a setup code agree.
Base(S) ==
  /\ S \in Setups
  /\ S.fault \in KnownFailures \cup {"none"}
  /\ S.lock => S.code # NoCode /\ ~S.refresh
  /\ S.refresh => S.code # NoCode /\ platform.display /\ ~paired
  /\ S.keep => S.lock
  /\ platform.display /\ S.code # NoCode => S.lock \/ S.refresh

\* Display and tag show it.
Shown(S) ==
  /\ platform.display => S.display = S.code
  /\ S.tag \in {NoCode, S.code}
  /\ S.tag # NoCode => S.nfc

SetupInv(S) == Base(S) /\ Shown(S)

\* Failures stay, an idle server does not resume refreshing its code unnoticed, and an accessory
\* with a display that can be paired has a code if it had one.
Frame(S, T) ==
  /\ S.fault # "none" => T.fault # "none"
  /\ T.accessory = S.accessory
  /\ ~S.accessory /\ T.fault = "none" /\ T.refresh => S.refresh
  /\ platform.display /\ ~paired /\ S.code # NoCode => T.code # NoCode

\* What the procedure's owner relies on.
WorldInv(w) ==
  /\ w \in [setup : Setups, procedure : Procedures, session : [Sessions -> SessionStates]]
  /\ SetupInv(w.setup)
  /\ w.procedure.session # NoSession => w.setup.lock
  /\ \A s \in Sessions : w.session[s].state >= 2 =>
       /\ w.procedure.session = s
       /\ w.setup.code = w.procedure.code
  /\ \A s \in Sessions : w.session[s].state \in {2, 3} =>
       (w.setup.keep => Restores(w.procedure.flags))
  /\ \A s \in Sessions : w.session[s].state \in {4, 5} => w.procedure.proof = w.procedure.code
  /\ paired => \A s \in Sessions : w.procedure.session = s => w.session[s].state = 5

IInv ==
  /\ SetupTypeOK
  /\ WorldInv(Now)
  /\ OneProcedure
  /\ serverState \in {"Idle", "Drained"} => open = {}
  /\ serverState = "Idle" => ~setup.accessory
  /\ serverState = "Idle" /\ setup.fault = "none" => ~setup.refresh
  /\ setup.fault = "none" /\ serverState \in {"Running", "Stopping"}
       /\ platform.display /\ ~paired /\ ~updating => setup.code # NoCode
  /\ attempts <= MaxTries
  /\ \A s \in Sessions : session[s].state \in {2, 3} => attempts < MaxTries

-----------------------------------------------------------------------------
(* The setup code. *)

LEMMA NoFailure ==
  ASSUME NEW S \in Setups, NEW a
  PROVE  Unless(S, FALSE, a) = S
BY DEF Unless, Setups

LEMMA SynchronizeFields ==
  ASSUME NEW S \in Setups, SetupTypeOK
  PROVE  LET T == Synchronize(S)
         IN /\ T \in Setups
            /\ T.code = S.code /\ T.lock = S.lock /\ T.keep = S.keep /\ T.refresh = S.refresh
            /\ T.nfc = S.nfc /\ T.accessory = S.accessory
            /\ T.display = IF platform.display THEN S.code ELSE NoCode
            /\ T.tag = IF platform.nfc /\ S.nfc THEN S.code ELSE NoCode
            /\ S.fault # "none" => T.fault = S.fault
            /\ T.fault \in {S.fault, "accessory", "payload"}
            /\ platform.display /\ ~S.accessory => T.fault # "none"
<1> DEFINE shows == platform.display \/ platform.nfc
           pairable == S.code # NoCode /\ (platform.display \/ (platform.nfc /\ S.nfc))
           U == Unless(S, shows /\ ~S.accessory, "accessory")
           V == Unless(U, pairable /\ paired, "payload")
           T == Synchronize(S)
<1>1. platform.display \in BOOLEAN /\ platform.nfc \in BOOLEAN /\ paired \in BOOLEAN
  BY SetupInfoAssumption DEF SetupTypeOK
<1>2. /\ U \in Setups
      /\ U.fault = IF (shows /\ ~S.accessory) /\ S.fault = "none" THEN "accessory" ELSE S.fault
      /\ U.code = S.code /\ U.lock = S.lock /\ U.keep = S.keep /\ U.refresh = S.refresh
      /\ U.nfc = S.nfc /\ U.accessory = S.accessory
  BY DEF Unless, Assertions, Setups
<1>3. /\ V \in Setups
      /\ V.fault = IF (pairable /\ paired) /\ U.fault = "none" THEN "payload" ELSE U.fault
      /\ V.code = S.code /\ V.lock = S.lock /\ V.keep = S.keep /\ V.refresh = S.refresh
      /\ V.nfc = S.nfc /\ V.accessory = S.accessory
  <2> HIDE DEF pairable, U
  <2> QED  BY <1>2 DEF Unless, Assertions, Setups
<1>4. T = [V EXCEPT !.display = IF platform.display THEN S.code ELSE NoCode,
                    !.tag = IF platform.nfc /\ S.nfc THEN S.code ELSE NoCode]
  BY DEF Synchronize
<1>5. S.code \in AllCodes \cup {NoCode}
  BY DEF Setups
<1> HIDE DEF V, T
<1>6. /\ T \in Setups
      /\ T.code = V.code /\ T.lock = V.lock /\ T.keep = V.keep /\ T.refresh = V.refresh
      /\ T.nfc = V.nfc /\ T.accessory = V.accessory /\ T.fault = V.fault
      /\ T.display = IF platform.display THEN S.code ELSE NoCode
      /\ T.tag = IF platform.nfc /\ S.nfc THEN S.code ELSE NoCode
  BY <1>3, <1>4, <1>5 DEF Setups
<1>7. S.fault # "none" => T.fault = S.fault
  BY <1>2, <1>3, <1>6
<1>8. T.fault \in {S.fault, "accessory", "payload"}
  BY <1>2, <1>3, <1>6
<1>9. platform.display /\ ~S.accessory => T.fault # "none"
  BY <1>1, <1>2, <1>3, <1>6
<1> QED  BY <1>3, <1>6, <1>7, <1>8, <1>9 DEF T

\* Synchronize repairs what is shown.
LEMMA SynchronizeInv ==
  ASSUME NEW S, Base(S), SetupTypeOK
  PROVE  SetupInv(Synchronize(S)) /\ Frame(S, Synchronize(S))
<1>1. S \in Setups
  BY DEF Base
<1> DEFINE T == Synchronize(S)
<1>2. /\ T \in Setups
      /\ T.code = S.code /\ T.lock = S.lock /\ T.keep = S.keep /\ T.refresh = S.refresh
      /\ T.nfc = S.nfc /\ T.accessory = S.accessory
      /\ T.display = IF platform.display THEN S.code ELSE NoCode
      /\ T.tag = IF platform.nfc /\ S.nfc THEN S.code ELSE NoCode
      /\ S.fault # "none" => T.fault = S.fault
      /\ T.fault \in {S.fault, "accessory", "payload"}
  BY <1>1, SynchronizeFields
<1> HIDE DEF T
<1>3. Base(T)
  BY <1>2 DEF Base, KnownFailures
<1>4. Shown(T)
  BY <1>2 DEF Shown
<1>5. Frame(S, T)
  BY <1>2 DEF Frame
<1> QED  BY <1>3, <1>4, <1>5 DEF SetupInv, T

LEMMA ClearFields ==
  ASSUME NEW S, Base(S)
  PROVE  LET T == ClearSetupInfo(S)
         IN /\ Base(T)
            /\ T.code = NoCode /\ ~T.lock /\ ~T.keep /\ ~T.refresh
            /\ T.fault = S.fault /\ T.accessory = S.accessory /\ T.nfc = S.nfc
<1> DEFINE T == ClearSetupInfo(S)
<1>1. S \in Setups
  BY DEF Base
<1>2. CASE S.code # NoCode
  <2>1. T = [S EXCEPT !.code = NoCode, !.lock = FALSE, !.keep = FALSE, !.refresh = FALSE]
    BY <1>2 DEF ClearSetupInfo
  <2> HIDE DEF T
  <2>2. /\ T \in Setups
        /\ T.code = NoCode /\ T.lock = FALSE /\ T.keep = FALSE /\ T.refresh = FALSE
        /\ T.fault = S.fault /\ T.accessory = S.accessory /\ T.nfc = S.nfc
    BY <1>1, <2>1 DEF Setups
  <2> QED  BY <2>2 DEF Base, T
<1>3. CASE S.code = NoCode
  <2>1. S.refresh = FALSE
    BY <1>1, <1>3 DEF Base, Setups
  <2>2. T = S
    BY <1>1, <1>3, <2>1, NoFailure DEF ClearSetupInfo
  <2> QED  BY <1>3, <2>1, <2>2 DEF Base
<1> QED  BY <1>2, <1>3

LEMMA PrepareInv ==
  ASSUME NEW S, Base(S), S.code # NoCode => Shown(S), ~paired, SetupTypeOK,
         NEW lockSetupInfo \in BOOLEAN, NEW T \in PrepareSetupInfo(S, lockSetupInfo)
  PROVE  /\ SetupInv(T) /\ Frame(S, T)
         /\ T.code # NoCode /\ (lockSetupInfo => T.lock)
         /\ S.code # NoCode => T.code = S.code /\ T.keep = S.keep /\ (S.lock => T.lock)
         /\ S.code = NoCode => ~T.keep
<1>1. S \in Setups /\ paired = FALSE
  BY DEF Base, SetupTypeOK
<1>2. Unless(S, paired, "prepare") = S
  BY <1>1, NoFailure
<1>3. CASE S.code # NoCode
  <2>1. T = IF lockSetupInfo THEN [S EXCEPT !.lock = TRUE, !.refresh = FALSE] ELSE S
    BY <1>2, <1>3 DEF PrepareSetupInfo
  <2>2. CASE lockSetupInfo
    <3>1. /\ T \in Setups
          /\ T.code = S.code /\ T.lock = TRUE /\ T.keep = S.keep /\ T.refresh = FALSE
          /\ T.nfc = S.nfc /\ T.display = S.display /\ T.tag = S.tag
          /\ T.accessory = S.accessory /\ T.fault = S.fault
      BY <1>1, <2>1, <2>2 DEF Setups
    <3> QED  BY <1>3, <3>1 DEF Base, Shown, SetupInv, Frame
  <2>3. CASE ~lockSetupInfo
    BY <1>3, <2>1, <2>3 DEF SetupInv, Frame
  <2> QED  BY <2>2, <2>3
<1>4. CASE S.code = NoCode
  <2>1. S.refresh = FALSE
    BY <1>1, <1>4 DEF Base, Setups
  <2>2. Unless(S, platform.display /\ ~lockSetupInfo /\ S.refresh, "refresh") = S
    BY <1>1, <2>1 DEF Unless, Setups
  <2>3. PICK code \in AllCodes :
          T = Synchronize([S EXCEPT
                !.code = code, !.lock = lockSetupInfo, !.keep = FALSE,
                !.refresh = S.refresh \/ (platform.display /\ ~lockSetupInfo)])
    BY <1>2, <1>4, <2>2 DEF PrepareSetupInfo, AllCodes
  <2> DEFINE U == [S EXCEPT !.code = code, !.lock = lockSetupInfo, !.keep = FALSE,
                            !.refresh = S.refresh \/ (platform.display /\ ~lockSetupInfo)]
  <2>4. /\ U \in Setups
        /\ U.code = code /\ U.lock = lockSetupInfo /\ U.keep = FALSE
        /\ U.refresh <=> platform.display /\ ~lockSetupInfo
        /\ U.nfc = S.nfc /\ U.accessory = S.accessory /\ U.fault = S.fault
    BY <1>1, <2>1 DEF Setups
  <2>5. code # NoCode
    BY SetupInfoAssumption
  <2> HIDE DEF U
  <2>6. Base(U)
    BY <2>4, <2>5 DEF Base
  <2>7. SetupInv(T) /\ Frame(U, T)
    BY <2>3, <2>6, SynchronizeInv DEF U
  <2>8. /\ T.code = U.code /\ T.lock = U.lock /\ T.keep = U.keep /\ T.refresh = U.refresh
        /\ T.accessory = U.accessory
        /\ U.fault # "none" => T.fault = U.fault
        /\ platform.display /\ ~U.accessory => T.fault # "none"
    BY <2>3, <2>4, SynchronizeFields DEF U
  <2>9. Frame(S, T)
    BY <1>4, <2>4, <2>8 DEF Frame
  <2> QED  BY <1>4, <2>4, <2>5, <2>7, <2>8, <2>9
<1> QED  BY <1>3, <1>4

LEMMA GetSetupInfoInv ==
  ASSUME NEW S, SetupInv(S), S.lock, ~paired, SetupTypeOK,
         NEW restorePrevious \in BOOLEAN, NEW T \in GetSetupInfo(S, restorePrevious)
  PROVE  /\ SetupInv(T) /\ Frame(S, T)
         /\ T.code # NoCode /\ T.lock
         /\ T.keep => restorePrevious
         /\ (S.keep => restorePrevious) => T = S
<1>1. S \in Setups /\ S.code # NoCode
  BY DEF SetupInv, Base
<1>2. CASE ~restorePrevious /\ S.keep
  <2> DEFINE C == ClearSetupInfo(S)
  <2>1. /\ Base(C) /\ C.code = NoCode /\ ~C.refresh
        /\ C.fault = S.fault /\ C.accessory = S.accessory
    BY ClearFields DEF SetupInv
  <2>2. T \in PrepareSetupInfo(C, TRUE)
    BY <1>2 DEF GetSetupInfo
  <2> HIDE DEF C
  <2>3. SetupInv(T) /\ Frame(C, T) /\ T.code # NoCode /\ T.lock /\ ~T.keep
    BY <2>1, <2>2, PrepareInv
  <2>4. ~T.refresh
    BY <2>3 DEF SetupInv, Base
  <2> QED  BY <1>2, <2>1, <2>3, <2>4 DEF Frame
<1>3. CASE ~(~restorePrevious /\ S.keep)
  <2>1. T = Unless(S, FALSE, "restore")
    BY <1>1, <1>3 DEF GetSetupInfo
  <2>2. T = S
    BY <1>1, <2>1, NoFailure
  <2> QED  BY <1>1, <1>3, <2>2 DEF Frame
<1> QED  BY <1>2, <1>3

LEMMA PairingStartInv ==
  ASSUME NEW S, SetupInv(S), ~paired, SetupTypeOK, NEW T \in PairingStart(S)
  PROVE  SetupInv(T) /\ Frame(S, T) /\ T.code # NoCode /\ T.lock
<1>1. PICK U \in PrepareSetupInfo(S, TRUE) : T = Unless(U, U.refresh, "refresh")
  BY DEF PairingStart
<1>2. SetupInv(U) /\ Frame(S, U) /\ U.code # NoCode /\ U.lock
  BY PrepareInv DEF SetupInv
<1>3. U \in Setups /\ U.refresh = FALSE
  BY <1>2 DEF SetupInv, Base, Setups
<1>4. T = U
  BY <1>1, <1>3, NoFailure
<1> QED  BY <1>2, <1>4

LEMMA PairingStopInv ==
  ASSUME NEW S, SetupInv(S), SetupTypeOK, NEW keepSetupInfo \in BOOLEAN, keepSetupInfo => S.lock,
         NEW T \in PairingStop(S, keepSetupInfo)
  PROVE  /\ SetupInv(T) /\ Frame(S, T)
         /\ keepSetupInfo => T.lock
<1>1. S \in Setups /\ S.lock \in BOOLEAN /\ paired \in BOOLEAN
  BY DEF SetupInv, Base, Setups, SetupTypeOK
<1> DEFINE U == IF keepSetupInfo
                THEN [Unless(S, ~S.lock, "lock") EXCEPT !.keep = TRUE]
                ELSE Synchronize(ClearSetupInfo(S))
<1>2. /\ SetupInv(U) /\ U.accessory = S.accessory /\ (S.fault # "none" => U.fault # "none")
      /\ U.refresh => S.refresh
      /\ keepSetupInfo => U.lock /\ U.code = S.code
  <2>1. CASE keepSetupInfo
    <3>1. Unless(S, ~S.lock, "lock") = S
      BY <1>1, <2>1 DEF Unless, Setups
    <3>2. U = [S EXCEPT !.keep = TRUE]
      BY <2>1, <3>1
    <3> HIDE DEF U
    <3>3. /\ U \in Setups
          /\ U.code = S.code /\ U.lock = S.lock /\ U.keep = TRUE /\ U.refresh = S.refresh
          /\ U.nfc = S.nfc /\ U.display = S.display /\ U.tag = S.tag
          /\ U.accessory = S.accessory /\ U.fault = S.fault
      BY <1>1, <3>2 DEF Setups
    <3>4. Base(U) /\ Shown(U)
      BY <2>1, <3>3 DEF SetupInv, Base, Shown
    <3> QED  BY <2>1, <3>3, <3>4 DEF SetupInv
  <2>2. CASE ~keepSetupInfo
    <3> DEFINE C == ClearSetupInfo(S)
    <3>1. /\ Base(C) /\ C.code = NoCode /\ ~C.refresh
          /\ C.fault = S.fault /\ C.accessory = S.accessory
      BY ClearFields DEF SetupInv
    <3>2. U = Synchronize(C)
      BY <2>2
    <3> HIDE DEF C, U
    <3>3. C \in Setups
      BY <3>1 DEF Base
    <3>4. SetupInv(U)
      BY <3>1, <3>2, SynchronizeInv
    <3>5. /\ U.refresh = C.refresh /\ U.accessory = C.accessory
          /\ C.fault # "none" => U.fault = C.fault
      BY <3>2, <3>3, SynchronizeFields
    <3> QED  BY <2>2, <3>1, <3>4, <3>5
  <2> QED  BY <2>1, <2>2
<1>3. CASE platform.display /\ ~paired
  <2>1. T \in PrepareSetupInfo(U, FALSE)
    BY <1>3 DEF PairingStop
  <2> HIDE DEF U
  <2>2. SetupInv(T) /\ Frame(U, T) /\ T.code # NoCode /\ (U.code # NoCode => (U.lock => T.lock))
    BY <1>2, <1>3, <2>1, PrepareInv DEF SetupInv
  <2>3. keepSetupInfo => T.lock
    BY <1>2, <2>2 DEF SetupInv, Base
  <2> QED  BY <1>2, <2>2, <2>3 DEF Frame
<1>4. CASE ~(platform.display /\ ~paired)
  <2>1. T = U
    BY <1>4 DEF PairingStop
  <2> HIDE DEF U
  <2> QED  BY <1>2, <1>4, <2>1 DEF Frame
<1> QED  BY <1>3, <1>4

-----------------------------------------------------------------------------
(* Timers, calls of the application and the server's own changes of state leave a locked *)
(* code alone.                                                                           *)

Keeps(S, T) == S.lock => T.lock /\ T.code = S.code /\ T.keep = S.keep

LEMMA NFCPairingModeLeftInv ==
  ASSUME NEW S, SetupInv(S), SetupTypeOK
  PROVE  LET T == NFCPairingModeLeft(S) IN SetupInv(T) /\ Frame(S, T) /\ Keeps(S, T)
<1> DEFINE T == NFCPairingModeLeft(S)
           U == [S EXCEPT !.nfc = FALSE]
           V == IF ~U.lock /\ ~U.refresh THEN ClearSetupInfo(U) ELSE U
<1>1. S \in Setups
  BY DEF SetupInv, Base
<1>2. /\ U \in Setups
      /\ U.code = S.code /\ U.lock = S.lock /\ U.keep = S.keep /\ U.refresh = S.refresh
      /\ U.accessory = S.accessory /\ U.fault = S.fault
  BY <1>1 DEF Setups
<1>3. T = Synchronize(V)
  BY DEF NFCPairingModeLeft
<1> HIDE DEF U, T
<1>4. Base(U)
  BY <1>2 DEF SetupInv, Base
<1>5. /\ Base(V) /\ Keeps(S, V)
      /\ V.fault = S.fault /\ V.accessory = S.accessory /\ (V.refresh => S.refresh)
      /\ platform.display /\ S.code # NoCode => V.code # NoCode
  <2>1. CASE ~U.lock /\ ~U.refresh
    <3>1. V = ClearSetupInfo(U)
      BY <2>1
    <3> HIDE DEF V
    <3>2. Base(V) /\ ~V.refresh /\ V.fault = U.fault /\ V.accessory = U.accessory
      BY <1>4, <3>1, ClearFields
    <3>3. ~(platform.display /\ S.code # NoCode)
      BY <1>2, <2>1 DEF SetupInv, Base
    <3> QED  BY <1>2, <2>1, <3>2, <3>3 DEF Keeps
  <2>2. CASE ~(~U.lock /\ ~U.refresh)
    <3>1. V = U
      BY <2>2
    <3> HIDE DEF V
    <3> QED  BY <1>2, <1>4, <3>1 DEF Keeps
  <2> QED  BY <2>1, <2>2
<1> HIDE DEF V
<1>6. V \in Setups
  BY <1>5 DEF Base
<1>7. /\ T.code = V.code /\ T.lock = V.lock /\ T.keep = V.keep /\ T.refresh = V.refresh
      /\ T.accessory = V.accessory
      /\ V.fault # "none" => T.fault = V.fault
  BY <1>3, <1>6, SynchronizeFields
<1>8. SetupInv(T)
  BY <1>3, <1>5, SynchronizeInv
<1>9. Frame(S, T) /\ Keeps(S, T)
  BY <1>5, <1>7 DEF Frame, Keeps
<1> QED  BY <1>8, <1>9 DEF T

LEMMA StateUpdateInv ==
  ASSUME NEW S, SetupInv(S), SetupTypeOK, NEW T \in StateUpdate(S)
  PROVE  /\ SetupInv(T) /\ Frame(S, T) /\ Keeps(S, T)
         /\ platform.display /\ ~paired => T.code # NoCode
<1>1. Base(S) /\ S \in Setups
  BY DEF SetupInv, Base
<1>2. CASE ~paired /\ platform.display
  <2>1. T \in PrepareSetupInfo(S, FALSE)
    BY <1>2 DEF StateUpdate
  <2>2. /\ SetupInv(T) /\ Frame(S, T) /\ T.code # NoCode
        /\ S.code # NoCode => T.code = S.code /\ T.keep = S.keep /\ (S.lock => T.lock)
    BY <1>1, <1>2, <2>1, PrepareInv DEF SetupInv
  <2> QED  BY <1>1, <2>2 DEF Base, Keeps
<1>3. CASE ~paired /\ ~platform.display
  <2>1. T = Synchronize(S)
    BY <1>3 DEF StateUpdate
  <2>2. SetupInv(T) /\ Frame(S, T)
    BY <1>1, <2>1, SynchronizeInv
  <2>3. T.lock = S.lock /\ T.code = S.code /\ T.keep = S.keep
    BY <1>1, <2>1, SynchronizeFields
  <2> QED  BY <1>3, <2>2, <2>3 DEF Keeps
<1>4. CASE paired
  <2>1. T = NFCPairingModeLeft(S) \/ T = S
    BY <1>4 DEF StateUpdate
  <2>2. CASE T = NFCPairingModeLeft(S)
    BY <1>4, <2>2, NFCPairingModeLeftInv
  <2>3. CASE T = S
    BY <1>4, <2>3 DEF Frame, Keeps
  <2> QED  BY <2>1, <2>2, <2>3
<1> QED  BY <1>2, <1>3, <1>4

\* A code that is refreshed is replaced, by its timer or at the application's request.
LEMMA RefreshedInv ==
  ASSUME NEW S, SetupInv(S), S.refresh, SetupTypeOK, NEW R \in Setups,
         R.code = S.code, R.lock = S.lock, R.keep = S.keep, R.accessory = S.accessory, R.fault = S.fault,
         NEW T \in PrepareSetupInfo(ClearSetupInfo(R), FALSE), R.refresh => S.refresh
  PROVE  SetupInv(T) /\ Frame(S, T) /\ Keeps(S, T)
<1>1. S.code # NoCode /\ platform.display /\ ~paired /\ ~S.lock
  BY DEF SetupInv, Base
<1> DEFINE C == ClearSetupInfo(R)
<1>2. C = [R EXCEPT !.code = NoCode, !.lock = FALSE, !.keep = FALSE, !.refresh = FALSE]
  BY <1>1 DEF ClearSetupInfo
<1> HIDE DEF C
<1>3. /\ C \in Setups
      /\ C.code = NoCode /\ C.lock = FALSE /\ C.keep = FALSE /\ C.refresh = FALSE
      /\ C.accessory = R.accessory /\ C.fault = R.fault
  BY <1>2 DEF Setups
<1>4. Base(C)
  BY <1>3 DEF SetupInv, Base
<1>5. T \in PrepareSetupInfo(C, FALSE)
  BY DEF C
<1>6. SetupInv(T) /\ Frame(C, T) /\ T.code # NoCode
  BY <1>1, <1>3, <1>4, <1>5, PrepareInv
<1> QED  BY <1>1, <1>3, <1>6 DEF Frame, Keeps

LEMMA DynamicSetupInfoExpiredInv ==
  ASSUME NEW S, SetupInv(S), S.refresh, SetupTypeOK, NEW T \in DynamicSetupInfoExpired(S)
  PROVE  SetupInv(T) /\ Frame(S, T) /\ Keeps(S, T)
<1> DEFINE U == [S EXCEPT !.refresh = FALSE]
           R == Unless(U, paired \/ S.lock \/ S.code = NoCode, "refresh")
<1>1. /\ S \in Setups /\ S.code # NoCode /\ ~paired /\ ~S.lock
      /\ S.lock \in BOOLEAN /\ paired \in BOOLEAN
  BY DEF SetupInv, Base, Setups, SetupTypeOK
<1>2. U \in Setups
  BY <1>1 DEF Setups
<1>3. R = U
  <2> HIDE DEF U
  <2> QED  BY <1>1, <1>2 DEF Unless, Setups
<1>4. /\ R \in Setups /\ R.refresh = FALSE
      /\ R.code = S.code /\ R.lock = S.lock /\ R.keep = S.keep
      /\ R.accessory = S.accessory /\ R.fault = S.fault
  <2> HIDE DEF R
  <2> QED  BY <1>1, <1>3 DEF Setups
<1>5. T \in PrepareSetupInfo(ClearSetupInfo(R), FALSE)
  BY DEF DynamicSetupInfoExpired
<1> HIDE DEF R
<1> QED  BY <1>4, <1>5, RefreshedInv

LEMMA RefreshSetupPayloadInv ==
  ASSUME NEW S, SetupInv(S), SetupTypeOK, NEW T \in RefreshSetupPayload(S)
  PROVE  SetupInv(T) /\ Frame(S, T) /\ Keeps(S, T)
<1>1. CASE S.refresh
  <2>1. T \in PrepareSetupInfo(ClearSetupInfo(S), FALSE)
    BY <1>1 DEF RefreshSetupPayload
  <2>2. S \in Setups
    BY DEF SetupInv, Base
  <2> QED  BY <1>1, <2>1, <2>2, RefreshedInv
<1>2. CASE ~S.refresh
  <2>1. T = S
    BY <1>2 DEF RefreshSetupPayload
  <2> QED  BY <2>1 DEF Frame, Keeps
<1> QED  BY <1>1, <1>2

LEMMA EnterNFCPairingModeInv ==
  ASSUME NEW S, SetupInv(S), SetupTypeOK, NEW T \in EnterNFCPairingMode(S)
  PROVE  SetupInv(T) /\ Frame(S, T) /\ Keeps(S, T)
<1> DEFINE U == [S EXCEPT !.nfc = TRUE]
<1>1. S \in Setups
  BY DEF SetupInv, Base
<1>2. /\ U \in Setups
      /\ U.code = S.code /\ U.lock = S.lock /\ U.keep = S.keep /\ U.refresh = S.refresh
      /\ U.accessory = S.accessory /\ U.fault = S.fault /\ U.nfc = TRUE
      /\ U.display = S.display /\ U.tag = S.tag
  BY <1>1 DEF Setups
<1>3. CASE paired
  <2>1. T = S
    BY <1>3 DEF EnterNFCPairingMode
  <2> QED  BY <2>1 DEF Frame, Keeps
<1>4. CASE ~paired
  <2>1. IF S.code = NoCode THEN T \in PrepareSetupInfo(U, FALSE)
        ELSE T = IF S.nfc THEN U ELSE Synchronize(U)
    BY <1>4 DEF EnterNFCPairingMode
  <2> HIDE DEF U
  <2>2. Base(U) /\ Shown(U)
    BY <1>2 DEF SetupInv, Base, Shown
  <2>3. CASE S.code = NoCode
    <3>1. SetupInv(T) /\ Frame(U, T)
      BY <1>4, <2>1, <2>2, <2>3, PrepareInv
    <3>2. ~S.lock
      BY <2>3 DEF SetupInv, Base
    <3> QED  BY <1>2, <2>3, <3>1, <3>2 DEF Frame, Keeps
  <2>4. CASE S.code # NoCode
    <3>1. CASE S.nfc
      <4>1. T = U
        BY <2>1, <2>4, <3>1
      <4> QED  BY <1>2, <2>2, <4>1 DEF SetupInv, Frame, Keeps
    <3>2. CASE ~S.nfc
      <4>1. T = Synchronize(U)
        BY <2>1, <2>4, <3>2
      <4>2. SetupInv(T) /\ Frame(U, T)
        BY <2>2, <4>1, SynchronizeInv
      <4>3. T.lock = U.lock /\ T.code = U.code /\ T.keep = U.keep
        BY <1>2, <4>1, SynchronizeFields
      <4> QED  BY <1>2, <4>2, <4>3 DEF Frame, Keeps
    <3> QED  BY <3>1, <3>2
  <2> QED  BY <2>3, <2>4
<1> QED  BY <1>3, <1>4

LEMMA ServerStartInv ==
  ASSUME NEW S, SetupInv(S), ~S.refresh, SetupTypeOK, NEW T \in ServerStart(S)
  PROVE  SetupInv(T) /\ Frame([S EXCEPT !.accessory = TRUE], T)
<1> DEFINE V == [S EXCEPT !.accessory = TRUE]
           U == Unless(V, S.refresh, "start")
<1>1. S \in Setups /\ S.refresh = FALSE
  BY DEF SetupInv, Base, Setups
<1>2. /\ V \in Setups
      /\ V.code = S.code /\ V.lock = S.lock /\ V.keep = S.keep /\ V.refresh = S.refresh
      /\ V.fault = S.fault /\ V.nfc = S.nfc /\ V.display = S.display /\ V.tag = S.tag
  BY <1>1 DEF Setups
<1>3. U = V
  <2> HIDE DEF V
  <2> QED  BY <1>1, <1>2, NoFailure
<1>4. IF platform.display /\ ~paired THEN T \in PrepareSetupInfo(U, FALSE) ELSE T = U
  BY DEF ServerStart
<1> HIDE DEF U, V
<1>5. SetupInv(V)
  BY <1>2 DEF SetupInv, Base, Shown
<1>6. CASE platform.display /\ ~paired
  <2>1. SetupInv(T) /\ Frame(V, T)
    BY <1>3, <1>4, <1>5, <1>6, PrepareInv DEF SetupInv
  <2> QED  BY <2>1 DEF V
<1>7. CASE ~(platform.display /\ ~paired)
  <2>1. T = V
    BY <1>3, <1>4, <1>7
  <2>2. Frame(V, V)
    BY DEF Frame
  <2> QED  BY <1>5, <2>1, <2>2 DEF V
<1> QED  BY <1>6, <1>7

LEMMA ServerStopInv ==
  ASSUME NEW S, S \in Setups, S.fault \in KnownFailures \cup {"none"}, SetupTypeOK
  PROVE  LET T == ServerStop(S) IN SetupInv(T) /\ ~T.accessory /\ ~T.refresh
<1> DEFINE U == [S EXCEPT !.code = NoCode, !.lock = FALSE, !.keep = FALSE,
                          !.refresh = FALSE, !.nfc = FALSE]
           V == Synchronize(U)
           T == ServerStop(S)
<1>1. /\ U \in Setups
      /\ U.code = NoCode /\ U.lock = FALSE /\ U.keep = FALSE /\ U.refresh = FALSE /\ U.nfc = FALSE
      /\ U.fault = S.fault
  BY DEF Setups
<1>2. T = [V EXCEPT !.accessory = FALSE]
  BY DEF ServerStop
<1> HIDE DEF U, T
<1>3. Base(U)
  BY <1>1 DEF Base
<1>4. SetupInv(V) /\ V.refresh = U.refresh
  BY <1>1, <1>3, SynchronizeInv, SynchronizeFields
<1> HIDE DEF V
<1>5. V \in Setups
  BY <1>4 DEF SetupInv, Base
<1>6. /\ T \in Setups /\ T.accessory = FALSE
      /\ T.code = V.code /\ T.lock = V.lock /\ T.keep = V.keep /\ T.refresh = V.refresh
      /\ T.fault = V.fault /\ T.nfc = V.nfc /\ T.display = V.display /\ T.tag = V.tag
  BY <1>2, <1>5 DEF Setups
<1>7. SetupInv(T)
  BY <1>4, <1>6 DEF SetupInv, Base, Shown
<1> QED  BY <1>1, <1>4, <1>6, <1>7 DEF T

-----------------------------------------------------------------------------
(* The parts of a handler. *)

Worlds == [setup : Setups, procedure : Procedures, session : [Sessions -> SessionStates]]

LEMMA FrameReflexive ==
  ASSUME NEW S PROVE Frame(S, S)
BY DEF Frame

LEMMA FrameTransitive ==
  ASSUME NEW S, NEW T, NEW U, Frame(S, T), Frame(T, U) PROVE Frame(S, U)
BY DEF Frame

LEMMA UnclaimedType ==
  /\ Unclaimed \in Procedures
  /\ Unclaimed.session = NoSession
  /\ Ready \in SessionStates /\ Ready.state = 0
BY DEF Unclaimed, Procedures, Ready, SessionStates

\* The invariant of a world without an owner.
LEMMA UnclaimedInv ==
  ASSUME NEW v \in Worlds, SetupInv(v.setup), v.procedure.session = NoSession,
         \A s \in Sessions : v.session[s].state < 2
  PROVE  WorldInv(v)
<1>1. \A s \in Sessions : v.session[s].state \in 0..5
  BY DEF Worlds, SessionStates
<1>2. \A s \in Sessions : ~(v.session[s].state >= 2) /\ v.session[s].state \notin {2, 3, 4, 5}
  BY <1>1
<1>3. NoSession \notin Sessions
  BY PairSetupAssumption
<1> QED  BY <1>2, <1>3 DEF WorldInv, Worlds

LEMMA ResetsInv ==
  ASSUME NEW w, WorldInv(w), SetupTypeOK, NEW T \in SUBSET Sessions, NEW keepSetupInfo \in BOOLEAN,
         NEW v \in Resets(w, T, keepSetupInfo)
  PROVE  /\ WorldInv(v) /\ Frame(w.setup, v.setup)
         /\ \A s \in T : v.session[s] = Ready
         /\ \A s \in Sessions \ T : v.session[s] = w.session[s]
         /\ w.procedure.session \in T => v.procedure = Unclaimed
         /\ w.procedure.session \notin T => v.procedure = w.procedure /\ v.setup = w.setup
<1>1. w \in Worlds /\ SetupInv(w.setup) /\ NoSession \notin Sessions
  BY PairSetupAssumption DEF WorldInv, Worlds
<1>2. PICK S \in IF w.procedure.session \in T THEN PairingStop(w.setup, keepSetupInfo) ELSE {w.setup} :
        v = [ setup     |-> S,
              procedure |-> IF w.procedure.session \in T THEN Unclaimed ELSE w.procedure,
              session   |-> [s \in Sessions |-> IF s \in T THEN Ready ELSE w.session[s]] ]
  BY DEF Resets
<1>3. /\ v.setup = S
      /\ v.procedure = IF w.procedure.session \in T THEN Unclaimed ELSE w.procedure
      /\ v.session = [s \in Sessions |-> IF s \in T THEN Ready ELSE w.session[s]]
  BY <1>2
<1>4. v.session \in [Sessions -> SessionStates]
  BY <1>1, <1>3, UnclaimedType DEF Worlds
<1>5. \A s \in Sessions : v.session[s] = IF s \in T THEN Ready ELSE w.session[s]
  BY <1>3
<1>6. CASE w.procedure.session \in T
  <2>1. w.setup.lock
    BY <1>1, <1>6 DEF WorldInv
  <2>2. SetupInv(S) /\ Frame(w.setup, S) /\ (keepSetupInfo => S.lock)
    BY <1>1, <1>2, <1>6, <2>1, PairingStopInv
  <2>3. v \in Worlds
    BY <1>2, <1>3, <1>4, <1>6, <2>2, UnclaimedType DEF Worlds, SetupInv, Base
  <2>4. \A s \in Sessions : v.session[s].state < 2
    <3> SUFFICES ASSUME NEW s \in Sessions PROVE v.session[s].state < 2
      OBVIOUS
    <3>1. CASE s \in T
      BY <1>5, <3>1, UnclaimedType
    <3>2. CASE s \notin T
      <4>1. ~(w.session[s].state >= 2)
        BY <1>6, <3>2 DEF WorldInv
      <4>2. w.session[s].state \in 0..5
        BY <1>1 DEF Worlds, SessionStates
      <4> QED  BY <1>5, <3>2, <4>1, <4>2
    <3> QED  BY <3>1, <3>2
  <2>5. WorldInv(v)
    BY <1>3, <1>6, <2>2, <2>3, <2>4, UnclaimedInv, UnclaimedType
  <2> QED  BY <1>3, <1>5, <1>6, <2>2, <2>5
<1>7. CASE w.procedure.session \notin T
  <2>1. v.setup = w.setup /\ v.procedure = w.procedure
    BY <1>2, <1>3, <1>7
  <2>2. v \in Worlds
    BY <1>1, <1>2, <1>4, <2>1 DEF Worlds
  <2>3. \A s \in Sessions : w.procedure.session = s => v.session[s] = w.session[s]
    BY <1>5, <1>7
  <2>4. \A s \in Sessions : v.session[s] = w.session[s] \/ v.session[s].state = 0
    BY <1>5, UnclaimedType
  <2>5. WorldInv(v)
    <3>1. v \in [setup : Setups, procedure : Procedures, session : [Sessions -> SessionStates]]
      BY <2>2 DEF Worlds
    <3>2. v.procedure.session # NoSession => v.setup.lock
      BY <2>1 DEF WorldInv
    <3>3. \A s \in Sessions : v.session[s].state >= 2 =>
            v.procedure.session = s /\ v.setup.code = v.procedure.code
      BY <2>1, <2>4 DEF WorldInv
    <3>4. \A s \in Sessions : v.session[s].state \in {2, 3} =>
            (v.setup.keep => Restores(v.procedure.flags))
      BY <2>1, <2>4 DEF WorldInv
    <3>5. \A s \in Sessions : v.session[s].state \in {4, 5} => v.procedure.proof = v.procedure.code
      BY <2>1, <2>4 DEF WorldInv
    <3>6. paired => \A s \in Sessions : v.procedure.session = s => v.session[s].state = 5
      BY <2>1, <2>3 DEF WorldInv
    <3> QED  BY <1>1, <2>1, <3>1, <3>2, <3>3, <3>4, <3>5, <3>6 DEF WorldInv
  <2> QED  BY <1>5, <1>7, <2>1, <2>5, FrameReflexive
<1> QED  BY <1>6, <1>7

LEMMA AbortedInv ==
  ASSUME NEW w, WorldInv(w), SetupTypeOK, w.procedure.session \in Sessions, NEW v \in Aborted(w)
  PROVE  /\ WorldInv(v) /\ Frame(w.setup, v.setup)
         /\ v.procedure = Unclaimed
         /\ \A s \in Sessions : v.session[s] = IF s = w.procedure.session THEN Ready ELSE w.session[s]
<1>1. PICK u \in Resets(w, {w.procedure.session}, TRUE) : v = [u EXCEPT !.setup.keep = FALSE]
  BY DEF Aborted
<1>2. /\ WorldInv(u) /\ Frame(w.setup, u.setup)
      /\ \A s \in Sessions : u.session[s] = IF s \in {w.procedure.session} THEN Ready ELSE w.session[s]
      /\ u.procedure = Unclaimed
  <2> DEFINE T == {w.procedure.session}
             keep == TRUE
  <2>1. T \in SUBSET Sessions /\ w.procedure.session \in T /\ keep \in BOOLEAN
    OBVIOUS
  <2>2. u \in Resets(w, T, keep)
    OBVIOUS
  <2> HIDE DEF T, keep
  <2>3. /\ WorldInv(u) /\ Frame(w.setup, u.setup)
        /\ \A s \in T : u.session[s] = Ready
        /\ \A s \in Sessions \ T : u.session[s] = w.session[s]
        /\ w.procedure.session \in T => u.procedure = Unclaimed
    BY <2>1, <2>2, ResetsInv
  <2> QED  BY <2>1, <2>3 DEF T
<1>3. u \in Worlds /\ SetupInv(u.setup) /\ u.setup \in Setups
  BY <1>2 DEF WorldInv, Worlds
<1>4. /\ v.setup = [u.setup EXCEPT !.keep = FALSE]
      /\ v.procedure = u.procedure /\ v.session = u.session
  BY <1>1, <1>3 DEF Worlds
<1>5. LET S == u.setup
          V == v.setup
      IN /\ V \in Setups
         /\ V.code = S.code /\ V.lock = S.lock /\ V.keep = FALSE /\ V.refresh = S.refresh
         /\ V.nfc = S.nfc /\ V.display = S.display /\ V.tag = S.tag
         /\ V.accessory = S.accessory /\ V.fault = S.fault
  BY <1>3, <1>4 DEF Setups
<1>6. SetupInv(v.setup) /\ Frame(u.setup, v.setup)
  BY <1>3, <1>5 DEF SetupInv, Base, Shown, Frame
<1>7. v \in Worlds
  <2>1. v = [setup |-> [u.setup EXCEPT !.keep = FALSE], procedure |-> u.procedure, session |-> u.session]
    BY <1>1, <1>3 DEF Worlds
  <2> QED  BY <1>3, <1>4, <1>5, <2>1 DEF Worlds
<1>8. \A s \in Sessions : v.session[s].state < 2
  <2> SUFFICES ASSUME NEW s \in Sessions PROVE v.session[s].state < 2
    OBVIOUS
  <2>1. ~(u.session[s].state >= 2)
    BY <1>2, UnclaimedType, PairSetupAssumption DEF WorldInv
  <2>2. u.session[s].state \in 0..5
    BY <1>3 DEF Worlds, SessionStates
  <2> QED  BY <1>4, <2>1, <2>2
<1>9. WorldInv(v)
  BY <1>2, <1>4, <1>6, <1>7, <1>8, UnclaimedInv, UnclaimedType
<1> QED  BY <1>2, <1>4, <1>6, <1>9, FrameTransitive

LEMMA RetriedInv ==
  ASSUME NEW w, WorldInv(w), SetupTypeOK, NEW s \in Sessions, NEW m, NEW v \in Retried(w, s, m)
  PROVE  /\ WorldInv(v) /\ Frame(w.setup, v.setup)
         /\ \/ v = w
            \/ /\ w.procedure.session = s /\ v.procedure = Unclaimed
               /\ \A t \in Sessions \ {s} : v.session[t] = w.session[t]
<1>1. CASE w.procedure.session = s /\ m.state = 1
  <2>1. v \in Aborted(w)
    BY <1>1 DEF Retried
  <2> QED  BY <1>1, <2>1, AbortedInv
<1>2. CASE ~(w.procedure.session = s /\ m.state = 1)
  <2>1. v = w
    BY <1>2 DEF Retried
  <2> QED  BY <2>1, FrameReflexive
<1> QED  BY <1>1, <1>2

LEMMA TakenOverInv ==
  ASSUME NEW w, WorldInv(w), SetupTypeOK, NEW s \in Sessions, NEW v \in TakenOver(w, s)
  PROVE  /\ WorldInv(v) /\ Frame(w.setup, v.setup)
         /\ v.session[s] = w.session[s]
         /\ v = w \/ v.procedure = Unclaimed
<1>1. CASE w.procedure.session \notin {NoSession, s} /\ w.procedure.expired
  <2>1. v \in Aborted(w)
    BY <1>1 DEF TakenOver
  <2>2. w.procedure.session \in Sessions
    BY <1>1 DEF WorldInv, Procedures
  <2> QED  BY <1>1, <2>1, <2>2, AbortedInv
<1>2. CASE ~(w.procedure.session \notin {NoSession, s} /\ w.procedure.expired)
  <2>1. v = w
    BY <1>2 DEF TakenOver
  <2> QED  BY <2>1, FrameReflexive
<1> QED  BY <1>1, <1>2

\* Only a session that begins claims the procedure.
LEMMA ClaimedInv ==
  ASSUME NEW w, WorldInv(w), SetupTypeOK, NEW s \in Sessions, NEW v \in Claimed(w, s)
  PROVE  /\ WorldInv(v) /\ Frame(w.setup, v.setup)
         /\ v.session[s] = w.session[s]
         /\ v.procedure.session \notin {NoSession, s} => v = w
         /\ w.session[s].state # 0 => v = w
<1>1. CASE w.session[s].state # 0 \/ paired
  <2>1. v = w
    BY <1>1 DEF Claimed
  <2> QED  BY <2>1, FrameReflexive
<1>2. CASE ~(w.session[s].state # 0 \/ paired)
  <2>1. PICK u \in TakenOver(w, s) :
          v \in IF u.procedure.session # NoSession THEN {u}
                ELSE {[u EXCEPT !.setup = S, !.procedure.session = s] : S \in PairingStart(u.setup)}
    BY <1>2 DEF Claimed
  <2>2. /\ WorldInv(u) /\ Frame(w.setup, u.setup)
        /\ u.session[s] = w.session[s]
        /\ u = w \/ u.procedure = Unclaimed
    BY <2>1, TakenOverInv
  <2>3. u \in Worlds /\ SetupInv(u.setup)
    BY <2>2 DEF WorldInv, Worlds
  <2>4. CASE u.procedure.session # NoSession
    <3>1. v = u
      BY <2>1, <2>4
    <3>2. u = w
      BY <2>2, <2>4, UnclaimedType
    <3> QED  BY <1>2, <2>2, <3>1, <3>2
  <2>5. CASE u.procedure.session = NoSession
    <3>1. PICK S \in PairingStart(u.setup) : v = [u EXCEPT !.setup = S, !.procedure.session = s]
      BY <2>1, <2>5
    <3>2. SetupInv(S) /\ Frame(u.setup, S) /\ S.lock
      BY <1>2, <2>3, <3>1, PairingStartInv
    <3>3. v = [setup |-> S, procedure |-> [u.procedure EXCEPT !.session = s], session |-> u.session]
      BY <2>3, <3>1 DEF Worlds
    <3>4. /\ v.setup = S /\ v.session = u.session
          /\ v.procedure = [u.procedure EXCEPT !.session = s]
      BY <3>3
    <3>5. v.procedure \in Procedures /\ v.procedure.session = s
      BY <2>3, <3>4 DEF Worlds, Procedures
    <3>6. v \in Worlds
      BY <2>3, <3>2, <3>3, <3>4, <3>5 DEF Worlds, SetupInv, Base
    <3>7. \A t \in Sessions : ~(v.session[t].state >= 2) /\ v.session[t].state \notin {2, 3, 4, 5}
      <4> SUFFICES ASSUME NEW t \in Sessions
                   PROVE  ~(v.session[t].state >= 2) /\ v.session[t].state \notin {2, 3, 4, 5}
        OBVIOUS
      <4>1. ~(u.session[t].state >= 2)
        BY <2>2, <2>5, PairSetupAssumption DEF WorldInv
      <4> QED  BY <3>4, <4>1
    <3>8. WorldInv(v)
      BY <1>2, <3>2, <3>4, <3>6, <3>7 DEF WorldInv, Worlds
    <3>9. Frame(w.setup, v.setup)
      BY <2>2, <3>2, <3>4, FrameTransitive
    <3> QED  BY <1>2, <2>2, <3>4, <3>5, <3>8, <3>9
  <2> QED  BY <2>4, <2>5
<1> QED  BY <1>1, <1>2

\* What a handler finds when it comes to its switch.
LEMMA ArrivesInv ==
  ASSUME WorldInv(Now), SetupTypeOK, NEW s \in Sessions, NEW m, NEW w \in Arrives(s, m)
  PROVE  /\ WorldInv(w) /\ Frame(setup, w.setup)
         /\ w.procedure.session \notin {NoSession, s} =>
              /\ w.procedure.session = procedure.session
              /\ procedure.session \notin transient \cap LookedAt(s)
              /\ w.session[procedure.session] = session[procedure.session]
         /\ w.session[s].state >= 2 =>
              w.setup = setup /\ w.procedure = procedure /\ w.session[s] = session[s]
<1> DEFINE T == transient \cap LookedAt(s)
<1>1. /\ T \in SUBSET Sessions /\ FALSE \in BOOLEAN /\ s # NoSession
      /\ procedure.session \in Sessions \cup {NoSession}
  BY SetupInfoAssumption, PairSetupAssumption DEF SetupTypeOK
<1>2. Now.setup = setup /\ Now.procedure = procedure /\ Now.session = session
  BY DEF Now
<1>3. PICK u \in Resets(Now, T, FALSE) : \E v \in Retried(u, s, m) : w \in Claimed(v, s)
  <2> DEFINE Handled(u) == UNION {Claimed(v, s) : v \in Retried(u, s, m)}
  <2>1. w \in UNION {Handled(u) : u \in Resets(Now, T, FALSE)}
    BY DEF Arrives
  <2>2. PICK u \in Resets(Now, T, FALSE) : w \in Handled(u)
    <3> HIDE DEF Handled
    <3> QED  BY <2>1
  <2> QED  BY <2>2
<1>3a. PICK v \in Retried(u, s, m) : w \in Claimed(v, s)
  BY <1>3
<1> HIDE DEF T
<1>4. /\ WorldInv(u) /\ Frame(setup, u.setup)
      /\ \A t \in Sessions : u.session[t] = IF t \in T THEN Ready ELSE session[t]
      /\ procedure.session \in T => u.procedure = Unclaimed
      /\ procedure.session \notin T => u.procedure = procedure /\ u.setup = setup
  <2>1. /\ WorldInv(u) /\ Frame(Now.setup, u.setup)
        /\ \A t \in T : u.session[t] = Ready
        /\ \A t \in Sessions \ T : u.session[t] = Now.session[t]
        /\ Now.procedure.session \in T => u.procedure = Unclaimed
        /\ Now.procedure.session \notin T => u.procedure = Now.procedure /\ u.setup = Now.setup
    BY <1>1, <1>3, ResetsInv
  <2> QED  BY <1>2, <2>1
<1>5. /\ WorldInv(v) /\ Frame(u.setup, v.setup)
      /\ \/ v = u
         \/ /\ u.procedure.session = s /\ v.procedure = Unclaimed
            /\ \A t \in Sessions \ {s} : v.session[t] = u.session[t]
  BY <1>3a, <1>4, RetriedInv
<1>6. /\ WorldInv(w) /\ Frame(v.setup, w.setup)
      /\ w.session[s] = v.session[s]
      /\ w.procedure.session \notin {NoSession, s} => w = v
      /\ v.session[s].state # 0 => w = v
  BY <1>3a, <1>5, ClaimedInv
<1>7. Frame(setup, w.setup)
  BY <1>4, <1>5, <1>6, FrameTransitive
<1>8. ASSUME w.procedure.session \notin {NoSession, s}
      PROVE  /\ w.procedure.session = procedure.session
             /\ procedure.session \notin T
             /\ w.session[procedure.session] = session[procedure.session]
  <2>1. w = v /\ v = u
    BY <1>5, <1>6, <1>8, UnclaimedType
  <2>2. procedure.session \notin T /\ u.procedure = procedure
    BY <1>4, <1>8, <2>1, UnclaimedType
  <2> QED  BY <1>1, <1>4, <1>8, <2>1, <2>2
<1>9. ASSUME w.session[s].state >= 2
      PROVE  w.setup = setup /\ w.procedure = procedure /\ w.session[s] = session[s]
  <2>1. w.procedure.session = s
    BY <1>6, <1>9 DEF WorldInv
  <2>2. w = v
    BY <1>6, <1>9
  <2>3. v = u
    BY <1>1, <1>5, <2>1, <2>2, UnclaimedType
  <2>4. procedure.session \notin T /\ u.procedure = procedure /\ u.setup = setup
    BY <1>1, <1>4, <2>1, <2>2, <2>3, UnclaimedType
  <2>5. u.session[s] = session[s]
    BY <1>4, <1>9, <2>2, <2>3, UnclaimedType
  <2> QED  BY <2>2, <2>3, <2>4, <2>5
<1> QED  BY <1>6, <1>7, <1>8, <1>9 DEF T

-----------------------------------------------------------------------------
(* Handlers. *)

\* Whoever owns the procedure of w, except s, has a connection in O and has begun.
HeldBut(w, s, O) ==
  w.procedure.session \notin {NoSession, s} =>
    w.procedure.session \in O /\ w.session[w.procedure.session].state > 0

\* The shared state w in the middle of a handler of s.
Handling(w, s, O) ==
  /\ WorldInv(w) /\ Frame(setup, w.setup)
  /\ HeldBut(w, s, O)
  /\ \A t \in Sessions : w.session[t].state \in {2, 3} => attempts < MaxTries

LEMMA NowHandled ==
  ASSUME IInv, NEW s \in Sessions
  PROVE  Handling(Now, s, open)
<1>1. Now.setup = setup /\ Now.procedure = procedure /\ Now.session = session
  BY DEF Now
<1> QED  BY <1>1, FrameReflexive DEF IInv, Handling, HeldBut, OneProcedure

LEMMA ArrivesHandled ==
  ASSUME IInv, NEW s \in Sessions, Writes(s), NEW m, NEW w \in Arrives(s, m)
  PROVE  Handling(w, s, open') /\ s \in open' /\ transient' \subseteq open'
<1>1. WorldInv(Now) /\ SetupTypeOK /\ OneProcedure
  BY DEF IInv
<1>2. /\ WorldInv(w) /\ Frame(setup, w.setup)
      /\ w.procedure.session \notin {NoSession, s} =>
           /\ w.procedure.session = procedure.session
           /\ procedure.session \notin transient \cap LookedAt(s)
           /\ w.session[procedure.session] = session[procedure.session]
      /\ w.session[s].state >= 2 => w.session[s] = session[s]
  BY <1>1, ArrivesInv
<1>3. s \in open' /\ transient' \subseteq open'
  BY <1>1 DEF Writes, SetupTypeOK
<1>4. HeldBut(w, s, open')
  <2> SUFFICES ASSUME w.procedure.session \notin {NoSession, s}
               PROVE  /\ w.procedure.session \in open'
                      /\ w.session[w.procedure.session].state > 0
    BY DEF HeldBut
  <2>1. procedure.session \in open /\ session[procedure.session].state > 0
    BY <1>1, <1>2 DEF OneProcedure
  <2> QED  BY <1>2, <2>1 DEF Writes
<1>5. ASSUME NEW t \in Sessions, w.session[t].state \in {2, 3}
      PROVE  attempts < MaxTries
  <2>1. w.procedure.session = t
    BY <1>2, <1>5 DEF WorldInv
  <2>2. w.session[t] = session[t]
    BY <1>2, <1>5, <2>1, PairSetupAssumption
  <2> QED  BY <1>5, <2>2 DEF IInv
<1> QED  BY <1>2, <1>3, <1>4, <1>5 DEF Handling

LEMMA ResetsHandled ==
  ASSUME SetupTypeOK, NEW s \in Sessions, NEW O, NEW w, Handling(w, s, O),
         NEW keepSetupInfo \in BOOLEAN, NEW v \in Resets(w, {s}, keepSetupInfo)
  PROVE  /\ Handling(v, s, O)
         /\ v.procedure.session # s /\ v.session[s] = Ready
         /\ w.procedure.session = s => v.procedure.session = NoSession
         /\ v.procedure.session # NoSession =>
              v.procedure.session \in O /\ v.session[v.procedure.session].state > 0
<1> DEFINE T == {s}
<1>1. T \in SUBSET Sessions /\ v \in Resets(w, T, keepSetupInfo) /\ s \in T /\ \A t : t \in T => t = s
  OBVIOUS
<1> HIDE DEF T
<1>2. WorldInv(w) /\ Frame(setup, w.setup) /\ HeldBut(w, s, O)
  BY DEF Handling
<1>3. /\ WorldInv(v) /\ Frame(w.setup, v.setup)
      /\ \A t \in T : v.session[t] = Ready
      /\ \A t \in Sessions \ T : v.session[t] = w.session[t]
      /\ w.procedure.session \in T => v.procedure = Unclaimed
      /\ w.procedure.session \notin T => v.procedure = w.procedure /\ v.setup = w.setup
  BY <1>1, <1>2, ResetsInv
<1>4. /\ v.procedure.session # s /\ v.session[s] = Ready /\ Frame(setup, v.setup)
      /\ w.procedure.session = s => v.procedure.session = NoSession
  BY <1>1, <1>2, <1>3, FrameTransitive, UnclaimedType, PairSetupAssumption
<1>5. v.procedure.session \in Sessions \cup {NoSession}
  BY <1>3 DEF WorldInv, Procedures
<1>6. v.procedure.session # NoSession =>
        v.procedure.session \in O /\ v.session[v.procedure.session].state > 0
  BY <1>1, <1>2, <1>3, <1>4, <1>5, UnclaimedType DEF HeldBut
<1>7. \A t \in Sessions : v.session[t].state \in {2, 3} => attempts < MaxTries
  BY <1>1, <1>3, UnclaimedType DEF Handling
<1> QED  BY <1>3, <1>4, <1>6, <1>7 DEF Handling, HeldBut

\* The end of a handler. If it has paired the accessory, the code is locked, and the owner has
\* stored its pairing.
LEMMA BecomesInv ==
  ASSUME NEW w, WorldInv(w), Becomes(w), platform' = platform,
         paired' => paired \/ (w.setup.lock /\ \A s \in Sessions : w.procedure.session = s => w.session[s].state = 5)
  PROVE  WorldInv(Now)'
<1>1. w \in Worlds
  BY DEF WorldInv, Worlds
<1>2. Now' = w
  BY <1>1 DEF Now, Becomes, Worlds
<1>3. Base(setup)'
  <2>1. setup' = w.setup
    BY DEF Becomes
  <2>2. Base(w.setup)
    BY DEF WorldInv, SetupInv
  <2> QED  BY <2>1, <2>2 DEF Base
<1>4. Shown(setup)'
  BY DEF Becomes, WorldInv, SetupInv, Shown
<1>5. paired' => \A s \in Sessions : w.procedure.session = s => w.session[s].state = 5
  BY DEF WorldInv
<1>6. (Now.setup)' = setup'
  BY DEF Now
<1>7. SetupInv(Now.setup)'
  BY <1>3, <1>4, <1>6 DEF SetupInv, Base, Shown
<1>8. /\ Now' \in [setup : Setups, procedure : Procedures, session : [Sessions -> SessionStates]]
      /\ (Now.procedure.session # NoSession => Now.setup.lock)'
      /\ \A s \in Sessions : w.session[s].state >= 2 =>
            w.procedure.session = s /\ w.setup.code = w.procedure.code
      /\ \A s \in Sessions : w.session[s].state \in {2, 3} => (w.setup.keep => Restores(w.procedure.flags))
      /\ \A s \in Sessions : w.session[s].state \in {4, 5} => w.procedure.proof = w.procedure.code
  BY <1>2 DEF WorldInv
<1> QED  BY <1>2, <1>5, <1>7, <1>8 DEF WorldInv

LEMMA HandledInv ==
  ASSUME IInv, NEW w, WorldInv(w), Frame(setup, w.setup), Becomes(w),
         platform' = platform, serverState' = serverState,
         paired' \in BOOLEAN, updating' \in BOOLEAN,
         paired' => paired \/ (w.setup.lock /\ \A s \in Sessions : w.procedure.session = s => w.session[s].state = 5),
         updating \/ paired' # paired => updating',
         attempts' \in Nat, attempts' <= MaxTries,
         \A s \in Sessions : w.session[s].state \in {2, 3} => attempts' < MaxTries,
         open' \subseteq platform.sessions, serverState \in {"Idle", "Drained"} => open' = {},
         transient' \subseteq open', pending' \in Sessions \cup {NoSession},
         w.procedure.session # NoSession =>
           w.procedure.session \in open' /\ w.session[w.procedure.session].state > 0
  PROVE  IInv'
<1>1. WorldInv(Now)'
  BY BecomesInv
<1>2. setup' = w.setup /\ procedure' = w.procedure /\ session' = w.session
  BY DEF Becomes
<1>3. setup' \in Setups /\ procedure' \in Procedures /\ session' \in [Sessions -> SessionStates]
  BY <1>2 DEF WorldInv
<1>4. SetupTypeOK'
  BY <1>3 DEF IInv, SetupTypeOK, Procedures, SessionStates
<1>5. OneProcedure'
  BY <1>2 DEF OneProcedure, WorldInv
<1>6. (serverState = "Idle" => ~setup.accessory)'
  BY <1>2 DEF IInv, Frame
<1>7. (serverState = "Idle" /\ setup.fault = "none" => ~setup.refresh)'
  BY <1>2 DEF IInv, Frame
<1>8. (setup.fault = "none" /\ serverState \in {"Running", "Stopping"}
         /\ platform.display /\ ~paired /\ ~updating => setup.code # NoCode)'
  <2> SUFFICES ASSUME setup'.fault = "none", serverState \in {"Running", "Stopping"},
                      platform.display, ~paired', ~updating'
               PROVE  w.setup.code # NoCode
    BY <1>2
  <2>1. ~paired /\ ~updating
    BY DEF IInv, SetupTypeOK
  <2>2. setup.fault = "none"
    BY <1>2 DEF Frame
  <2>3. setup.code # NoCode
    BY <2>1, <2>2 DEF IInv
  <2> QED  BY <2>1, <2>3 DEF Frame
<1>9. (\A s \in Sessions : session[s].state \in {2, 3} => attempts < MaxTries)'
  BY <1>2
<1> QED  BY <1>1, <1>4, <1>5, <1>6, <1>7, <1>8, <1>9 DEF IInv

-----------------------------------------------------------------------------
(* Writes. *)

LEMMA FaultInv ==
  ASSUME NEW S, SetupInv(S), NEW failure, NEW a \in KnownFailures
  PROVE  LET T == Unless(S, failure, a)
         IN /\ SetupInv(T) /\ Frame(S, T)
            /\ T.code = S.code /\ T.lock = S.lock /\ T.keep = S.keep
<1> DEFINE T == Unless(S, failure, a)
<1>1. S \in Setups
  BY DEF SetupInv, Base
<1>2. /\ T \in Setups /\ T.fault \in {S.fault, a} /\ (S.fault # "none" => T.fault = S.fault)
      /\ T.code = S.code /\ T.lock = S.lock /\ T.keep = S.keep /\ T.refresh = S.refresh
      /\ T.nfc = S.nfc /\ T.display = S.display /\ T.tag = S.tag /\ T.accessory = S.accessory
  BY <1>1 DEF Unless, Setups, KnownFailures, Assertions
<1> HIDE DEF T
<1>3. SetupInv(T)
  BY <1>2 DEF SetupInv, Base, Shown
<1> QED  BY <1>2, <1>3 DEF Frame, T

LEMMA WritesTypes ==
  ASSUME IInv, NEW s \in Sessions, Writes(s)
  PROVE  /\ SetupTypeOK /\ platform' = platform /\ serverState' = serverState /\ attempts' = attempts
         /\ open' \subseteq platform.sessions /\ serverState \notin {"Idle", "Drained"}
         /\ attempts \in Nat /\ attempts <= MaxTries
BY DEF IInv, SetupTypeOK, Writes

LEMMA WriteM1Inv ==
  ASSUME IInv, NEW s \in Sessions, NEW m \in Messages, WriteM1(s, m)
  PROVE  IInv'
<1>1. /\ Writes(s) /\ pending' \in Sessions \cup {NoSession}
      /\ m.state = 1 /\ m.method # "invalid"
      /\ paired' = paired /\ updating' = updating
  BY DEF WriteM1, Answers
<1>2. PICK w \in Arrives(s, m) :
        /\ w.session[s].state = 0
        /\ Becomes([w EXCEPT !.session[s] = [state |-> 1, method |-> m.method, error |-> FALSE],
                             !.procedure.flags = IF w.procedure.session = s THEN m.flags ELSE w.procedure.flags])
  BY DEF WriteM1
<1>3. m.method \in {"PairSetup", "PairSetupWithAuth"} /\ m.flags \in SUBSET {"Transient", "Split"}
  BY <1>1 DEF Messages
<1>4. Handling(w, s, open') /\ s \in open' /\ transient' \subseteq open'
  BY <1>1, <1>2, ArrivesHandled
<1>5. WorldInv(w) /\ w \in Worlds /\ Frame(setup, w.setup) /\ HeldBut(w, s, open')
  BY <1>4 DEF Handling, WorldInv, Worlds
<1> DEFINE first == [state |-> 1, method |-> m.method, error |-> FALSE]
           flags == IF w.procedure.session = s THEN m.flags ELSE w.procedure.flags
           v == [w EXCEPT !.session[s] = first, !.procedure.flags = flags]
<1>6. /\ v = [setup |-> w.setup, procedure |-> [w.procedure EXCEPT !.flags = flags],
              session |-> [w.session EXCEPT ![s] = first]]
      /\ v.setup = w.setup
      /\ v.procedure = [w.procedure EXCEPT !.flags = flags]
      /\ v.session = [w.session EXCEPT ![s] = first]
  <2> HIDE DEF first, flags
  <2> DEFINE u == [w EXCEPT !.session[s] = first]
  <2>1. u = [setup |-> w.setup, procedure |-> w.procedure, session |-> [w.session EXCEPT ![s] = first]]
    BY <1>5 DEF Worlds
  <2>2. v = [u EXCEPT !.procedure.flags = flags]
    OBVIOUS
  <2> HIDE DEF u, v
  <2>3. v = [setup |-> w.setup, procedure |-> [w.procedure EXCEPT !.flags = flags],
             session |-> [w.session EXCEPT ![s] = first]]
    BY <2>1, <2>2
  <2> QED  BY <2>3
<1>7. first \in SessionStates /\ first.state = 1
  BY <1>3 DEF SessionStates
<1>8. flags \in SUBSET {"Transient", "Split"} /\ (w.procedure.session # s => flags = w.procedure.flags)
  BY <1>3, <1>5 DEF Worlds, Procedures
<1>9. Becomes(v)
  BY <1>2
<1> HIDE DEF first, flags, v
<1>10. /\ v.procedure \in Procedures
       /\ v.procedure.session = w.procedure.session /\ v.procedure.flags = flags
       /\ v.procedure.code = w.procedure.code /\ v.procedure.proof = w.procedure.proof
  BY <1>5, <1>6, <1>8 DEF Worlds, Procedures
<1>11. /\ v.session \in [Sessions -> SessionStates]
       /\ v.session[s] = first
       /\ \A t \in Sessions \ {s} : v.session[t] = w.session[t]
  BY <1>5, <1>6, <1>7 DEF Worlds
<1>12. v \in Worlds
  BY <1>5, <1>6, <1>10, <1>11 DEF Worlds
<1>13. WorldInv(v)
  <2>1. \A t \in Sessions : v.session[t].state >= 2 => t # s /\ v.session[t] = w.session[t]
    BY <1>7, <1>11
  <2>2. \A t \in Sessions : v.session[t].state >= 2 =>
          /\ v.procedure.session = t /\ v.setup.code = v.procedure.code
          /\ flags = w.procedure.flags
    BY <1>5, <1>6, <1>8, <1>10, <2>1 DEF WorldInv
  <2>3. \A t \in Sessions : v.session[t].state \in {2, 3} => (v.setup.keep => Restores(v.procedure.flags))
    BY <1>5, <1>6, <1>10, <2>1, <2>2 DEF WorldInv
  <2>4. \A t \in Sessions : v.session[t].state \in {4, 5} => v.procedure.proof = v.procedure.code
    BY <1>5, <1>10, <2>1 DEF WorldInv
  <2>5. paired => \A t \in Sessions : v.procedure.session = t => v.session[t].state = 5
    BY <1>2, <1>5, <1>10, <1>11 DEF WorldInv
  <2>6. SetupInv(v.setup) /\ (v.procedure.session # NoSession => v.setup.lock)
    BY <1>5, <1>6, <1>10 DEF WorldInv
  <2> QED  BY <1>12, <2>2, <2>3, <2>4, <2>5, <2>6 DEF WorldInv, Worlds
<1>14. v.procedure.session # NoSession =>
         v.procedure.session \in open' /\ v.session[v.procedure.session].state > 0
  <2>1. v.procedure.session \in Sessions \cup {NoSession}
    BY <1>10 DEF Procedures
  <2> QED  BY <1>4, <1>5, <1>7, <1>10, <1>11, <2>1 DEF HeldBut
<1>15. \A t \in Sessions : v.session[t].state \in {2, 3} => attempts' < MaxTries
  BY <1>1, <1>4, <1>7, <1>11 DEF Handling, Writes
<1>16. Frame(setup, v.setup)
  BY <1>5, <1>6
<1>17. /\ paired' \in BOOLEAN /\ updating' \in BOOLEAN
  BY <1>1 DEF IInv, SetupTypeOK
<1> QED  BY <1>1, <1>4, <1>9, <1>13, <1>14, <1>15, <1>16, <1>17, WritesTypes, HandledInv

LEMMA WriteM3Inv ==
  ASSUME IInv, NEW s \in Sessions, NEW m \in Messages, WriteM3(s, m)
  PROVE  IInv'
<1>1. /\ Writes(s) /\ pending' \in Sessions \cup {NoSession}
      /\ m.state = 3
      /\ paired' = paired /\ updating' = updating
  BY DEF WriteM3, Answers
<1>2. PICK w \in Arrives(s, m) :
        /\ w.session[s].state = 2
        /\ Becomes([w EXCEPT !.session[s].state = 3, !.procedure.proof = m.proof])
  BY DEF WriteM3
<1>3. m.proof \in AllCodes \cup {NoCode}
  BY <1>1 DEF Messages
<1>4. Handling(w, s, open') /\ s \in open' /\ transient' \subseteq open'
  BY <1>1, <1>2, ArrivesHandled
<1>5. WorldInv(w) /\ w \in Worlds /\ Frame(setup, w.setup)
  BY <1>4 DEF Handling, WorldInv, Worlds
<1> DEFINE v == [w EXCEPT !.session[s].state = 3, !.procedure.proof = m.proof]
           third == [w.session[s] EXCEPT !.state = 3]
<1>6. /\ v = [setup |-> w.setup, procedure |-> [w.procedure EXCEPT !.proof = m.proof],
              session |-> [w.session EXCEPT ![s] = third]]
      /\ v.setup = w.setup
      /\ v.procedure = [w.procedure EXCEPT !.proof = m.proof]
      /\ v.session = [w.session EXCEPT ![s] = third]
  <2> DEFINE u == [w EXCEPT !.session[s].state = 3]
  <2>1. u = [setup |-> w.setup, procedure |-> w.procedure, session |-> [w.session EXCEPT ![s] = third]]
    BY <1>5 DEF Worlds
  <2>2. v = [u EXCEPT !.procedure.proof = m.proof]
    OBVIOUS
  <2> HIDE DEF u, v, third
  <2>3. v = [setup |-> w.setup, procedure |-> [w.procedure EXCEPT !.proof = m.proof],
             session |-> [w.session EXCEPT ![s] = third]]
    BY <2>1, <2>2
  <2> QED  BY <2>3
<1>7. third \in SessionStates /\ third.state = 3
  BY <1>5 DEF Worlds, SessionStates
<1>8. Becomes(v)
  BY <1>2
<1> HIDE DEF third, v
<1>9. /\ v.procedure \in Procedures
      /\ v.procedure.session = w.procedure.session /\ v.procedure.flags = w.procedure.flags
      /\ v.procedure.code = w.procedure.code
  BY <1>3, <1>5, <1>6 DEF Worlds, Procedures
<1>10. /\ v.session \in [Sessions -> SessionStates]
       /\ v.session[s] = third
       /\ \A t \in Sessions \ {s} : v.session[t] = w.session[t]
  BY <1>5, <1>6, <1>7 DEF Worlds
<1>11. v \in Worlds
  BY <1>5, <1>6, <1>9, <1>10 DEF Worlds
<1>12. w.procedure.session = s /\ w.setup.code = w.procedure.code /\ ~paired
       /\ (w.setup.keep => Restores(w.procedure.flags))
  BY <1>2, <1>5 DEF WorldInv
<1>13. \A t \in Sessions : v.session[t].state >= 2 => t = s
  BY <1>5, <1>10, <1>12 DEF WorldInv
<1>14. WorldInv(v)
  <2>1. \A t \in Sessions : v.session[t].state \in {2, 3, 4, 5} => t = s /\ v.session[t].state = 3
    BY <1>7, <1>10, <1>13
  <2>2. SetupInv(v.setup) /\ v.setup.lock
    BY <1>5, <1>6, <1>12, PairSetupAssumption DEF WorldInv
  <2> QED  BY <1>6, <1>9, <1>11, <1>12, <1>13, <2>1, <2>2 DEF WorldInv, Worlds
<1>15. v.procedure.session \in open' /\ v.session[v.procedure.session].state > 0
  BY <1>4, <1>7, <1>9, <1>10, <1>12
<1>16. attempts' < MaxTries
  BY <1>1, <1>2, <1>4 DEF Handling, Writes
<1>17. Frame(setup, v.setup)
  BY <1>5, <1>6
<1>18. /\ paired' \in BOOLEAN /\ updating' \in BOOLEAN
  BY <1>1 DEF IInv, SetupTypeOK
<1> QED  BY <1>1, <1>4, <1>8, <1>14, <1>15, <1>16, <1>17, <1>18, WritesTypes, HandledInv

LEMMA WriteM5Inv ==
  ASSUME IInv, NEW s \in Sessions, NEW m \in Messages, WriteM5(s, m)
  PROVE  IInv'
<1>1. /\ Writes(s) /\ pending' \in Sessions \cup {NoSession} /\ m.state = 5
  BY DEF WriteM5, Answers
<1>2. PICK w \in Arrives(s, m), stored \in BOOLEAN :
        /\ w.session[s].state = 4
        /\ Becomes([w EXCEPT !.session[s].state = 5, !.session[s].error = ~m.good,
                             !.setup = Unless(w.setup, m.good /\ ~stored, "storage")])
        /\ paired' = (paired \/ (m.good /\ stored))
        /\ updating' = (updating \/ paired' # paired)
  BY DEF WriteM5
<1>3. m.good \in BOOLEAN
  BY <1>1 DEF Messages
<1>4. Handling(w, s, open') /\ s \in open' /\ transient' \subseteq open'
  BY <1>1, <1>2, ArrivesHandled
<1>5. WorldInv(w) /\ w \in Worlds /\ Frame(setup, w.setup)
  BY <1>4 DEF Handling, WorldInv, Worlds
<1> DEFINE S == Unless(w.setup, m.good /\ ~stored, "storage")
           v == [w EXCEPT !.session[s].state = 5, !.session[s].error = ~m.good, !.setup = S]
           fourth == [w.session[s] EXCEPT !.state = 5]
           fifth == [fourth EXCEPT !.error = ~m.good]
<1>6. /\ v.setup = S
      /\ v.procedure = w.procedure
      /\ v.session = [[w.session EXCEPT ![s] = fourth] EXCEPT ![s] = fifth]
      /\ v = [setup |-> v.setup, procedure |-> v.procedure, session |-> v.session]
  <2> DEFINE u1 == [w EXCEPT !.session[s].state = 5]
             u2 == [u1 EXCEPT !.session[s].error = ~m.good]
             one == [w.session EXCEPT ![s] = fourth]
  <2> HIDE DEF S
  <2>1. u1 = [setup |-> w.setup, procedure |-> w.procedure, session |-> one]
    BY <1>5 DEF Worlds
  <2>2. one[s] = fourth
    BY <1>5 DEF Worlds
  <2>3. v = [u2 EXCEPT !.setup = S]
    OBVIOUS
  <2> HIDE DEF u1, one, fourth
  <2>4. u2 = [setup |-> w.setup, procedure |-> w.procedure, session |-> [one EXCEPT ![s] = fifth]]
    BY <2>1, <2>2
  <2> HIDE DEF u2, v, fifth
  <2>5. v = [setup |-> S, procedure |-> w.procedure, session |-> [one EXCEPT ![s] = fifth]]
    BY <2>3, <2>4
  <2> QED  BY <2>5 DEF one
<1>7. fourth \in SessionStates /\ fifth \in SessionStates /\ fifth.state = 5
  <2>1. fourth \in SessionStates /\ fourth.state = 5
    BY <1>5 DEF Worlds, SessionStates
  <2> HIDE DEF fourth
  <2> QED  BY <1>3, <2>1 DEF SessionStates
<1>8. Becomes(v)
  BY <1>2
<1>9. /\ SetupInv(S) /\ Frame(w.setup, S)
      /\ S.code = w.setup.code /\ S.lock = w.setup.lock /\ S.keep = w.setup.keep
  BY <1>5, FaultInv DEF WorldInv, KnownFailures
<1> HIDE DEF S, fourth, fifth, v
<1>10. /\ v.session \in [Sessions -> SessionStates]
       /\ v.session[s] = fifth
       /\ \A t \in Sessions \ {s} : v.session[t] = w.session[t]
  BY <1>5, <1>6, <1>7 DEF Worlds
<1>11. v \in Worlds
  BY <1>5, <1>6, <1>9, <1>10 DEF Worlds, SetupInv, Base
<1>12. w.procedure.session = s /\ w.setup.code = w.procedure.code
       /\ w.procedure.proof = w.procedure.code /\ w.setup.lock
  BY <1>2, <1>5, PairSetupAssumption DEF WorldInv
<1>13. \A t \in Sessions : v.session[t].state >= 2 => t = s
  BY <1>5, <1>10, <1>12 DEF WorldInv
<1>14. WorldInv(v)
  <2>1. \A t \in Sessions : v.session[t].state \in {2, 3, 4, 5} => t = s /\ v.session[t].state = 5
    BY <1>7, <1>10, <1>13
  <2>2. \A t \in Sessions : v.procedure.session = t => v.session[t].state = 5
    BY <1>6, <1>7, <1>10, <1>12
  <2> QED  BY <1>6, <1>9, <1>11, <1>12, <1>13, <2>1, <2>2 DEF WorldInv, Worlds
<1>15. v.procedure.session \in open' /\ v.session[v.procedure.session].state > 0
       /\ v.setup.lock
       /\ \A t \in Sessions : v.procedure.session = t => v.session[t].state = 5
  BY <1>4, <1>6, <1>7, <1>9, <1>10, <1>12
<1>16. \A t \in Sessions : v.session[t].state \in {2, 3} => attempts' < MaxTries
  BY <1>7, <1>10, <1>13
<1>17. Frame(setup, v.setup)
  BY <1>5, <1>6, <1>9, FrameTransitive
<1>18. paired' \in BOOLEAN /\ updating' \in BOOLEAN /\ (updating \/ paired' # paired => updating')
  BY <1>2 DEF IInv, SetupTypeOK
<1> QED  BY <1>1, <1>4, <1>8, <1>14, <1>15, <1>16, <1>17, <1>18, WritesTypes, HandledInv

\* A handler that ends with the reset of its session.
LEMMA ResetInv ==
  ASSUME IInv, NEW s \in Sessions, NEW w, Handling(w, s, open'),
         NEW keepSetupInfo \in BOOLEAN, NEW v \in Resets(w, {s}, keepSetupInfo), Becomes(v),
         platform' = platform, serverState' = serverState, paired' = paired, updating' = updating,
         attempts' \in Nat, attempts' <= MaxTries,
         attempts' <= attempts \/ w.procedure.session = s,
         open' \subseteq platform.sessions, serverState \in {"Idle", "Drained"} => open' = {},
         transient' \subseteq open', pending' \in Sessions \cup {NoSession}
  PROVE  IInv'
<1>1. SetupTypeOK /\ attempts \in Nat
  BY DEF IInv, SetupTypeOK
<1>2. /\ Handling(v, s, open')
      /\ w.procedure.session = s => v.procedure.session = NoSession
      /\ v.procedure.session # NoSession =>
              v.procedure.session \in open' /\ v.session[v.procedure.session].state > 0
  BY <1>1, ResetsHandled
<1>3. WorldInv(v) /\ Frame(setup, v.setup)
  BY <1>2 DEF Handling
<1>4. \A t \in Sessions : v.session[t].state \in {2, 3} => attempts' < MaxTries
  <2> SUFFICES ASSUME NEW t \in Sessions, v.session[t].state \in {2, 3}
               PROVE  attempts' < MaxTries
    OBVIOUS
  <2>1. v.procedure.session # NoSession
    BY <1>3, PairSetupAssumption DEF WorldInv
  <2>2. attempts' <= attempts /\ attempts < MaxTries
    BY <1>2, <2>1 DEF Handling
  <2> QED  BY <1>1, <2>2, PairSetupAssumption
<1>5. paired' \in BOOLEAN /\ updating' \in BOOLEAN
  BY DEF IInv, SetupTypeOK
<1> QED  BY <1>2, <1>3, <1>4, <1>5, HandledInv

LEMMA WriteUnexpectedInv ==
  ASSUME IInv, NEW s \in Sessions, NEW m \in Messages, WriteUnexpected(s, m)
  PROVE  IInv'
<1> DEFINE keep == FALSE
<1>0. PICK w \in Arrives(s, m) : \E v \in Resets(w, {s}, keep) : Becomes(v)
  BY DEF WriteUnexpected
<1>1. PICK v \in Resets(w, {s}, keep) : Becomes(v)
  BY <1>0
<1>2. keep \in BOOLEAN
  OBVIOUS
<1> HIDE DEF keep
<1>3. /\ Writes(s) /\ pending' = NoSession
      /\ paired' = paired /\ updating' = updating
  BY DEF WriteUnexpected
<1>4. Handling(w, s, open') /\ transient' \subseteq open'
  BY <1>1, <1>3, ArrivesHandled
<1>5. /\ platform' = platform /\ serverState' = serverState /\ attempts' = attempts
      /\ open' \subseteq platform.sessions /\ serverState \notin {"Idle", "Drained"}
      /\ attempts \in Nat /\ attempts <= MaxTries
  BY <1>3, WritesTypes
<1>6. attempts' <= attempts
  BY <1>5
<1> QED  BY <1>1, <1>2, <1>3, <1>4, <1>5, <1>6, ResetInv

LEMMA WriteUnparsableInv ==
  ASSUME IInv, NEW s \in Sessions, WriteUnparsable(s)
  PROVE  IInv'
<1> DEFINE keep == FALSE
           T == (transient \cap LookedAt(s)) \cup {s}
<1>1. PICK v \in Resets(Now, T, keep) : Becomes(v)
  BY DEF WriteUnparsable
<1>2. /\ Writes(s) /\ pending' = NoSession
      /\ paired' = paired /\ updating' = updating
  BY DEF WriteUnparsable
<1>3. /\ SetupTypeOK /\ platform' = platform /\ serverState' = serverState /\ attempts' = attempts
      /\ open' \subseteq platform.sessions /\ serverState \notin {"Idle", "Drained"}
      /\ attempts \in Nat /\ attempts <= MaxTries
  BY <1>2, WritesTypes
<1>4. /\ T \in SUBSET Sessions /\ s \in T /\ transient \cap LookedAt(s) \subseteq T
      /\ keep \in BOOLEAN
  BY <1>3, SetupInfoAssumption DEF SetupTypeOK
<1>5. WorldInv(Now) /\ Now.setup = setup /\ Now.procedure = procedure /\ Now.session = session
  BY DEF IInv, Now
<1>6. transient' \subseteq open' /\ open \ T \subseteq open'
  BY <1>2, <1>3, <1>4 DEF Writes, SetupTypeOK
<1> HIDE DEF keep, T
<1>7. /\ WorldInv(v) /\ Frame(Now.setup, v.setup)
      /\ \A t \in T : v.session[t] = Ready
      /\ \A t \in Sessions \ T : v.session[t] = Now.session[t]
      /\ Now.procedure.session \in T => v.procedure = Unclaimed
      /\ Now.procedure.session \notin T => v.procedure = Now.procedure /\ v.setup = Now.setup
  BY <1>1, <1>3, <1>4, <1>5, ResetsInv, SMTT(60)
<1>8. v.procedure.session # NoSession =>
        v.procedure.session \in open' /\ v.session[v.procedure.session].state > 0
  <2> SUFFICES ASSUME v.procedure.session # NoSession
               PROVE  v.procedure.session \in open' /\ v.session[v.procedure.session].state > 0
    OBVIOUS
  <2>1. procedure.session \notin T /\ v.procedure = procedure
    BY <1>5, <1>7, UnclaimedType
  <2>2. procedure.session \in open /\ session[procedure.session].state > 0
    BY <2>1 DEF IInv, OneProcedure
  <2>3. procedure.session \in Sessions
    BY <1>3, <2>1 DEF SetupTypeOK
  <2> QED  BY <1>5, <1>6, <1>7, <2>1, <2>2, <2>3
<1>9. \A t \in Sessions : v.session[t].state \in {2, 3} => attempts' < MaxTries
  BY <1>3, <1>5, <1>7, UnclaimedType DEF IInv
<1>10. Frame(setup, v.setup) /\ paired' \in BOOLEAN /\ updating' \in BOOLEAN
  BY <1>2, <1>3, <1>5, <1>7 DEF SetupTypeOK
<1> QED  BY <1>1, <1>2, <1>3, <1>6, <1>7, <1>8, <1>9, <1>10, HandledInv

-----------------------------------------------------------------------------
(* Reads. *)

LEMMA ReadsTypes ==
  ASSUME IInv, NEW s \in Sessions, Reads(s)
  PROVE  /\ SetupTypeOK /\ Handling(Now, s, open')
         /\ platform' = platform /\ serverState' = serverState /\ paired' = paired /\ updating' = updating
         /\ open' = open /\ open' \subseteq platform.sessions /\ s \in open'
         /\ serverState \in {"Idle", "Drained"} => open' = {}
         /\ transient \subseteq open'
         /\ pending' \in Sessions \cup {NoSession}
         /\ attempts \in Nat /\ attempts <= MaxTries
<1>1. open' = open /\ s \in open /\ Handling(Now, s, open)
  BY NowHandled DEF Reads, MayRead
<1> QED  BY <1>1 DEF IInv, SetupTypeOK, Reads

\* The answer ends the procedure of s.
LEMMA ReadsResetInv ==
  ASSUME IInv, NEW s \in Sessions, Reads(s),
         \E v \in Resets(Now, {s}, FALSE) : Becomes(v),
         attempts' = attempts, transient' \subseteq transient
  PROVE  IInv'
<1> DEFINE keep == FALSE
<1>1. PICK v \in Resets(Now, {s}, keep) : Becomes(v)
  OBVIOUS
<1>2. keep \in BOOLEAN
  OBVIOUS
<1> HIDE DEF keep
<1>3. /\ SetupTypeOK /\ Handling(Now, s, open')
      /\ platform' = platform /\ serverState' = serverState /\ paired' = paired /\ updating' = updating
      /\ open' \subseteq platform.sessions
      /\ serverState \in {"Idle", "Drained"} => open' = {}
      /\ transient' \subseteq open' /\ pending' \in Sessions \cup {NoSession}
      /\ attempts' \in Nat /\ attempts' <= MaxTries
  BY ReadsTypes
<1>4. attempts' <= attempts
  BY <1>3
<1> QED  BY <1>1, <1>2, <1>3, <1>4, ResetInv

LEMMA ReadsLastInv ==
  ASSUME IInv, NEW s \in Sessions, ReadsLast(s)
  PROVE  IInv'
BY ReadsResetInv DEF ReadsLast

LEMMA ReadM2Inv ==
  ASSUME IInv, NEW s \in Sessions, ReadM2(s)
  PROVE  IInv'
<1>1. Reads(s) /\ attempts' = attempts /\ transient' = transient /\ session[s].state = 1
  BY DEF ReadM2
<1>2. CASE RefusesM2(s)
  <2>1. \E v \in Resets(Now, {s}, FALSE) : Becomes(v)
    BY <1>2 DEF ReadM2
  <2> QED  BY <1>1, <2>1, ReadsResetInv
<1>3. CASE ~RefusesM2(s)
  <2>1. PICK S \in GetSetupInfo(setup, RestoresM2(s)) :
          Becomes([Now EXCEPT !.setup = S, !.procedure.code = S.code, !.session[s].state = 2])
    BY <1>3 DEF ReadM2
  <2>2. /\ SetupTypeOK /\ Handling(Now, s, open')
        /\ platform' = platform /\ serverState' = serverState /\ paired' = paired /\ updating' = updating
        /\ open' \subseteq platform.sessions /\ s \in open'
        /\ serverState \in {"Idle", "Drained"} => open' = {}
        /\ transient' \subseteq open' /\ pending' \in Sessions \cup {NoSession}
        /\ attempts' \in Nat /\ attempts' <= MaxTries
    BY <1>1, ReadsTypes
  <2>3. /\ procedure.session = s /\ ~paired /\ attempts < MaxTries
    BY <1>3, <2>2, PairSetupAssumption DEF RefusesM2, SetupTypeOK
  <2>4. /\ WorldInv(Now) /\ Now \in Worlds
        /\ Now.setup = setup /\ Now.procedure = procedure /\ Now.session = session
    BY DEF IInv, WorldInv, Worlds, Now
  <2>5. SetupInv(setup) /\ setup.lock
    BY <2>3, <2>4, PairSetupAssumption DEF WorldInv
  <2>6. RestoresM2(s) \in BOOLEAN /\ (RestoresM2(s) => Restores(procedure.flags))
    BY DEF RestoresM2, Restores
  <2>7. /\ SetupInv(S) /\ Frame(setup, S) /\ S.code # NoCode /\ S.lock
        /\ S.keep => Restores(procedure.flags)
    <3> DEFINE restores == RestoresM2(s)
    <3>1. restores \in BOOLEAN /\ S \in GetSetupInfo(setup, restores) /\ (restores => Restores(procedure.flags))
      BY <2>1, <2>6
    <3> HIDE DEF restores
    <3> QED  BY <2>2, <2>3, <2>5, <3>1, GetSetupInfoInv
  <2> DEFINE v == [Now EXCEPT !.setup = S, !.procedure.code = S.code, !.session[s].state = 2]
             second == [session[s] EXCEPT !.state = 2]
  <2>8. /\ v = [setup |-> S, procedure |-> [procedure EXCEPT !.code = S.code],
                session |-> [session EXCEPT ![s] = second]]
        /\ v.setup = S
        /\ v.procedure = [procedure EXCEPT !.code = S.code]
        /\ v.session = [session EXCEPT ![s] = second]
    <3> DEFINE u0 == [Now EXCEPT !.setup = S]
               u == [u0 EXCEPT !.procedure.code = S.code]
    <3>0. u0 = [setup |-> S, procedure |-> procedure, session |-> session]
      BY DEF Now
    <3> HIDE DEF u0
    <3>1. u = [setup |-> S, procedure |-> [procedure EXCEPT !.code = S.code], session |-> session]
      BY <3>0
    <3> USE DEF u0
    <3>2. v = [u EXCEPT !.session[s].state = 2]
      OBVIOUS
    <3> HIDE DEF u, v
    <3>3. v = [setup |-> S, procedure |-> [procedure EXCEPT !.code = S.code],
               session |-> [session EXCEPT ![s] = second]]
      BY <3>1, <3>2
    <3> QED  BY <3>3
  <2>9. second \in SessionStates /\ second.state = 2
    BY <2>4 DEF Worlds, SessionStates
  <2>10. Becomes(v)
    BY <2>1
  <2> HIDE DEF second, v
  <2>11. S \in Setups /\ S.code \in AllCodes \cup {NoCode}
    BY <2>7 DEF SetupInv, Base, Setups
  <2>12. /\ v.procedure \in Procedures
         /\ v.procedure.session = s /\ v.procedure.flags = procedure.flags
         /\ v.procedure.code = S.code
    BY <2>3, <2>4, <2>8, <2>11 DEF Worlds, Procedures
  <2>13. /\ v.session \in [Sessions -> SessionStates]
         /\ v.session[s] = second
         /\ \A t \in Sessions \ {s} : v.session[t] = session[t]
    BY <2>4, <2>8, <2>9 DEF Worlds
  <2>14. v \in Worlds
    BY <2>8, <2>11, <2>12, <2>13 DEF Worlds
  <2>15. \A t \in Sessions : v.session[t].state >= 2 => t = s
    BY <2>3, <2>4, <2>13 DEF WorldInv
  <2>16. WorldInv(v)
    <3>1. \A t \in Sessions : v.session[t].state \in {2, 3, 4, 5} => t = s /\ v.session[t].state = 2
      BY <2>9, <2>13, <2>15
    <3> QED  BY <2>3, <2>7, <2>8, <2>12, <2>14, <2>15, <3>1 DEF WorldInv, Worlds
  <2>17. v.procedure.session \in open' /\ v.session[v.procedure.session].state > 0
    BY <2>2, <2>9, <2>12, <2>13
  <2>18. attempts' < MaxTries
    BY <1>1, <2>3
  <2>19. Frame(setup, v.setup) /\ paired' \in BOOLEAN /\ updating' \in BOOLEAN
    BY <2>2, <2>7, <2>8 DEF SetupTypeOK
  <2> QED  BY <2>2, <2>10, <2>16, <2>17, <2>18, <2>19, HandledInv
<1> QED  BY <1>2, <1>3

LEMMA ReadErrorInv ==
  ASSUME IInv, NEW s \in Sessions, ReadError(s)
  PROVE  IInv'
BY ReadsLastInv DEF ReadError

\* The code whose verifier M4 needs is the one of M2.
LEMMA ReadM4Setup ==
  ASSUME IInv, NEW s \in Sessions, session[s].state = 3,
         NEW S \in GetSetupInfo(setup, Restores(procedure.flags))
  PROVE  S = setup /\ procedure.session = s /\ ~paired /\ setup.lock /\ setup.code = procedure.code
<1>1. /\ SetupTypeOK /\ WorldInv(Now)
      /\ Now.setup = setup /\ Now.procedure = procedure /\ Now.session = session
  BY DEF IInv, Now
<1>2. /\ procedure.session = s /\ setup.code = procedure.code
      /\ setup.keep => Restores(procedure.flags)
  BY <1>1 DEF WorldInv
<1>3. SetupInv(setup) /\ setup.lock /\ ~paired
  BY <1>1, <1>2, PairSetupAssumption DEF WorldInv
<1> DEFINE restores == Restores(procedure.flags)
<1>4. restores \in BOOLEAN
  BY DEF Restores
<1>5. S \in GetSetupInfo(setup, restores) /\ (setup.keep => restores)
  BY <1>2
<1> HIDE DEF restores
<1>6. S = setup
  BY <1>1, <1>3, <1>4, <1>5, GetSetupInfoInv
<1> QED  BY <1>2, <1>3, <1>6

\* M4 is sent: the session waits for M5.
LEMMA ReadM4Sent ==
  ASSUME IInv, NEW s \in Sessions, session[s].state = 3, Reads(s), procedure.session = s, ~paired,
         setup.lock, setup.code = procedure.code,
         procedure.proof = procedure.code, attempts' = 0, transient' = transient,
         Becomes([Now EXCEPT !.session[s].state = 4])
  PROVE  IInv'
<1>1. /\ SetupTypeOK /\ Handling(Now, s, open')
      /\ platform' = platform /\ serverState' = serverState /\ paired' = paired /\ updating' = updating
      /\ open' \subseteq platform.sessions /\ s \in open'
      /\ serverState \in {"Idle", "Drained"} => open' = {}
      /\ transient' \subseteq open' /\ pending' \in Sessions \cup {NoSession}
  BY ReadsTypes
<1>2. /\ WorldInv(Now) /\ Now \in Worlds
      /\ Now.setup = setup /\ Now.procedure = procedure /\ Now.session = session
  BY DEF IInv, WorldInv, Worlds, Now
<1> DEFINE v == [Now EXCEPT !.session[s].state = 4]
           fourth == [session[s] EXCEPT !.state = 4]
<1>3. /\ v = [setup |-> setup, procedure |-> procedure, session |-> [session EXCEPT ![s] = fourth]]
      /\ v.setup = setup /\ v.procedure = procedure /\ v.session = [session EXCEPT ![s] = fourth]
  BY DEF Now
<1>4. fourth \in SessionStates /\ fourth.state = 4
  BY <1>2 DEF Worlds, SessionStates
<1> HIDE DEF fourth, v
<1>5. /\ v.session \in [Sessions -> SessionStates]
      /\ v.session[s] = fourth
      /\ \A t \in Sessions \ {s} : v.session[t] = session[t]
  BY <1>2, <1>3, <1>4 DEF Worlds
<1>6. v \in Worlds
  BY <1>2, <1>3, <1>5 DEF Worlds
<1>7. \A t \in Sessions : v.session[t].state >= 2 => t = s
  BY <1>2, <1>5 DEF WorldInv
<1>8. \A t \in Sessions : v.session[t].state \in {2, 3, 4, 5} => t = s /\ v.session[t].state = 4
  BY <1>4, <1>5, <1>7
<1>9. WorldInv(v)
  BY <1>2, <1>3, <1>6, <1>7, <1>8 DEF WorldInv, Worlds
<1>10. v.procedure.session \in open' /\ v.session[v.procedure.session].state > 0
  BY <1>1, <1>3, <1>4, <1>5
<1>11. \A t \in Sessions : v.session[t].state \notin {2, 3}
  BY <1>8
<1>12. Frame(setup, v.setup) /\ paired' \in BOOLEAN /\ updating' \in BOOLEAN
  BY <1>1, <1>3, FrameReflexive DEF SetupTypeOK
<1>13. attempts' \in Nat /\ attempts' <= MaxTries
  BY PairSetupAssumption
<1>14. Becomes(v)
  BY DEF v
<1> QED  BY <1>1, <1>9, <1>10, <1>11, <1>12, <1>13, <1>14, HandledInv

LEMMA ReadM4Inv ==
  ASSUME IInv, NEW s \in Sessions, ReadM4(s)
  PROVE  IInv'
<1>1. Reads(s) /\ session[s].state = 3
  BY DEF ReadM4
<1>2. PICK S \in GetSetupInfo(setup, Restores(procedure.flags)) :
        RejectsProof(s, [Now EXCEPT !.setup = S]) \/ AcceptsProof(s, [Now EXCEPT !.setup = S])
  BY DEF ReadM4
<1>3. S = setup /\ procedure.session = s /\ ~paired /\ setup.lock /\ setup.code = procedure.code
  BY <1>1, <1>2, ReadM4Setup
<1>4. [Now EXCEPT !.setup = S] = Now /\ Now.procedure = procedure /\ Now.setup = setup
  BY <1>3 DEF Now
<1>5. RejectsProof(s, Now) \/ AcceptsProof(s, Now)
  BY <1>2, <1>4
<1>6. /\ SetupTypeOK /\ Handling(Now, s, open')
      /\ platform' = platform /\ serverState' = serverState /\ paired' = paired /\ updating' = updating
      /\ open' \subseteq platform.sessions /\ s \in open'
      /\ serverState \in {"Idle", "Drained"} => open' = {}
      /\ transient \subseteq open' /\ pending' \in Sessions \cup {NoSession}
  BY <1>1, ReadsTypes
<1>7. attempts \in Nat /\ attempts < MaxTries
  BY <1>1, <1>6 DEF IInv, SetupTypeOK
\* The procedure ends, with the code kept or not.
<1>8. ASSUME NEW keep \in BOOLEAN, NEW v \in Resets(Now, {s}, keep), Becomes(v),
             attempts' \in {0, attempts, attempts + 1}, transient' \subseteq open'
      PROVE  IInv'
  <2>1. attempts' \in Nat /\ attempts' <= MaxTries
    BY <1>7, <1>8, PairSetupAssumption
  <2> QED  BY <1>3, <1>4, <1>6, <1>8, <2>1, ResetInv
<1>9. CASE RejectsProof(s, Now)
  <2> DEFINE keep == FALSE
  <2>1. PICK v \in Resets(Now, {s}, keep) : Becomes(v)
    BY <1>9 DEF RejectsProof
  <2>2. attempts' \in {0, attempts, attempts + 1} /\ transient' \subseteq open'
    BY <1>6, <1>7, <1>9 DEF RejectsProof
  <2>3. keep \in BOOLEAN
    OBVIOUS
  <2> HIDE DEF keep
  <2> QED  BY <1>8, <2>1, <2>2, <2>3
<1>10. CASE AcceptsProof(s, Now)
  <2>1. Proves(setup) /\ attempts' = 0
    BY <1>4, <1>10 DEF AcceptsProof
  <2> DEFINE keeps == "Split" \in procedure.flags
             ends == FALSE
  <2>2. \/ Becomes([Now EXCEPT !.session[s].state = 4]) /\ transient' = transient
        \/ (\E v \in Resets(Now, {s}, keeps) : Becomes(v)) /\ transient' = transient \cup {s}
        \/ (\E v \in Resets(Now, {s}, ends) : Becomes(v)) /\ transient' = transient
    BY <1>10 DEF AcceptsProof
  <2>3. keeps \in BOOLEAN /\ ends \in BOOLEAN
    OBVIOUS
  <2> HIDE DEF keeps, ends
  <2>4. CASE Becomes([Now EXCEPT !.session[s].state = 4]) /\ transient' = transient
    BY <1>1, <1>3, <2>1, <2>4, ReadM4Sent DEF Proves
  <2>5. CASE (\E v \in Resets(Now, {s}, keeps) : Becomes(v)) /\ transient' = transient \cup {s}
    <3>1. PICK v \in Resets(Now, {s}, keeps) : Becomes(v)
      BY <2>5
    <3> QED  BY <1>6, <1>8, <2>1, <2>3, <2>5, <3>1
  <2>6. CASE (\E v \in Resets(Now, {s}, ends) : Becomes(v)) /\ transient' = transient
    <3>1. PICK v \in Resets(Now, {s}, ends) : Becomes(v)
      BY <2>6
    <3> QED  BY <1>6, <1>8, <2>1, <2>3, <2>6, <3>1
  <2> QED  BY <2>2, <2>4, <2>5, <2>6
<1> QED  BY <1>5, <1>9, <1>10

-----------------------------------------------------------------------------
(* Connections, timers, calls of the application and restarts. *)

LEMMA NowWorld ==
  ASSUME IInv
  PROVE  /\ SetupTypeOK /\ WorldInv(Now) /\ Now \in Worlds
         /\ Now.setup = setup /\ Now.procedure = procedure /\ Now.session = session
         /\ Now = [setup |-> setup, procedure |-> procedure, session |-> session]
         /\ SetupInv(setup)
         /\ \A s \in Sessions : session[s].state >= 2 => procedure.session = s
         /\ open = {} => procedure.session = NoSession
<1>1. /\ Now.setup = setup /\ Now.procedure = procedure /\ Now.session = session
      /\ Now = [setup |-> setup, procedure |-> procedure, session |-> session]
  BY DEF Now
<1> QED  BY <1>1 DEF IInv, WorldInv, Worlds, OneProcedure

\* The server is stopped, or started anew, with no session left.
LEMMA StopsInv ==
  ASSUME IInv, NEW v, WorldInv(v), Becomes(v), v.procedure.session = NoSession,
         ~v.setup.accessory, ~v.setup.refresh,
         platform' = platform, paired' = paired, attempts' = attempts, serverState' = "Idle",
         open' = {}, transient' = {}, updating' \in BOOLEAN, pending' \in Sessions \cup {NoSession}
  PROVE  IInv'
<1>1. WorldInv(Now)'
  BY BecomesInv
<1>2. setup' = v.setup /\ procedure' = v.procedure /\ session' = v.session
  BY DEF Becomes
<1>3. setup' \in Setups /\ procedure' \in Procedures /\ session' \in [Sessions -> SessionStates]
  BY <1>2 DEF WorldInv
<1>4. SetupTypeOK'
  BY <1>3 DEF IInv, SetupTypeOK, Procedures, SessionStates
<1>5. \A s \in Sessions : session'[s].state < 2
  <2> SUFFICES ASSUME NEW s \in Sessions PROVE session'[s].state < 2
    OBVIOUS
  <2>1. session'[s].state \in 0..5
    BY <1>3 DEF SessionStates
  <2>2. ~(v.session[s].state >= 2)
    BY PairSetupAssumption DEF WorldInv
  <2> QED  BY <1>2, <2>1, <2>2
<1>6. OneProcedure'
  BY <1>2 DEF OneProcedure, WorldInv
<1>7. (\A s \in Sessions : session[s].state \in {2, 3} => attempts < MaxTries)'
  BY <1>5
<1>8. attempts' <= MaxTries
  BY DEF IInv
<1> QED  BY <1>1, <1>2, <1>4, <1>6, <1>7, <1>8 DEF IInv

\* Only the setup code changes, and the state of the server.
LEMMA ChangesInv ==
  ASSUME IInv, NEW T, setup' = T, SetupInv(T), procedure.session = NoSession \/ Keeps(setup, T),
         UNCHANGED <<platform, paired, open, attempts, procedure, session, transient, pending>>,
         serverState' \in {"Idle", "Running", "Stopping", "Drained"}, updating' \in BOOLEAN,
         serverState' \in {"Idle", "Drained"} => open = {},
         serverState' = "Idle" => ~T.accessory,
         serverState' = "Idle" /\ T.fault = "none" => ~T.refresh,
         T.fault = "none" /\ serverState' \in {"Running", "Stopping"}
           /\ platform.display /\ ~paired /\ ~updating' => T.code # NoCode
  PROVE  IInv'
<1> DEFINE v == [setup |-> T, procedure |-> procedure, session |-> session]
<1>1. /\ WorldInv(Now) /\ Now \in Worlds
      /\ Now.setup = setup /\ Now.procedure = procedure /\ Now.session = session
  BY NowWorld
<1>2. v.setup = T /\ v.procedure = procedure /\ v.session = session /\ Becomes(v)
  BY DEF Becomes
<1>3. T \in Setups
  BY DEF SetupInv, Base
<1>4. v \in Worlds
  BY <1>1, <1>3 DEF Worlds
<1> HIDE DEF v
<1>5. WorldInv(v)
  <2>1. CASE procedure.session = NoSession
    <3>1. \A s \in Sessions : v.session[s].state < 2
      <4> SUFFICES ASSUME NEW s \in Sessions PROVE session[s].state < 2
        BY <1>2
      <4>1. session[s].state \in 0..5
        BY <1>1 DEF Worlds, SessionStates
      <4>2. ~(session[s].state >= 2)
        BY <1>1, <2>1, PairSetupAssumption DEF WorldInv
      <4> QED  BY <4>1, <4>2
    <3> QED  BY <1>2, <1>4, <2>1, <3>1, UnclaimedInv
  <2>2. CASE procedure.session # NoSession /\ Keeps(setup, T)
    <3>1. setup.lock
      BY <1>1, <2>2 DEF WorldInv
    <3>2. T.lock /\ T.code = setup.code /\ T.keep = setup.keep
      BY <2>2, <3>1 DEF Keeps
    <3> QED  BY <1>1, <1>2, <1>4, <3>2 DEF WorldInv, Worlds
  <2> QED  BY <2>1, <2>2
<1>6. WorldInv(Now)'
  BY <1>2, <1>5, BecomesInv
<1>7. SetupTypeOK'
  BY <1>3 DEF IInv, SetupTypeOK
<1>8. OneProcedure'
  BY DEF IInv, OneProcedure
<1> QED  BY <1>6, <1>7, <1>8 DEF IInv

\* The server's state does not change.
LEMMA FramedInv ==
  ASSUME IInv, NEW T, setup' = T, SetupInv(T), Frame(setup, T), Keeps(setup, T),
         UNCHANGED <<platform, paired, serverState, open, updating, attempts, procedure, session, transient, pending>>
  PROVE  IInv'
<1>1. /\ serverState' \in {"Idle", "Running", "Stopping", "Drained"} /\ updating' \in BOOLEAN
      /\ serverState' \in {"Idle", "Drained"} => open = {}
  BY DEF IInv, SetupTypeOK
<1>2. serverState' = "Idle" => ~T.accessory
  BY DEF IInv, Frame
<1>3. serverState' = "Idle" /\ T.fault = "none" => ~T.refresh
  BY DEF IInv, Frame
<1>4. T.fault = "none" /\ serverState' \in {"Running", "Stopping"}
        /\ platform.display /\ ~paired /\ ~updating' => T.code # NoCode
  BY DEF IInv, Frame
<1> QED  BY <1>1, <1>2, <1>3, <1>4, ChangesInv

LEMMA SetupInfoChangesInv ==
  ASSUME IInv, SetupInfoChanges
  PROVE  IInv'
<1>1. SetupTypeOK /\ SetupInv(setup)
  BY NowWorld
<1>2. SetupInv(setup') /\ Frame(setup, setup') /\ Keeps(setup, setup')
  <2>1. CASE setup.refresh /\ setup' \in DynamicSetupInfoExpired(setup)
    BY <1>1, <2>1, DynamicSetupInfoExpiredInv
  <2>2. CASE setup' = NFCPairingModeLeft(setup)
    BY <1>1, <2>2, NFCPairingModeLeftInv
  <2>3. CASE setup' \in RefreshSetupPayload(setup)
    BY <1>1, <2>3, RefreshSetupPayloadInv
  <2>4. CASE setup' \in EnterNFCPairingMode(setup)
    BY <1>1, <2>4, EnterNFCPairingModeInv
  <2> QED  BY <2>1, <2>2, <2>3, <2>4 DEF SetupInfoChanges
<1> QED  BY <1>2, FramedInv DEF SetupInfoChanges

LEMMA RequestAbortsInv ==
  ASSUME IInv, NEW s \in Sessions, RequestAborts(s)
  PROVE  IInv'
<1> DEFINE T == Unless(setup, TRUE, "transient")
<1>1. setup' = T
  BY DEF RequestAborts
<1>2. SetupInv(T) /\ Frame(setup, T) /\ T.code = setup.code /\ T.lock = setup.lock /\ T.keep = setup.keep
  BY NowWorld, FaultInv DEF KnownFailures
<1> HIDE DEF T
<1>3. Keeps(setup, T)
  BY <1>2 DEF Keeps
<1> QED  BY <1>1, <1>2, <1>3, FramedInv DEF RequestAborts

LEMMA StorageFailsInv ==
  ASSUME IInv, NEW s \in Sessions, StorageFails(s)
  PROVE  IInv'
<1> DEFINE T == Unless(setup, TRUE, "storage")
<1>1. setup' = T
  BY DEF StorageFails
<1>2. SetupInv(T) /\ Frame(setup, T) /\ T.code = setup.code /\ T.lock = setup.lock /\ T.keep = setup.keep
  BY NowWorld, FaultInv DEF KnownFailures
<1> HIDE DEF T
<1>3. Keeps(setup, T)
  BY <1>2 DEF Keeps
<1> QED  BY <1>1, <1>2, <1>3, FramedInv DEF StorageFails

LEMMA ReadM6Inv ==
  ASSUME IInv, NEW s \in Sessions, ReadM6(s)
  PROVE  IInv'
BY ReadsLastInv, StorageFailsInv DEF ReadM6

LEMMA StartInv ==
  ASSUME IInv, StartServer
  PROVE  IInv'
<1>1. /\ SetupTypeOK /\ SetupInv(setup) /\ ~setup.refresh /\ procedure.session = NoSession
  BY NowWorld DEF StartServer, Quiet, IInv
<1>2. SetupInv(setup')
  BY <1>1, ServerStartInv DEF StartServer
<1>3. /\ serverState' = "Running" /\ updating' = TRUE
      /\ UNCHANGED <<platform, paired, open, attempts, procedure, session, transient, pending>>
  BY DEF StartServer
<1> QED  BY <1>1, <1>2, <1>3, ChangesInv

LEMMA StopInv ==
  ASSUME IInv, StopServer
  PROVE  IInv'
<1>1. /\ SetupTypeOK /\ SetupInv(setup) /\ (open = {} => procedure.session = NoSession)
      /\ setup \in Setups /\ setup.fault \in KnownFailures \cup {"none"}
  BY NowWorld DEF SetupInv, Base
<1>2. /\ updating' = (updating \/ (HasIP /\ open \cap BLE = {}))
      /\ updating' \in BOOLEAN /\ (updating => updating')
      /\ UNCHANGED <<platform, paired, open, attempts, procedure, session, transient, pending>>
  BY <1>1 DEF StopServer, SetupTypeOK
<1>3. CASE ~HasIP /\ open = {}
  <2>1. serverState' = "Idle" /\ setup' = ServerStop(setup)
    BY <1>3 DEF StopServer
  <2>2. SetupInv(setup') /\ ~setup'.accessory /\ ~setup'.refresh
    BY <1>1, <2>1, ServerStopInv
  <2> QED  BY <1>1, <1>2, <1>3, <2>1, <2>2, ChangesInv
<1>4. CASE ~(~HasIP /\ open = {})
  <2>1. serverState' = "Stopping" /\ setup' = setup /\ serverState = "Running"
    BY <1>4 DEF StopServer
  <2>2. Keeps(setup, setup)
    BY DEF Keeps
  <2>3. setup.fault = "none" /\ platform.display /\ ~paired /\ ~updating' => setup.code # NoCode
    BY <1>2, <2>1 DEF IInv
  <2> QED  BY <1>1, <1>2, <2>1, <2>2, <2>3, ChangesInv
<1> QED  BY <1>3, <1>4

LEMMA EngineIdleInv ==
  ASSUME IInv, EngineIdle
  PROVE  IInv'
<1>1. SetupInv(setup) /\ Keeps(setup, setup)
  BY NowWorld DEF Keeps
<1>2. /\ serverState' = "Drained" /\ updating' = TRUE /\ open = {} /\ setup' = setup
      /\ UNCHANGED <<platform, paired, open, attempts, procedure, session, transient, pending>>
  BY DEF EngineIdle
<1> QED  BY <1>1, <1>2, ChangesInv

LEMMA UpdateStateInv ==
  ASSUME IInv, UpdateState
  PROVE  IInv'
<1>1. /\ SetupTypeOK /\ SetupInv(setup) /\ (open = {} => procedure.session = NoSession)
  BY NowWorld
<1>2. /\ updating' = FALSE
      /\ UNCHANGED <<platform, paired, open, attempts, procedure, session, transient, pending>>
  BY DEF UpdateState
<1>3. PICK S \in StateUpdate(setup) :
        IF serverState = "Drained"
        THEN setup' = Shutdown(S) /\ serverState' = "Idle"
        ELSE setup' = S /\ UNCHANGED serverState
  BY DEF UpdateState
<1>4. /\ SetupInv(S) /\ Frame(setup, S) /\ Keeps(setup, S)
      /\ platform.display /\ ~paired => S.code # NoCode
  BY <1>1, <1>3, StateUpdateInv
<1>5. S \in Setups /\ S.fault \in KnownFailures \cup {"none"}
  BY <1>4 DEF SetupInv, Base
<1>6. CASE serverState = "Drained"
  <2>1. open = {} /\ procedure.session = NoSession
    BY <1>1, <1>6 DEF IInv
  <2>2. setup' = ServerStop(S) /\ serverState' = "Idle"
    BY <1>3, <1>5, <1>6, <2>1, NoFailure DEF Shutdown
  <2>3. SetupInv(setup') /\ ~setup'.accessory /\ ~setup'.refresh
    BY <1>1, <1>5, <2>2, ServerStopInv
  <2> QED  BY <1>2, <2>1, <2>2, <2>3, ChangesInv
<1>7. CASE serverState # "Drained"
  <2>1. setup' = S /\ serverState' = serverState
    BY <1>3, <1>7
  <2>2. /\ serverState' \in {"Idle", "Running", "Stopping", "Drained"}
        /\ serverState' \in {"Idle", "Drained"} => open = {}
    BY <2>1 DEF IInv, SetupTypeOK
  <2>3. serverState' = "Idle" => ~S.accessory
    BY <1>4, <2>1 DEF IInv, Frame
  <2>4. serverState' = "Idle" /\ S.fault = "none" => ~S.refresh
    BY <1>4, <2>1 DEF IInv, Frame
  <2> QED  BY <1>2, <1>4, <2>1, <2>2, <2>3, <2>4, ChangesInv
<1> QED  BY <1>6, <1>7

\* The procedure and the setup code stay as they are.
LEMMA SameWorldInv ==
  ASSUME IInv, UNCHANGED <<platform, setup, serverState, attempts, procedure, session, transient, pending>>,
         paired' \in BOOLEAN, paired' => paired, updating' \in BOOLEAN,
         updating \/ paired' # paired => updating',
         open \subseteq open', open' \subseteq platform.sessions, serverState \in {"Idle", "Drained"} => open' = {}
  PROVE  IInv'
<1>1. /\ SetupTypeOK /\ WorldInv(Now)
      /\ Now.setup = setup /\ Now.procedure = procedure /\ Now.session = session
  BY NowWorld
<1>2. Becomes(Now) /\ Frame(setup, Now.setup)
  BY <1>1, FrameReflexive DEF Becomes
<1>3. /\ attempts' \in Nat /\ attempts' <= MaxTries
      /\ \A s \in Sessions : Now.session[s].state \in {2, 3} => attempts' < MaxTries
  BY <1>1 DEF IInv, SetupTypeOK
<1>4. transient' \subseteq open' /\ pending' \in Sessions \cup {NoSession}
  BY <1>1 DEF SetupTypeOK
<1>5. Now.procedure.session # NoSession =>
        Now.procedure.session \in open' /\ Now.session[Now.procedure.session].state > 0
  BY <1>1 DEF IInv, OneProcedure
<1> QED  BY <1>1, <1>2, <1>3, <1>4, <1>5, HandledInv

LEMMA OpenInv ==
  ASSUME IInv, NEW s \in Sessions, Open(s)
  PROVE  IInv'
BY SameWorldInv, NowWorld DEF Open, SetupTypeOK

LEMMA RemovePairingInv ==
  ASSUME IInv, RemovePairing
  PROVE  IInv'
<1>1. SetupTypeOK /\ (serverState \in {"Idle", "Drained"} => open = {})
  BY DEF IInv
<1> QED  BY <1>1, SameWorldInv DEF RemovePairing, SetupTypeOK

LEMMA TimeOutInv ==
  ASSUME IInv, TimeOut
  PROVE  IInv'
<1>1. /\ SetupTypeOK /\ WorldInv(Now) /\ Now \in Worlds
      /\ Now.setup = setup /\ Now.procedure = procedure /\ Now.session = session
  BY NowWorld
<1> DEFINE v == [setup |-> setup, procedure |-> procedure', session |-> session]
<1>2. /\ procedure' \in Procedures
      /\ procedure'.session = procedure.session /\ procedure'.flags = procedure.flags
      /\ procedure'.code = procedure.code /\ procedure'.proof = procedure.proof
  BY <1>1 DEF TimeOut, Worlds, Procedures
<1>3. /\ v.setup = setup /\ v.procedure = procedure' /\ v.session = session
      /\ v \in [setup : Setups, procedure : Procedures, session : [Sessions -> SessionStates]]
  BY <1>1, <1>2 DEF Worlds
<1>4. Becomes(v)
  BY DEF TimeOut, Becomes
<1> HIDE DEF v
<1>5. WorldInv(v)
  BY <1>1, <1>2, <1>3 DEF WorldInv
<1>6. Frame(setup, v.setup)
  BY <1>3, FrameReflexive
<1>7. /\ platform' = platform /\ serverState' = serverState /\ paired' = paired /\ updating' = updating
      /\ open' = open /\ attempts' = attempts /\ transient' = transient /\ pending' = pending
  BY DEF TimeOut
<1>8. /\ attempts' \in Nat /\ attempts' <= MaxTries
      /\ \A s \in Sessions : v.session[s].state \in {2, 3} => attempts' < MaxTries
      /\ paired' \in BOOLEAN /\ updating' \in BOOLEAN
      /\ open' \subseteq platform.sessions /\ (serverState \in {"Idle", "Drained"} => open' = {})
      /\ transient' \subseteq open' /\ pending' \in Sessions \cup {NoSession}
  BY <1>3, <1>7 DEF IInv, SetupTypeOK
<1>9. v.procedure.session # NoSession =>
        v.procedure.session \in open' /\ v.session[v.procedure.session].state > 0
  BY <1>2, <1>3, <1>7 DEF IInv, OneProcedure
<1> QED  BY <1>4, <1>5, <1>6, <1>7, <1>8, <1>9, HandledInv

LEMMA RestartInv ==
  ASSUME IInv, Restart
  PROVE  IInv'
<1> DEFINE v == [setup |-> NoSetup, procedure |-> Unclaimed, session |-> [s \in Sessions |-> Ready]]
<1>1. Becomes(v)
  BY DEF Restart, Becomes
<1>2. NoSetup \in Setups /\ SetupInv(NoSetup) /\ ~NoSetup.accessory /\ ~NoSetup.refresh
  BY DEF NoSetup, Setups, SetupInv, Base, Shown
<1>3. /\ v \in Worlds
      /\ v.setup = NoSetup /\ v.procedure.session = NoSession
      /\ \A s \in Sessions : v.session[s].state < 2
  BY <1>2, UnclaimedType DEF Worlds
<1> HIDE DEF v
<1>4. WorldInv(v)
  BY <1>2, <1>3, UnclaimedInv
<1> QED  BY <1>1, <1>2, <1>3, <1>4, StopsInv DEF Restart

LEMMA CloseInv ==
  ASSUME IInv, NEW s \in Sessions, Close(s)
  PROVE  IInv'
<1> DEFINE keep == FALSE
<1>1. PICK w \in Resets(Now, {s}, keep) :
        IF serverState = "Stopping" /\ ~HasIP
        THEN Becomes([w EXCEPT !.setup = ServerStop(w.setup)]) /\ serverState' = "Idle"
        ELSE Becomes(w) /\ UNCHANGED serverState
  BY DEF Close
<1>2. keep \in BOOLEAN
  OBVIOUS
<1> HIDE DEF keep
<1>3. /\ SetupTypeOK /\ s \in open /\ open \subseteq platform.sessions /\ transient \subseteq open
      /\ attempts \in Nat /\ attempts <= MaxTries
      /\ pending \in Sessions \cup {NoSession} /\ paired \in BOOLEAN
  BY DEF Close, IInv, SetupTypeOK
<1>4. /\ open' = open \ {s} /\ transient' = transient \ {s}
      /\ updating' \in BOOLEAN /\ (updating => updating')
      /\ platform' = platform /\ paired' = paired /\ attempts' = attempts /\ pending' = pending
  BY DEF Close, IInv, SetupTypeOK
<1>5. Handling(Now, s, open')
  BY <1>3, <1>4, NowHandled, PairSetupAssumption DEF Handling, HeldBut
<1>6. /\ Handling(w, s, open')
      /\ w.procedure.session # NoSession =>
           w.procedure.session \in open' /\ w.session[w.procedure.session].state > 0
  BY <1>1, <1>2, <1>3, <1>5, ResetsHandled
<1>7. /\ WorldInv(w) /\ w \in Worlds /\ Frame(setup, w.setup)
      /\ \A t \in Sessions : w.session[t].state \in {2, 3} => attempts' < MaxTries
  BY <1>4, <1>6 DEF Handling, WorldInv, Worlds
<1>8. CASE serverState = "Stopping" /\ ~HasIP
  <2> DEFINE S == ServerStop(w.setup)
             v == [w EXCEPT !.setup = S]
  <2>1. Becomes(v) /\ serverState' = "Idle"
    BY <1>1, <1>8
  <2>2. SetupInv(S) /\ ~S.accessory /\ ~S.refresh
    BY <1>3, <1>7, ServerStopInv DEF WorldInv, SetupInv, Base
  <2>3. S \in Setups
    BY <2>2 DEF SetupInv, Base
  <2> HIDE DEF S
  \* Bluetooth LE has one connection.
  <2>4. open' = {} /\ transient' = {}
    BY <1>3, <1>4, <1>8, SetupInfoAssumption DEF HasIP
  <2>5. w.procedure.session = NoSession
    BY <1>6, <2>4
  <2>6. v.setup = S /\ v.procedure = w.procedure /\ v.session = w.session /\ v \in Worlds
    BY <1>7, <2>3 DEF Worlds
  <2> HIDE DEF v
  <2>7. \A t \in Sessions : v.session[t].state < 2
    <3> SUFFICES ASSUME NEW t \in Sessions PROVE w.session[t].state < 2
      BY <2>6
    <3>1. w.session[t].state \in 0..5
      BY <1>7 DEF Worlds, SessionStates
    <3>2. ~(w.session[t].state >= 2)
      BY <1>7, <2>5, PairSetupAssumption DEF WorldInv
    <3> QED  BY <3>1, <3>2
  <2>8. WorldInv(v)
    BY <2>2, <2>5, <2>6, <2>7, UnclaimedInv
  <2> QED  BY <1>3, <1>4, <2>1, <2>2, <2>4, <2>5, <2>6, <2>8, StopsInv
<1>9. CASE ~(serverState = "Stopping" /\ ~HasIP)
  <2>1. Becomes(w) /\ serverState' = serverState
    BY <1>1, <1>9
  <2>2. serverState \in {"Idle", "Drained"} => open' = {}
    BY <1>3 DEF IInv
  <2>3. transient' \subseteq open' /\ open' \subseteq platform.sessions
    BY <1>3, <1>4
  <2> QED  BY <1>3, <1>4, <1>6, <1>7, <2>1, <2>2, <2>3, HandledInv
<1> QED  BY <1>8, <1>9

-----------------------------------------------------------------------------
(* The specification. *)

LEMMA InitInv == SetupInit => IInv
<1> SUFFICES ASSUME SetupInit PROVE IInv
  OBVIOUS
<1>1. /\ setup = NoSetup /\ serverState = "Idle" /\ open = {} /\ updating = FALSE /\ procedure = Unclaimed
      /\ session = [s \in Sessions |-> Ready] /\ transient = {} /\ pending = NoSession
      /\ platform \in Platforms /\ paired = FALSE /\ attempts = 0
  BY DEF SetupInit, Created
<1>2. NoSetup \in Setups /\ SetupInv(NoSetup) /\ ~NoSetup.accessory /\ ~NoSetup.refresh
  BY <1>1 DEF NoSetup, Setups, SetupInv, Base, Shown
<1>3. /\ Now = [setup |-> setup, procedure |-> procedure, session |-> session]
      /\ Now.setup = setup /\ Now.procedure = procedure /\ Now.session = session
  BY DEF Now
<1>4. /\ procedure \in Procedures /\ procedure.session = NoSession
      /\ session \in [Sessions -> SessionStates]
      /\ \A s \in Sessions : session[s].state = 0
  BY <1>1, UnclaimedType
<1>5. WorldInv(Now)
  BY <1>1, <1>2, <1>3, <1>4, UnclaimedInv DEF Worlds
<1>6. SetupTypeOK
  BY <1>1, <1>2, <1>4 DEF SetupTypeOK, Procedures, SessionStates
<1>7. OneProcedure
  BY <1>4 DEF OneProcedure
<1>8. attempts <= MaxTries /\ \A s \in Sessions : session[s].state \notin {2, 3}
  BY <1>1, <1>4, PairSetupAssumption
<1> QED  BY <1>1, <1>2, <1>5, <1>6, <1>7, <1>8 DEF IInv

LEMMA NextInv == IInv /\ [SetupNext]_setupVars => IInv'
<1> SUFFICES ASSUME IInv, [SetupNext]_setupVars PROVE IInv'
  OBVIOUS
<1>1. ASSUME NEW s \in Sessions, NEW m \in Messages,
             WriteM1(s, m) \/ WriteM3(s, m) \/ WriteM5(s, m) \/ WriteUnexpected(s, m)
      PROVE  IInv'
  BY <1>1, WriteM1Inv, WriteM3Inv, WriteM5Inv, WriteUnexpectedInv
<1>2. ASSUME NEW s \in Sessions,
             \/ WriteUnparsable(s)
             \/ ReadM2(s) \/ ReadM4(s) \/ ReadM6(s) \/ ReadError(s)
             \/ Open(s) \/ Close(s)
             \/ RequestAborts(s)
      PROVE  IInv'
  BY <1>2, WriteUnparsableInv, ReadM2Inv, ReadM4Inv, ReadM6Inv, ReadErrorInv, OpenInv, CloseInv, RequestAbortsInv
<1>3. CASE TimeOut
  BY <1>3, TimeOutInv
<1>4. CASE StartServer
  BY <1>4, StartInv
<1>5. CASE StopServer
  BY <1>5, StopInv
<1>6. CASE EngineIdle
  BY <1>6, EngineIdleInv
<1>7. CASE UpdateState
  BY <1>7, UpdateStateInv
<1>8. CASE RemovePairing
  BY <1>8, RemovePairingInv
<1>9. CASE SetupInfoChanges
  BY <1>9, SetupInfoChangesInv
<1>10. CASE Restart
  BY <1>10, RestartInv
<1>11. CASE UNCHANGED setupVars
  <2>1. SetupTypeOK /\ (serverState \in {"Idle", "Drained"} => open = {})
    BY DEF IInv
  <2> QED  BY <1>11, <2>1, SameWorldInv DEF setupVars, SetupTypeOK
<1> QED  BY <1>1, <1>2, <1>3, <1>4, <1>5, <1>6, <1>7, <1>8, <1>9, <1>10, <1>11 DEF SetupNext

\* The inductive invariant.
THEOREM Invariance == SetupSpec => []IInv
BY InitInv, NextInv, PTL DEF SetupSpec

\* Every variable keeps its type.
THEOREM TypeCorrect == SetupSpec => []SetupTypeOK
BY Invariance, PTL DEF IInv

\* HAPPairingPairSetupHandleWrite: server->pairSetup has at most one owner, which is connected, and
\* a session is past M2 only if it is that owner.
THEOREM OneOwner == SetupSpec => []OneProcedure
BY Invariance, PTL DEF IInv

\* HAPPairingPairSetupGetM2 .. GetM4: the code whose verifier a proof is checked with is the one of M2.
THEOREM FixedCode == SetupSpec => []CodeIsFixed
<1>1. IInv => CodeIsFixed
  BY NowWorld, PairSetupAssumption DEF WorldInv, SetupInv, Base, CodeIsFixed
<1> QED  BY <1>1, Invariance, PTL

\* HAPAccessorySetupInfo.c: no order of calls and timers violates one of its assertions.
THEOREM AssertionsHold == SetupSpec => []OtherAssertionsHold
<1>1. IInv => OtherAssertionsHold
  BY NowWorld DEF SetupInv, Base, OtherAssertionsHold
<1> QED  BY <1>1, Invariance, PTL

\* HAPPairingPairSetupGetM2: no more than MaxTries wrong proofs are verified.
THEOREM LimitedTries == SetupSpec => []TriesLimited
<1>1. IInv => TriesLimited
  BY DEF IInv, TriesLimited
<1> QED  BY <1>1, Invariance, PTL

\* SynchronizeDisplayAndNFC: display and tag show the code that a controller can pair with.
THEOREM ShownCode == SetupSpec => []CodeShown
<1>1. IInv => CodeShown
  BY NowWorld DEF IInv, SetupInv, Shown, CodeShown
<1> QED  BY <1>1, Invariance, PTL

\* Both at once: the code that is shown is the one an attempt goes on with.
THEOREM SettledCode == SetupSpec => []CodeSettled
BY FixedCode, ShownCode, PTL DEF CodeSettled

\* HAPPairingPairSetupProcessM5: whoever pairs the accessory has proved to know the code it shows.
THEOREM PairedByProofs == SetupSpec => PairedByProof
<1> DEFINE Proved == /\ procedure.session # NoSession
                     /\ procedure.proof = setup.code
                     /\ platform.display => setup.display = procedure.proof
<1>1. ASSUME IInv, [SetupNext]_setupVars, ~paired, paired' PROVE Proved
  <2>1. ASSUME NEW s \in Sessions, NEW m \in Messages, WriteM5(s, m) PROVE Proved
    <3>1. PICK w \in Arrives(s, m) : w.session[s].state = 4
      BY <2>1 DEF WriteM5
    <3>2. /\ SetupTypeOK /\ WorldInv(Now) /\ SetupInv(setup)
          /\ Now.setup = setup /\ Now.procedure = procedure /\ Now.session = session
      BY <1>1, NowWorld
    <3>3. session[s].state = 4
      BY <3>1, <3>2, ArrivesInv
    <3>4. procedure.session = s /\ setup.code = procedure.code /\ procedure.proof = procedure.code
      BY <3>2, <3>3 DEF WorldInv
    <3> QED  BY <3>2, <3>4, PairSetupAssumption DEF SetupInv, Shown
  <2>2. ASSUME NEW s \in Sessions, NEW m \in Messages,
               WriteM1(s, m) \/ WriteM3(s, m) \/ WriteUnexpected(s, m)
        PROVE  paired' = paired
    BY <2>2 DEF WriteM1, WriteM3, WriteUnexpected
  <2>3. ASSUME NEW s \in Sessions,
               \/ WriteUnparsable(s)
               \/ ReadM2(s) \/ ReadM4(s) \/ ReadM6(s) \/ ReadError(s)
               \/ Open(s) \/ Close(s)
               \/ RequestAborts(s)
        PROVE  paired' = paired
    BY <2>3 DEF WriteUnparsable, ReadM2, ReadM4, ReadM6, ReadError, ReadsLast, Reads, StorageFails, Open, Close, RequestAborts
  <2>4. TimeOut \/ StartServer \/ StopServer \/ EngineIdle \/ UpdateState \/ SetupInfoChanges \/ Restart \/ UNCHANGED setupVars
          => paired' = paired
    BY DEF TimeOut, StartServer, StopServer, EngineIdle, UpdateState, SetupInfoChanges, Restart, setupVars
  <2>5. RemovePairing => ~paired'
    BY DEF RemovePairing
  <2> QED  BY <1>1, <2>1, <2>2, <2>3, <2>4, <2>5 DEF SetupNext
<1>2. IInv /\ [SetupNext]_setupVars => [~paired /\ paired' => Proved]_setupVars
  BY <1>1
<1> QED  BY <1>2, Invariance, PTL DEF SetupSpec, PairedByProof

\* HAPPairingPairSetupGetM4: the number of wrong proofs is reset by a right one only.
THEOREM RememberedTries == SetupSpec => TriesRemembered
<1> DEFINE Proved == \E s \in Sessions : session[s].state = 3 /\ procedure.proof = setup.code
<1>1. ASSUME IInv, [SetupNext]_setupVars, attempts' < attempts PROVE Proved
  <2>0. attempts \in Nat
    BY <1>1 DEF IInv, SetupTypeOK
  <2>1. ASSUME NEW s \in Sessions, ReadM4(s) PROVE Proved
    <3>1. PICK S \in GetSetupInfo(setup, Restores(procedure.flags)) :
            RejectsProof(s, [Now EXCEPT !.setup = S]) \/ AcceptsProof(s, [Now EXCEPT !.setup = S])
      BY <2>1 DEF ReadM4
    <3>2. session[s].state = 3
      BY <2>1 DEF ReadM4
    <3>3. S = setup
      BY <1>1, <3>1, <3>2, ReadM4Setup
    <3>4. [Now EXCEPT !.setup = S].setup = setup
      BY <3>3 DEF Now
    <3>5. ~RejectsProof(s, [Now EXCEPT !.setup = S])
      <4>1. attempts' \notin {attempts + 0, attempts + 1}
        BY <1>1, <2>0
      <4> QED  BY <4>1 DEF RejectsProof
    <3>6. Proves(setup)
      BY <3>1, <3>4, <3>5 DEF AcceptsProof
    <3> QED  BY <3>2, <3>6 DEF Proves
  <2>2. ASSUME NEW s \in Sessions, NEW m \in Messages,
               WriteM1(s, m) \/ WriteM3(s, m) \/ WriteM5(s, m) \/ WriteUnexpected(s, m)
        PROVE  attempts' = attempts
    BY <2>2 DEF WriteM1, WriteM3, WriteM5, WriteUnexpected, Writes
  <2>3. ASSUME NEW s \in Sessions,
               \/ WriteUnparsable(s)
               \/ ReadM2(s) \/ ReadM6(s) \/ ReadError(s)
               \/ Open(s) \/ Close(s)
               \/ RequestAborts(s)
        PROVE  attempts' = attempts
    BY <2>3 DEF WriteUnparsable, Writes, ReadM2, ReadM6, ReadError, ReadsLast, StorageFails, Open, Close, RequestAborts
  <2>4. ASSUME \/ TimeOut \/ StartServer \/ StopServer \/ EngineIdle \/ UpdateState \/ SetupInfoChanges
               \/ RemovePairing \/ Restart \/ UNCHANGED setupVars
        PROVE  attempts' = attempts
    BY <2>4 DEF TimeOut, StartServer, StopServer, EngineIdle, UpdateState, SetupInfoChanges, RemovePairing, Restart, setupVars
  <2>5. attempts' # attempts
    BY <1>1, <2>0
  <2> QED  BY <1>1, <2>1, <2>2, <2>3, <2>4, <2>5 DEF SetupNext
<1>2. IInv /\ [SetupNext]_setupVars => [attempts' < attempts => Proved]_setupVars
  BY <1>1
<1> QED  BY <1>2, Invariance, PTL DEF SetupSpec, TriesRemembered

=============================================================================
