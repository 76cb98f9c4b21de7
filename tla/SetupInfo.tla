----------------------------- MODULE SetupInfo -----------------------------
(***************************************************************************)
(* The setup code of an accessory, and what its display and its            *)
(* programmable NFC tag show of it (HAP/HAPAccessorySetupInfo.c). The code *)
(* is locked while a controller pairs, replaced after each attempt and,    *)
(* on a display, every five minutes.                                       *)
(*                                                                         *)
(* The operators map a value of setup to the set of its possible values    *)
(* after the C function of that name: codes are drawn at random.           *)
(***************************************************************************)
EXTENDS Integers, FiniteSets

CONSTANTS
  Codes,       \* setup codes that can be generated for a display
  StaticCode,  \* the code of an accessory without a display
  NoCode,
  Sessions,    \* session objects of both transports
  BLE,         \* those of Bluetooth LE
  Platforms    \* kinds of accessory: [display, nfc: BOOLEAN, sessions: SUBSET Sessions]

AllCodes == Codes \cup {StaticCode}

ASSUME SetupInfoAssumption ==
  /\ Codes # {} /\ NoCode \notin AllCodes
  /\ BLE \subseteq Sessions
  /\ \A s, t \in BLE : s = t  \* one connection at a time
  /\ Platforms \subseteq [display : BOOLEAN, nfc : BOOLEAN, sessions : SUBSET Sessions]

VARIABLES
  platform,  \* the kind of this accessory
  paired,    \* there is an admin pairing (persistent)
  setup      \* server->accessorySetup, what is shown, and the assertion that has failed

\* The failed assertion aborts the process.
Assertions == {"prepare", "refresh", "lock", "start", "shutdown", "restore",
               "payload", "accessory", "transient", "storage"}

Setups ==
  [ code      : AllCodes \cup {NoCode},  \* setup info or code, if available
    lock      : BOOLEAN,                 \* it belongs to a pairing attempt
    keep      : BOOLEAN,                 \* it was kept from the previous attempt
    refresh   : BOOLEAN,                 \* dynamicRefreshTimer is registered
    nfc       : BOOLEAN,                 \* nfcPairingModeTimer is registered
    display   : AllCodes \cup {NoCode},  \* what the display shows
    tag       : AllCodes \cup {NoCode},  \* the code in a pairable tag
    accessory : BOOLEAN,                 \* the server knows its primary accessory
    fault     : Assertions \cup {"none"} ]

NoSetup == [code |-> NoCode, lock |-> FALSE, keep |-> FALSE, refresh |-> FALSE, nfc |-> FALSE,
            display |-> NoCode, tag |-> NoCode, accessory |-> FALSE, fault |-> "none"]

\* S, or the failure of an assertion about it unless another has failed before.
Unless(S, failure, assertion) ==
  [S EXCEPT !.fault = IF failure /\ S.fault = "none" THEN assertion ELSE S.fault]

-----------------------------------------------------------------------------
\* SynchronizeDisplayAndNFC, for accessories with a setup ID. A payload to pair with
\* is made only for an accessory that is not paired, and any payload names the category
\* of the primary accessory.
Synchronize(S) ==
  LET shows == platform.display \/ platform.nfc
      pairable == S.code # NoCode /\ (platform.display \/ (platform.nfc /\ S.nfc))
      checked == Unless(Unless(S, shows /\ ~S.accessory, "accessory"), pairable /\ paired, "payload")
  IN [checked EXCEPT !.display = IF platform.display THEN S.code ELSE NoCode,
                     !.tag = IF platform.nfc /\ S.nfc THEN S.code ELSE NoCode]

\* Mutant: the timer survives the code it was registered for.
ClearSetupInfo_KeepsTimer(S) ==
  [S EXCEPT !.code = NoCode, !.lock = FALSE, !.keep = FALSE]

ClearSetupInfo(S) ==
  IF S.code # NoCode
  THEN [S EXCEPT !.code = NoCode, !.lock = FALSE, !.keep = FALSE, !.refresh = FALSE]
  ELSE Unless(S, S.refresh, "refresh")

\* Mutant: a code that is there is used for the attempt without being locked.
PrepareSetupInfo_Unlocked(S, lockSetupInfo) ==
  IF S.code # NoCode
  THEN {Unless(S, paired, "prepare")}
  ELSE {Synchronize([Unless(S, paired, "prepare") EXCEPT
          !.code = code, !.lock = lockSetupInfo, !.keep = FALSE,
          !.refresh = S.refresh \/ (platform.display /\ ~lockSetupInfo)]) :
            code \in IF platform.display THEN Codes ELSE {StaticCode}}

\* A code that is there stays, and stays locked; locking it ends its periodic refresh.
PrepareSetupInfo(S, lockSetupInfo) ==
  LET checked == Unless(S, paired, "prepare")
  IN IF S.code # NoCode
     THEN {IF lockSetupInfo THEN [checked EXCEPT !.lock = TRUE, !.refresh = FALSE] ELSE checked}
     ELSE {Synchronize([Unless(checked, platform.display /\ ~lockSetupInfo /\ S.refresh, "refresh") EXCEPT
             !.code = code, !.lock = lockSetupInfo, !.keep = FALSE,
             !.refresh = S.refresh \/ (platform.display /\ ~lockSetupInfo)]) :
               code \in IF platform.display THEN Codes ELSE {StaticCode}}

\* HAPAccessorySetupInfoGetSetupInfo: the code to pair with. One kept from the previous
\* attempt is replaced unless this attempt asks for it.
GetSetupInfo(S, restorePrevious) ==
  IF ~restorePrevious /\ S.keep
  THEN PrepareSetupInfo(ClearSetupInfo(S), TRUE)
  ELSE {Unless(S, S.code = NoCode, "restore")}

\* HAPAccessorySetupInfoHandlePairingStart
PairingStart(S) ==
  {Unless(T, T.refresh, "refresh") : T \in PrepareSetupInfo(S, TRUE)}

\* Mutant: display and tag go on showing the code that has been cleared.
PairingStop_Silent(S, keepSetupInfo) ==
  LET T == IF keepSetupInfo
           THEN [Unless(S, ~S.lock, "lock") EXCEPT !.keep = TRUE]
           ELSE ClearSetupInfo(S)
  IN IF platform.display /\ ~paired THEN PrepareSetupInfo(T, FALSE) ELSE {T}

\* HAPAccessorySetupInfoHandlePairingStop
PairingStop(S, keepSetupInfo) ==
  LET T == IF keepSetupInfo
           THEN [Unless(S, ~S.lock, "lock") EXCEPT !.keep = TRUE]
           ELSE Synchronize(ClearSetupInfo(S))
  IN IF platform.display /\ ~paired THEN PrepareSetupInfo(T, FALSE) ELSE {T}

-----------------------------------------------------------------------------
\* HAPAccessorySetupInfoHandleAccessoryServerStart
ServerStart(S) ==
  LET T == Unless([S EXCEPT !.accessory = TRUE], S.refresh, "start")
  IN IF platform.display /\ ~paired THEN PrepareSetupInfo(T, FALSE) ELSE {T}

\* HAPAccessorySetupInfoHandleAccessoryServerStop; then the accessory is forgotten.
ServerStop(S) ==
  [Synchronize([S EXCEPT !.code = NoCode, !.lock = FALSE, !.keep = FALSE,
                         !.refresh = FALSE, !.nfc = FALSE]) EXCEPT !.accessory = FALSE]

\* NFC pairing mode ends (CompleteExitingNFCPairingMode): a code that is neither locked
\* nor refreshed was there for the tag only.
NFCPairingModeLeft(S) ==
  LET T == [S EXCEPT !.nfc = FALSE]
  IN Synchronize(IF ~T.lock /\ ~T.refresh THEN ClearSetupInfo(T) ELSE T)

\* HAPAccessorySetupInfoHandleAccessoryServerStateUpdate
StateUpdate(S) ==
  IF ~paired
  THEN IF platform.display THEN PrepareSetupInfo(S, FALSE) ELSE {Synchronize(S)}
  ELSE {IF platform.nfc /\ S.nfc THEN NFCPairingModeLeft(S) ELSE S}

\* DynamicSetupInfoExpired
DynamicSetupInfoExpired(S) ==
  LET T == Unless([S EXCEPT !.refresh = FALSE], paired \/ S.lock \/ S.code = NoCode, "refresh")
  IN PrepareSetupInfo(ClearSetupInfo(T), FALSE)

\* HAPAccessorySetupInfoRefreshSetupPayload: without the timer the code is locked.
RefreshSetupPayload(S) ==
  IF S.refresh THEN PrepareSetupInfo(ClearSetupInfo(S), FALSE) ELSE {S}

\* HAPAccessorySetupInfoEnterNFCPairingMode; entered twice, it is extended.
EnterNFCPairingMode(S) ==
  LET T == [S EXCEPT !.nfc = TRUE]
  IN IF paired THEN {S}
     ELSE IF S.code = NoCode THEN PrepareSetupInfo(T, FALSE)
     ELSE {IF S.nfc THEN T ELSE Synchronize(T)}

=============================================================================
