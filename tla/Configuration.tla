----------------------------- MODULE Configuration -----------------------------
(***************************************************************************)
(* What an accessory over IP is to its controllers across starts: the      *)
(* device ID, the configuration number and the state of pairing that it    *)
(* announces (HAPIPServiceDiscovery.c), the long-term key it proves itself *)
(* with, and the pairings. All are kept in the key-value store; the        *)
(* firmware they belong to, and whether the application has changed the    *)
(* accessory, is not.                                                      *)
(*                                                                         *)
(* Each access of the store that changes it is a step, and the process may *)
(* end between any two: an error of the store ends it too (HAPFatalError). *)
(* What an update, and the clean-up of pairings, do to broadcast keys and  *)
(* state numbers of Bluetooth LE is in BLEAdvertising; who may change      *)
(* pairings is in Pairings.                                                *)
(***************************************************************************)
EXTENDS Integers, Sequences, FiniteSets, SequencesExt

CONSTANTS
  Firmwares,     \* version strings as characters, from the oldest to the newest
  UINT16_MAX, UINT32_MAX,
  ImportedCN,    \* configuration number of another SDK
  Randoms,       \* device IDs and keys, enough for a new one to be new
  MaxPairings,
  MaxCuts        \* bound on the starts that are cut short one after another

VARIABLES
  kept,      \* the content of the store
  process,   \* the server and where it is
  past       \* what controllers and the application remember

configuration == <<kept, process, past>>

NotFound == 0
NoVersion == <<>>
Unannounced == [cn |-> 0, id |-> 0, paired |-> FALSE]

Off == [at |-> "off", firmware |-> 0, ltsk |-> 0, purging |-> <<>>, txt |-> Unannounced]

Init ==
  /\ kept = [version |-> NoVersion, cn |-> NotFound, id |-> NotFound, ltsk |-> NotFound, pairings |-> {}]
  /\ process = Off
  /\ past \in [toImport : {<<>>, <<"id", "cn", "ltsk", "pairing">>}, changed : {FALSE},
               last : {0}, other : {0}, newest : {0}, cutReset : {FALSE}, cuts : {0}]

-----------------------------------------------------------------------------
(* Numbers *)

Dot == 46
Zero == 48

\* The three numbers of a version; NoVersion of a string that is none
ParseVersionString(version) ==
  LET Digit(n, d) == n <= UINT32_MAX \div 10 /\ n * 10 <= UINT32_MAX - d
      Read(v, char) ==
        IF v.valid /\ ~v.first /\ char = Dot
        THEN [v EXCEPT !.valid = v.i < 3, !.i = @ + 1, !.first = TRUE]
        ELSE IF v.valid /\ char \in Zero .. Zero + 9 /\ Digit(v.numbers[v.i], char - Zero)
        THEN [v EXCEPT !.numbers[v.i] = @ * 10 + char - Zero, !.first = FALSE]
        ELSE [v EXCEPT !.valid = FALSE]
      read == FoldLeft(Read, [numbers |-> <<0, 0, 0>>, i |-> 1, first |-> TRUE, valid |-> TRUE], version)
  IN  IF read.valid /\ ~read.first THEN read.numbers ELSE NoVersion

Older(new, previous) ==
  \/ new[1] < previous[1]
  \/ new[1] = previous[1] /\ new[2] < previous[2]
  \/ new[1] = previous[1] /\ new[2] = previous[2] /\ new[3] < previous[3]

Version == ParseVersionString(Firmwares[process.firmware])

IncrementCN(cn) ==
  LET cn32 == IF cn = NotFound THEN 1 ELSE cn
  IN  IF cn32 = UINT32_MAX THEN 1 ELSE cn32 + 1

\* The 16 bits that are announced
Reported(cn) == ((cn - 1) % UINT16_MAX) + 1

New(used) == CHOOSE r \in Randoms : r \notin used

\* Both numbers overflow together (HAPAccessoryServer.c:1060). A start counts by at most 2.
ConfigurationAssumption ==
  /\ UINT16_MAX \in Nat \ {0} /\ UINT32_MAX \in Nat \ {0} /\ UINT32_MAX % UINT16_MAX = 0
  /\ ImportedCN \in 1 .. UINT32_MAX
  /\ MaxCuts \in Nat /\ 2 * (MaxCuts + 1) < UINT16_MAX
  /\ MaxPairings \in Nat \ {0}
  /\ IsFiniteSet(Randoms) /\ Cardinality(Randoms) > MaxPairings /\ NotFound \notin Randoms
  /\ DOMAIN Firmwares \subseteq Nat \ {0}
  /\ \A i, j \in DOMAIN Firmwares :
       LET older == ParseVersionString(Firmwares[i])
           newer == ParseVersionString(Firmwares[j])
       IN  i < j /\ older # NoVersion /\ newer # NoVersion => older # newer /\ Older(older, newer)

-----------------------------------------------------------------------------
(* HAPAccessoryServerPrepareStart *)

At(next) == process' = [process EXCEPT !.at = next]

\* A string that is no version ends the process, an older version is refused.
Start ==
  /\ process.at = "idle" /\ Version # NoVersion
  /\ \/ kept.version = NoVersion /\ At("saveVersion")
     \/ kept.version = Version /\ At("loadLTSK")
     \/ /\ kept.version \notin {NoVersion, Version} /\ ~Older(Version, kept.version)
        /\ At("handleFirmwareUpdate")
  /\ UNCHANGED <<kept, past>>

HandleFirmwareUpdate ==
  /\ process.at = "handleFirmwareUpdate"
  /\ kept' = [kept EXCEPT !.cn = IncrementCN(@)]
  /\ At("saveVersion") /\ UNCHANGED past

SaveVersion ==
  /\ process.at = "saveVersion"
  /\ kept' = [kept EXCEPT !.version = Version]
  /\ At("loadLTSK") /\ UNCHANGED past

\* A domain is purged key by key, in the order of the directory.
PurgePairing == \E p \in kept.pairings : kept' = [kept EXCEPT !.pairings = @ \ {p}]

\* Mutant: the new key is stored although pairings of the lost one remain.
LoadLTSK_KeyFirst ==
  /\ process.at = "loadLTSK" /\ UNCHANGED past
  /\ LET ltsk == IF kept.ltsk # NotFound THEN kept.ltsk ELSE New({p.ltsk : p \in kept.pairings})
     IN  /\ kept' = [kept EXCEPT !.ltsk = ltsk]
         /\ process' = [process EXCEPT !.at = "cleanupPairings", !.ltsk = ltsk]

LoadLTSK ==
  /\ process.at = "loadLTSK" /\ UNCHANGED past
  /\ \/ /\ kept.ltsk # NotFound
        /\ process' = [process EXCEPT !.at = "cleanupPairings", !.ltsk = kept.ltsk]
        /\ UNCHANGED kept
     \/ kept.ltsk = NotFound /\ PurgePairing /\ UNCHANGED process
     \/ /\ kept.ltsk = NotFound /\ kept.pairings = {}
        /\ LET ltsk == New({p.ltsk : p \in kept.pairings})
           IN  /\ kept' = [kept EXCEPT !.ltsk = ltsk]
               /\ process' = [process EXCEPT !.at = "cleanupPairings", !.ltsk = ltsk]

AdminFound == \E p \in kept.pairings : p.admin

CleanupPairings ==
  /\ process.at = "cleanupPairings" /\ UNCHANGED past
  /\ \/ ~AdminFound /\ PurgePairing /\ UNCHANGED process
     \/ (AdminFound \/ kept.pairings = {}) /\ At("started") /\ UNCHANGED kept

-----------------------------------------------------------------------------
(* HAPAccessoryServerStartBridge and the service that is published *)

StartBridge ==
  /\ process.at = "started"
  /\ kept' = IF past.changed THEN [kept EXCEPT !.cn = IncrementCN(@)] ELSE kept
  /\ At("getCN") /\ UNCHANGED past

GetCN ==
  /\ process.at = "getCN"
  /\ kept' = [kept EXCEPT !.cn = IF @ = NotFound THEN 1 ELSE @]
  /\ At("getDeviceID") /\ UNCHANGED past

SetHAPService(k) == [cn |-> Reported(k.cn), id |-> k.id, paired |-> k.pairings # {}]

\* The device ID, and the announcement.  What is announced under other than what was announced
\* last is remembered as other, if it is another configuration of the same accessory.
DeviceIDGet ==
  /\ process.at = "getDeviceID"
  /\ kept' = [kept EXCEPT !.id = IF @ = NotFound THEN New({p.id : p \in kept.pairings}) ELSE @]
  /\ process' = [process EXCEPT !.at = "running", !.txt = SetHAPService(kept')]
  /\ LET differs == past.changed \/ process.firmware # past.newest
     IN  past' = [past EXCEPT !.changed = FALSE, !.cuts = 0,
                              !.last = IF past.cutReset THEN 0 ELSE process'.txt.cn,
                              !.other = IF differs THEN past.last ELSE 0,
                              !.newest = IF @ < process.firmware THEN process.firmware ELSE @]

-----------------------------------------------------------------------------
(* Running *)

\* handle_pairing_data: the announcement follows a change of the state of pairing.
Handled(was) ==
  IF (kept'.pairings # {}) # was THEN process' = [process EXCEPT !.at = "running", !.txt = SetHAPService(kept')]
  ELSE At("running")

AddPairing(admin) ==
  /\ process.at = "running" /\ Cardinality(kept.pairings) < MaxPairings
  /\ kept.pairings = {} => admin
  /\ kept' = [kept EXCEPT !.pairings = @ \cup {[id |-> kept.id, ltsk |-> process.ltsk, admin |-> admin]}]
  /\ Handled(kept.pairings # {}) /\ UNCHANGED past

\* Without an admin the others go too (HAPAccessoryServerCleanupPairings).
RemovePairing ==
  /\ process.at \in {"running", "removing"} /\ PurgePairing /\ UNCHANGED past
  /\ process.at = "removing" => ~AdminFound
  /\ IF kept'.pairings # {} /\ ~\E p \in kept'.pairings : p.admin THEN At("removing")
     ELSE Handled(TRUE)

\* The key in memory is of no use until the next start has loaded it again.
Stop ==
  /\ process.at = "running"
  /\ process' = [process EXCEPT !.at = "idle", !.ltsk = 0, !.txt = Unannounced]
  /\ past' = [past EXCEPT !.other = 0]
  /\ UNCHANGED kept

-----------------------------------------------------------------------------
(* The application: other accessories behind the bridge, and resets *)

\* Before a reset that was cut short has been completed, nobody could tell the difference.
Reconfigure ==
  /\ process.at = "idle" /\ ~past.changed /\ ~past.cutReset
  /\ past' = [past EXCEPT !.changed = TRUE]
  /\ UNCHANGED <<kept, process>>

RestoreFactorySettings ==
  /\ process.at = "idle"
  /\ process' = [process EXCEPT !.at = "purging", !.purging = <<"Configuration", "Pairings">>]
  /\ past' = [past EXCEPT !.cutReset = TRUE, !.last = 0, !.newest = 0, !.changed = FALSE]
  /\ UNCHANGED kept

RemoveAllPairings ==
  /\ process.at = "idle"
  /\ process' = [process EXCEPT !.at = "purging", !.purging = <<"Pairings">>]
  /\ UNCHANGED <<kept, past>>

ConfigurationKeys == {"cn", "id", "ltsk"}

DomainEmpty ==
  IF Head(process.purging) = "Pairings" THEN kept.pairings = {}
  ELSE kept.version = NoVersion /\ \A key \in ConfigurationKeys : kept[key] = NotFound

PurgeDomain ==
  /\ process.at = "purging"
  /\ \/ ~DomainEmpty /\ Head(process.purging) = "Pairings" /\ PurgePairing /\ UNCHANGED <<process, past>>
     \/ /\ ~DomainEmpty /\ Head(process.purging) = "Configuration" /\ UNCHANGED <<process, past>>
        /\ \/ \E key \in ConfigurationKeys : kept[key] # NotFound /\ kept' = [kept EXCEPT ![key] = NotFound]
           \/ kept.version # NoVersion /\ kept' = [kept EXCEPT !.version = NoVersion]
     \/ /\ DomainEmpty /\ UNCHANGED kept
        /\ process' = [process EXCEPT !.purging = Tail(@), !.at = IF Len(process.purging) = 1 THEN "idle" ELSE @]
        /\ past' = IF Head(process.purging) = "Configuration" THEN [past EXCEPT !.cutReset = FALSE] ELSE past

-----------------------------------------------------------------------------
(* The process *)

\* Before the first start an application imports what another SDK has left.  One that was cut
\* short goes on where it was: nothing may be imported twice (HAPPrecondition(!found)).
Import ==
  /\ process.at = "off" /\ past.toImport # <<>>
  /\ LET key == Head(past.toImport)
     IN  kept' = IF key = "pairing" THEN [kept EXCEPT !.pairings = {[id |-> 1, ltsk |-> 1, admin |-> TRUE]}]
                 ELSE [kept EXCEPT ![key] = IF key = "cn" THEN ImportedCN ELSE 1]
  /\ past' = [past EXCEPT !.toImport = Tail(@)]
  /\ UNCHANGED process

\* The firmware is whatever has been installed.
Create ==
  /\ process.at = "off" /\ past.toImport = <<>>
  /\ \E firmware \in DOMAIN Firmwares : process' = [process EXCEPT !.at = "idle", !.firmware = firmware]
  /\ UNCHANGED <<kept, past>>

Crash ==
  /\ process.at # "off"
  /\ process' = Off
  /\ IF process.at \in {"idle", "running", "removing", "purging"} THEN past' = [past EXCEPT !.other = 0]
     ELSE past.cuts < MaxCuts /\ past' = [past EXCEPT !.cuts = @ + 1]
  /\ UNCHANGED kept

Next ==
  \/ Import \/ Create \/ Start \/ HandleFirmwareUpdate \/ SaveVersion \/ LoadLTSK \/ CleanupPairings
  \/ StartBridge \/ GetCN \/ DeviceIDGet
  \/ \E admin \in BOOLEAN : AddPairing(admin)
  \/ RemovePairing \/ Stop
  \/ Reconfigure \/ RestoreFactorySettings \/ RemoveAllPairings \/ PurgeDomain
  \/ Crash

-----------------------------------------------------------------------------
(* Properties. *)

\* Wherever starts, updates and resets are cut short, an accessory that is announced is one its
\* controllers can rely on: each pairing belongs to the key it proves itself with, and, but for
\* a factory reset that was not completed, to the device ID it is announced with; there is an
\* admin among them; whether it is paired is announced truthfully; another firmware or another
\* configuration is announced with another configuration number (HAP.h:4214), and never an
\* older firmware (HAPAccessoryServerPrepareStart, HAPAccessoryServerLoadLTSK,
\* handle_pairing_data).
IdentityKept ==
  process.at = "running" =>
    /\ \A p \in kept.pairings :
         p.ltsk = process.ltsk /\ p.ltsk = kept.ltsk /\ (p.id = process.txt.id \/ past.cutReset)
    /\ kept.pairings # {} => AdminFound
    /\ process.txt.paired <=> kept.pairings # {}
    /\ process.txt.cn # past.other
    /\ process.firmware = past.newest

=============================================================================
