--------------------------- MODULE PairedAccessory ---------------------------
(* Who is paired: the pairings of the accessory while sessions come and go, and, beside   *)
(* it, what a paired accessory is to its controllers over starts and resets. part says    *)
(* which of the two is explored.                                                          *)
EXTENDS Pairings

CONSTANTS Firmwares, UINT16_MAX, UINT32_MAX, ImportedCN, Randoms, MaxPairings, MaxCuts

VARIABLES part, kept, process, past

Identity == INSTANCE Configuration

ASSUME IdentityAssumption == Identity!ConfigurationAssumption

identity == <<kept, process, past>>

-----------------------------------------------------------------------------

\* What the accessory is to its controllers when starts, updates and resets are cut short
\* (Configuration)
IdentityKept == part = "identity" => Identity!IdentityKept

=============================================================================
