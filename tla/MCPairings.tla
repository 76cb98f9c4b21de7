----------------------------- MODULE MCPairings -----------------------------
(* Two controllers with a session over each transport; firmware 1.9, 1.10, and 1.11, of   *)
(* which the last number is too large for UINT32_MAX.                                     *)
EXTENDS PairedAccessory, TLC

MCFirmwares == <<<<49, 46, 57>>, <<49, 46, 49, 48>>, <<49, 46, 49, 49>>>>

MCInit ==
  /\ Init
  /\ \/ part = "pairings" /\ kept = NoOne /\ process = NoOne /\ past = NoOne
     \/ part = "identity" /\ Identity!Init

MCNext ==
  \/ part = "pairings" /\ Next /\ UNCHANGED <<part, identity>>
  \/ part = "identity" /\ Identity!Next /\ UNCHANGED <<part, vars>>

MCSpec == MCInit /\ [][MCNext]_<<part, vars, identity>>

ControllerSymmetry == Permutations(Controllers)

=============================================================================
