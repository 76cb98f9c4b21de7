-------------------------- MODULE MCIPAccessoryServer --------------------------
(***************************************************************************)
(* Instances of IPAccessoryServer for TLC.  Slots and characteristics are  *)
(* model values; slots are interchangeable, and characteristics are not    *)
(* (some are exempt from coalescing).                                      *)
(***************************************************************************)
EXTENDS IPAccessoryServer, TLC

SlotSymmetry == Permutations(Slots)
================================================================================
