--------------------------- MODULE MCEventsAndSetup ---------------------------
(* Event notifications over the slots of the IP server, and Pair Setup, whose sessions are *)
(* other ones: TLC explores one beside the other, part says which.                         *)
EXTENDS MCIPAccessoryServer, PairSetup

CONSTANTS ip1, ip2, ble

VARIABLE part

\* With and without a display and a programmable tag; two sessions over IP, one over each
\* transport, and Bluetooth LE alone.
AllPlatforms == [display : BOOLEAN, nfc : BOOLEAN, sessions : {{ip1, ip2}, {ip1, ble}, {ble}}]

\* The accessory while the slots are explored
Plain == [display |-> FALSE, nfc |-> FALSE, sessions |-> {ble}]

MCInit ==
  /\ Init /\ SetupInit
  /\ (part = "slots" /\ platform = Plain) \/ part = "setup"

MCNext ==
  \/ part = "slots" /\ Next /\ UNCHANGED <<part, setupVars>>
  \/ part = "setup" /\ SetupNext /\ UNCHANGED <<part, vars>>

MCSpec == MCInit /\ [][MCNext]_<<part, vars, setupVars>>

\* Slots are interchangeable, and so are the codes of a display.
Symmetry == SlotSymmetry \cup Permutations(Codes)

===============================================================================
