------------------------ MODULE AccessoryServerLifecycle ------------------------
(***************************************************************************)
(* What an accessory server promises the application that starts and stops *)
(* it (HAPAccessoryServerStart, HAPAccessoryServerStop and the             *)
(* handleUpdatedState callback of HAP/HAP.h): connections are opened only  *)
(* between a start and the end of the stop that follows it, the server     *)
(* refuses connections for good before it reports that it has stopped, and *)
(* when it reports that, no connection is left.                            *)
(***************************************************************************)
CONSTANT Connections   \* the connections the server can keep at a time

VARIABLES
  state,      \* "Idle", "Running" or "Stopping"
  accepting,  \* is a new connection let in?
  open        \* the connections in use

lifecycle == <<state, accepting, open>>

Init == state = "Idle" /\ accepting = FALSE /\ open = {}

Start ==
  /\ state = "Idle"
  /\ state' = "Running" /\ accepting' = TRUE
  /\ UNCHANGED open

Stop ==
  /\ state = "Running"
  /\ state' = "Stopping"
  /\ UNCHANGED <<accepting, open>>

\* The server stops to accept only on its way to the end.
Accepting == accepting' = accepting \/ (state = "Stopping" /\ accepting' = FALSE)

\* A client connects to a place of its own; the server may close others, or it.
Connect(c) ==
  /\ accepting /\ c \notin open
  /\ open' \subseteq open \cup {c}
  /\ Accepting
  /\ UNCHANGED state

Disconnect ==
  /\ open' \subseteq open
  /\ Accepting
  /\ UNCHANGED state

Stopped ==
  /\ state = "Stopping" /\ ~accepting /\ open = {}
  /\ state' = "Idle"
  /\ UNCHANGED <<accepting, open>>

Next ==
  \/ Start \/ Stop \/ Disconnect \/ Stopped
  \/ \E c \in Connections : Connect(c)

Spec == Init /\ [][Next]_lifecycle
================================================================================
