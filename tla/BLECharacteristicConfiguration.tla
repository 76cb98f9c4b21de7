-------------------- MODULE BLECharacteristicConfiguration --------------------
(* Which characteristics of a Bluetooth LE accessory are broadcasted, and how often        *)
(* (HAP/HAPBLECharacteristic+Configuration.c, +Broadcast.c): controllers ask for it, and   *)
(* it is kept in one value of the key-value store, a list sorted by characteristic that is *)
(* searched and changed in a buffer of fixed size. Any access of the store may fail.       *)
EXTENDS Integers, Sequences, SequencesExt

CONSTANTS
  Supporting,     \* the IIDs of the characteristics that can be broadcasted
  Others,         \* and of some that cannot
  Intervals,      \* the valid ones; the smallest is the default
  MaxConcurrent   \* what the buffer is meant for: 42

BLECharacteristicConfigurationAssumption ==
  /\ (Supporting \cup Others) \subseteq Nat /\ Intervals \subseteq Nat \ {0} /\ 1 \in Intervals
  /\ MaxConcurrent \in Nat \ {0}

VARIABLE broadcasts

Disabled == 0
Default == 1

\* list is the stored value, empty if there is none; asked is what a characteristic may have
\* been set to: a request that was answered with an error may have been carried out.
Unset == [list |-> <<>>, asked |-> [c \in Supporting |-> {Disabled}]]

Init == broadcasts = Unset

\* The buffer, and how much of it the list takes with the accessory's ID in front
MaxBytes == 2 + 3 * MaxConcurrent + 1
NumBytes(list) == 2 + 3 * Len(list)

\* Where the search ends: at the first item that does not belong to a smaller IID
Position(list, c) == Min({i \in 1 .. Len(list) + 1 : i <= Len(list) => list[i].cid >= c})
IsAt(list, i, c) == i <= Len(list) /\ list[i].cid = c

Item(c, interval) == [cid |-> c, interval |-> interval]

\* HAPBLECharacteristicGetBroadcastConfiguration
GetBroadcastConfiguration(list, c) ==
  LET i == Position(list, c)
  IN  IF IsAt(list, i, c) THEN list[i].interval ELSE Disabled

-----------------------------------------------------------------------------
(* The store                                                                              *)

\* A value is set or removed for characteristic c; if that fails it may be done all the same.
Stores(list, c, interval) ==
  \/ broadcasts' = [broadcasts EXCEPT !.list = list, !.asked[c] = {interval}]
  \/ \E kept \in {broadcasts.list, list} :
       broadcasts' = [broadcasts EXCEPT !.list = kept, !.asked[c] = @ \cup {interval}]

AlreadySo(c, interval) == broadcasts' = [broadcasts EXCEPT !.asked[c] = {interval}]

\* Mutant: another item is taken when it just does not fit.
IsFull_Late(list) == NumBytes(list) >= MaxBytes

IsFull(list) == NumBytes(list) >= MaxBytes - 1 - 3

\* Mutant: a new item goes to the end.
Place_End(list, c) == Len(list) + 1

Place(list, c) == Position(list, c)

\* HAPBLECharacteristicEnableBroadcastNotifications
Enable(list, i, c, interval) ==
  \/ IsAt(list, i, c) /\ list[i].interval = interval /\ AlreadySo(c, interval)
  \/ /\ IsAt(list, i, c) /\ list[i].interval # interval
     /\ Stores([list EXCEPT ![i].interval = interval], c, interval)
  \/ ~IsAt(list, i, c) /\ IsFull(list) /\ UNCHANGED broadcasts
  \/ /\ ~IsAt(list, i, c) /\ ~IsFull(list)
     /\ Stores(InsertAt(list, Place(list, c), Item(c, interval)), c, interval)

\* Mutant: the item where the search ended is removed, whoever it belongs to.
Disable_Anyone(list, i, c) ==
  IF i <= Len(list) THEN Stores(RemoveAt(list, i), c, Disabled) ELSE AlreadySo(c, Disabled)

\* HAPBLECharacteristicDisableBroadcastNotifications; with its last item the value is removed.
Disable(list, i, c) ==
  IF IsAt(list, i, c) THEN Stores(RemoveAt(list, i), c, Disabled) ELSE AlreadySo(c, Disabled)

-----------------------------------------------------------------------------
(* Requests                                                                               *)

EnableBroadcasts == 1
DisableBroadcasts == 0
NotGiven == -1
Invalid == -2

\* The properties ask to enable or to disable; an interval goes with the former only.
IsWrong(c, properties, interval) ==
  \/ properties = Invalid
  \/ properties = EnableBroadcasts /\ (interval = Invalid \/ c \notin Supporting)
  \/ properties # EnableBroadcasts /\ interval # NotGiven

\* HAPBLECharacteristicHandleConfigurationRequest; if the list cannot be read nothing is done.
HandleConfigurationRequest(c, properties, interval) ==
  LET list == broadcasts.list
      i == Position(list, c)
  IN  IF IsWrong(c, properties, interval) \/ properties = NotGiven \/ c \notin Supporting
      THEN UNCHANGED broadcasts
      ELSE \/ UNCHANGED broadcasts
           \/ /\ properties = EnableBroadcasts
              /\ Enable(list, i, c, IF interval = NotGiven THEN Default ELSE interval)
           \/ properties = DisableBroadcasts /\ Disable(list, i, c)

\* HAPRestoreFactorySettings purges the domain; if that fails the value may be there still.
RestoreFactorySettings ==
  \/ broadcasts' = Unset
  \/ \E kept \in {broadcasts.list, <<>>} :
       broadcasts' = [list |-> kept, asked |-> [c \in Supporting |-> broadcasts.asked[c] \cup {Disabled}]]

Next ==
  \/ \E c \in Supporting \cup Others, properties \in {NotGiven, Invalid, EnableBroadcasts, DisableBroadcasts},
        interval \in {NotGiven, Invalid} \cup Intervals :
       HandleConfigurationRequest(c, properties, interval)
  \/ RestoreFactorySettings

-----------------------------------------------------------------------------
\* What is found for a characteristic is what was last asked for, whatever has been asked for
\* others since and whichever access of the store has failed, and the value never fills the
\* buffer it is read into, with which every later request would fail (HAPBLECharacteristic
\* +Broadcast.c:63).
BroadcastsAsAsked ==
  /\ \A c \in Supporting : GetBroadcastConfiguration(broadcasts.list, c) \in broadcasts.asked[c]
  /\ NumBytes(broadcasts.list) < MaxBytes

=============================================================================
