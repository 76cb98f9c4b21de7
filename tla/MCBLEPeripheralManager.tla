------------------------ MODULE MCBLEPeripheralManager ------------------------
(* Pair Verify, Pairings, and a characteristic with events.                     *)
EXTENDS BLEPeripheralManager

Base == [iid |-> 3, serviceIID |-> 1, role |-> "ordinary", dropsSecurity |-> FALSE,
         readable |-> TRUE, readableWithoutSecurity |-> FALSE,
         writable |-> TRUE, writableWithoutSecurity |-> FALSE,
         readRequiresAdmin |-> FALSE, writeRequiresAdmin |-> FALSE,
         requiresTimedWrite |-> FALSE, supportsWriteResponse |-> FALSE, supportsEventNotification |-> FALSE,
         serviceProcedures |-> FALSE, supportsConfiguration |-> FALSE, protocolInformation |-> FALSE]
Pairing == [Base EXCEPT !.iid = 4, !.dropsSecurity = TRUE, !.readable = FALSE, !.writable = FALSE,
                        !.readableWithoutSecurity = TRUE, !.writableWithoutSecurity = TRUE,
                        !.supportsWriteResponse = TRUE]

MCDb == [Verify   |-> [Pairing EXCEPT !.role = "PairVerify"],
         Pairings |-> [Base EXCEPT !.iid = 4, !.role = "Pairings", !.supportsWriteResponse = TRUE],
         Switch   |-> [Base EXCEPT !.supportsEventNotification = TRUE, !.writeRequiresAdmin = TRUE,
                                   !.readRequiresAdmin = TRUE]]

\* Writes of two bytes in one fragment and in two, and of too many; a timed write and its
\* execution, with a body of its own; a read; a request for another characteristic; and noise.
MCPackets ==
  [Verify   |-> {<<0, Write, 1, 4, 0>>},
   Pairings |-> {<<0, Write, 1, 4, 0>>},
   Switch   |-> {<<0, Write, 1, 3, 0, 2, 0, 5>>, <<0, Write, 1, 3, 0, 3, 0, 5, 6>>, <<128, 1, 6>>,
                 <<0, TimedWrite, 1, 3, 0, 2, 0, 7, 8>>, <<0, ExecuteWrite, 2, 3, 0>>,
                 <<0, ExecuteWrite, 2, 3, 0, 2, 0, 9, 9>>, <<0, Read, 2, 3, 0>>,
                 <<0, SignatureRead, 2, 4, 0>>, <<128, 2>>, <<7>>}]
=============================================================================
