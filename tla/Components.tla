----------------------------- MODULE Components -----------------------------
(* Components that have nothing to do with each other and are small enough to share  *)
(* a run: the run loop and the streams, the key-value store, the coprocessor, and    *)
(* what an accessory says over Bluetooth LE without a connection. Each has its own   *)
(* variables, but for the streams, which have a run loop of their own in those of    *)
(* RunLoop; part is the one that is explored.                                        *)
EXTENDS RunLoop

CONSTANTS
  StreamHandles, StreamFds, StreamEvents, Slots,                        \* TCPStreamManager
  Keys, Contents, Absent, Torn, Privileged,                             \* KeyValueStore
  MaxCounter, Challenges, CertificateLengths, MaxCertificateBytes,      \* MFiHWAuth
  MaxGSN, KeyLife, Values,                                              \* BLEAdvertising
  Supporting, Others, Intervals, MaxConcurrent                          \* BLECharacteristicConfiguration

VARIABLES
  part,
  listener, streams, numTCPStreams,
  file, durable, leftover, op, promised, ignored,
  m,
  a,
  broadcasts

Streams == INSTANCE TCPStreamManager
             WITH Handles <- StreamHandles, Fds <- StreamFds, Events <- StreamEvents
Store == INSTANCE KeyValueStore
Coprocessor == INSTANCE MFiHWAuth
Advertising == INSTANCE BLEAdvertising
Broadcasts == INSTANCE BLECharacteristicConfiguration

storePart == <<file, durable, leftover, op, promised, ignored>>

-----------------------------------------------------------------------------
(* The properties of the components, each stated in its module                       *)

\* The streams of the TCP stream manager: none is kept waiting (TCPStreamManager).
StreamsServed == part = "streams" => Streams!StreamsServed

\* What is found in the key-value store after a failure of the power (KeyValueStore)
StoreAtomic == Store!StoreAtomic

\* The coprocessor is served until it may be switched off (MFiHWAuth).
CoprocessorServed == part = "mfi" => Coprocessor!CoprocessorServed

\* Broadcast keys and nonces (BLEAdvertising)
NonceNotReused == Advertising!NonceNotReused

\* What controllers can tell from advertisements (BLEAdvertising), and which characteristics
\* are broadcasted for them (BLECharacteristicConfiguration)
ControllersInformed ==
  /\ Advertising!ControllersInformed
  /\ part = "broadcasts" => Broadcasts!BroadcastsAsAsked

=============================================================================
