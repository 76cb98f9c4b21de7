# A TLA+ model of the HomeKit Accessory Development Kit

This directory models the HomeKit ADK of this repository in TLA+. The modules are
translated from the C sources; TLC checks them on small instances, and TLAPS proves
the most important properties for instances of any size. `PROJECT.json` maps every
definition to the lines it stands for.

## 1. The system

The ADK serves a HomeKit accessory over IP (HTTP on TCP) and over Bluetooth LE. It is
a library driven by one run loop: timers, readiness of file handles and calls of the
application are served one at a time, and each callback runs to its end. There are no
threads. What makes it hard is that a callback changes the state of several
connections, leaves the rest of the work to timers, and calls back into the
application, which may call the library again.

| Part | State | Operations | Talks to |
|---|---|---|---|
| IP server engine, `HAP/HAPIPAccessoryServer.c` | session descriptors in fixed slots (buffers, state, security session, subscriptions, timed write), `numSessions`, engine state, four timers | stream events, accept, read/write/subscribe requests, pairing requests, notifications, stop | TCP stream manager, timers, sessions, service discovery, application handlers |
| Accessory server, `HAP/HAPAccessoryServer.c` | server state, callback timer, configuration and state numbers in the key-value store | create, start, stop, release, raise event, `handleUpdatedState`, clean-up of pairings | both transports, key-value store |
| Sessions, `HAP/HAPSession.c` | keys and nonces, pairing ID, transient flag, procedure state | pair setup/verify/pairings writes and reads, encrypt, decrypt, is-secured | pairing procedures, key-value store |
| Pairing procedures, `HAP/HAPPairing*.c` | state machines M1..M6 per session; one pair setup per server; pairings in the key-value store | add, remove, list; time-outs and tries | sessions, crypto, store |
| BLE server, `HAP/HAPBLE*.c` | one connection, GATT table, procedures, GSN, broadcast key, advertising state | reads and writes of fragments, disconnect, time-outs, safe-to-disconnect | peripheral manager, sessions, accessory server (delays its stop) |
| Protocol formats, `HAP/HAPTLV*`, `HAPIPAccessoryProtocol.c`, `HAPIPAccessory.c`, `HAPBLEPDU*` | none, or an incremental serializer | parse, serialize | the servers |
| POSIX platform, `PAL/POSIX` | timer list, file handle list, streams and listener, files of the key-value store | register, fire, select, accept, atomic replace | operating system |
| Others | crypto, MFi coprocessor, NFC, service discovery, tests, tools, sample applications, third-party parsers | | |

### Behaviours that are hard

- A session is closed by its own request, by another client's pairing request, by a
  timer, by a stop, or by the peer; its slot is freed later by a zero-delay timer, and
  the last one freed completes a stop.
- Event notifications are raised at any time, sent only when the session waits for a
  request with an empty buffer, and coalesced over a second, with exceptions.
- A pairing removed by one client ends the sessions of another, in whatever state.
- A stop waits for clients, which owe the server nothing; only the idle timer helps.
- A start, a stop and the application's callback overlap; Bluetooth LE may hold a stop.
- Procedures that span several requests (pair setup, timed writes, BLE procedures, the
  chunked accessory database) are interrupted by disconnects and time-outs.
- The key-value store replaces values by rename and may be cut short by a crash.

What makes each part correct, and the places where it could go wrong, are the
`hazards` of `PROJECT.json`, each at its line with the properties that watch it.

## 2. The modules, and the plan

| Part | Modules | Runs | Proofs |
|---|---|---|---|
| IP server engine and life cycle (3) | `IPAccessoryServer`, abstract `AccessoryServerLifecycle` | `Sessions`, `EventsAndSetup`, `ServerLiveness`, `OrphanTimer` | `IPAccessoryServerProofs` |
| Run loop (4) | `RunLoop`, `SelfPipe`; `TCPStreamManager` on top of `RunLoop` | `Components`, `TimerOrder` | `ComponentsProofs` (not of `SelfPipe`) |
| Pair Setup (5) | `SetupInfo`, `PairSetup` | `EventsAndSetup` | `PairSetupProofs` |
| Pair Verify, Pairings (6) | `PairVerify`, `Pairings` | `Pairings` | `PairingsProofs` |
| What an accessory is across starts (7) | `Configuration`, `PairedAccessory` | `Pairings` | `PairingsProofs` |
| Characteristics over IP (8) | `Characteristic`, `JSONUtils`, `IPAccessoryProtocol`, `CharacteristicRequests` | `Requests` | `CharacteristicRequestsProofs` |
| The bytes of an IP session (9) | `HTTPReader`, `IPSessionInput`; `IPAccessory`, `AccessorySerialization` | `Components`, `FramesKept` | `HTTPReaderProofs`, `IPSessionProofs` (not of the last two modules) |
| A Bluetooth LE connection (10) | `BLETransaction`, `BLESession`, `BLEProcedure`, `BLEPeripheralManager` | `BLE`, `FallbackTimer`, `Components` | `BLEProofs` |
| Values and broadcasts over Bluetooth LE (11) | `BLECharacteristicValue`, `BLEAdvertising`, `BLECharacteristicConfiguration` | `Components`, `ValueHasRoom` | `ComponentsProofs` (not of values) |
| TLVs (12) | `TLV`, `TLVReader` | `Components` | |
| Key-value store, coprocessor (13) | `KeyValueStore`, `MFiHWAuth` | `Components` | `ComponentsProofs` |

Each module is the state of one component with one action per callback, call or system
call of it; those without a state of their own (`Characteristic`, `JSONUtils`,
`BLETransaction`, `BLESession`, `BLEProcedure`, `TLV`, `HTTPReader`, ...) are operators
named after the C functions. Composition is by `EXTENDS` where components share a state
(the peripheral manager and its procedures; the streams and the run loop; Pairings and
Pair Verify) and by `INSTANCE` where they do not. The modules `MC...` give the sample
databases, messages and versions of a run.

`MCComponents` is one specification for the components that need few states: `part`
says at the start which of them is explored, the variables of the others stay as they
are. `MCPairings` does the same with `Pairings` and `Configuration`, `MCEventsAndSetup` with
the slots of the IP server (`"slots"`) and Pair Setup (`"setup"`). A property of such
a run is a conjunction over the parts, named for what the parts have in common. Deadlock
is not checked in `Components` because a run loop without handles and timers rightly
waits for ever. The components among them that are proved about are instantiated in
modules of their own, which the modules of the runs and of the proofs extend alike, so
that both speak of the same properties and TLC evaluates the assumptions the proofs use:
`Components` (streams, store, coprocessor, advertisements, broadcasts) and `PairedAccessory`;
`IPSessionInput` is extended as it is.

Every safety property of the modules with a proof module in the table is proved for all
values of the constants that satisfy the assumptions named with it. These stay with TLC:

- liveness (`StopCompletes`, `SilentIsEvicted`, `EventDelivered`, `TimerFires`,
  `ScheduledIsInvoked`, `BLEStops`), which depends on fairness;
- what is read and written piece by piece with recursive operators (`ReadAsWritten`): `TLV`,
  `TLVReader`, `BLECharacteristicValue` and `AccessorySerialization` follow the nesting of
  their data, as the code does, and TLAPS has no induction over data here. The loops of
  `HTTPReader` and `IPSessionInput` are functions from the number of turns to the state, so
  that they can be proved about;
- the runs that show a disagreement, which expect a violation.

## 3. `IPAccessoryServer`

One action is one callback of the run loop, with everything it calls.

| Action | Code |
|---|---|
| `BytesAvailable`, `SpaceAvailable` | `HandleTCPStreamEvent`: stamp, read or write, handle the input, then `handle_io_progression` |
| `Accept` | `HandlePendingTCPStream` with a free slot, `RegisterSession` |
| `CollectGarbage` | `handle_garbage_collection_timer`, `collect_garbage` |
| `StateTransitionTimer`, `MaxIdleTimeTimer` | both `schedule_max_idle_time_timer` |
| `EventNotificationTimer` | `schedule_event_notifications` |
| `Start`, `StartRefused`, `Stop` | `HAPAccessoryServerStart` and `Stop`, with `engine_start` and `engine_stop` |
| `HandleUpdatedState` | `CallbackTimerExpired` |
| `AppRaisesEvent` | `HAPAccessoryServerRaiseEvent`, `...OnSession` |
| `RemovePairingOverBLE` | `/pairings` served by the other transport |
| `Tick` | the clock |

Inside an action the sessions are changed one after another by operators named after
the C functions (`HandleHTTP`, `HandleInput`, `OutputCompleted`, `CloseRemoved`, ...):
each takes the function of all sessions and returns it, or the set of its possible
values. State:

- `sess[s]` is the descriptor in slot `s`. `input` counts what is in the inbound buffer
  in units of a read, `output` what is left to write; only zero, positive and full
  matter to the code. `auth` stands for the HAP session and the pairing it points to:
  `"none"`, `"transient"`, `"verified"`, or `"removed"` (verified, and the pairing is
  no longer in the store); `secured` is `isSecured`, which the first encrypted request
  sets. `idle` and `quiet` are the ages of `stamp` and `eventNotificationStamp`, capped
  at the limits they are compared with. `interest` is what is registered with the
  stream manager.
- `due` holds the zero-delay timers registered (`"gc"`, `"transition"`, `"callback"`),
  `idleTimer` and `eventTimer` the time left of the others.
- `orphan` remembers that an event timer is registered whose handle is lost.

Requests are reduced to their effect on sessions: pairing messages, subscriptions,
events raised by write handlers, or nothing; every request gets a response of 1 to
`OutboundSize` units. Values of characteristics, timed writes and the database
serialization do not touch this state. A failed assertion (`handle_input`) ends the
process: the model has no successor there, and `SecuredWhileReading` says that it is
not reached.

Dead in the code and left out: `nextState == Running` (no caller sets it), MFi SAP
security sessions (never opened), `receivedConfig` (never set). Resources of the
platform (timers, file handles) are taken to suffice: the code stops the process
otherwise.

`AccessoryServerLifecycle` is what `HAP.h` promises about start and stop: connections
are opened only between a start and the end of the stop that follows it; when the
server reports idle, none is left.

### Properties

Several of these are conjunctions of parts with names of their own, which is how the
proofs treat them. Most parts are what an assertion or precondition of the code takes for
granted at a place far from the one that has to establish it.

- `SlotsAccounted` (`SessionsCounted`, `ClosedAwaitsCollection`): no slot is lost.
- `LifeCycleConsistent` (`EngineStates`, `ReportedState`): the engine, its descriptors,
  and what the application has been told agree.
- `NeverWaitsOnClients` (`StopContinues`, `IdlenessWatched`): a stop always has a timer
  or an event that carries it on, and a full server always watches for idle clients.
- `WaitsAreRegistered` (`PendingIsScheduled`, `InterestFollowsState`): whatever a session
  waits for is registered with the run loop.
- `OnlySecured` (`SubscribersSecured`, `SecuredWhileReading`): sessions without a pairing
  are not served and not notified.
- `NotificationsSent`, a property of steps: a notification leaves the pending ones only
  by being sent, or with its subscription. It is claimed of the slots whose buffer takes any
  notification (`Roomy`): `write_event_notifications` skips one that does not fit, logs it
  and clears its flag. What must not happen is that this loses notifications of other
  slots, or leaves the session where it never gets another one or holds up a stop: the
  run `ServerLiveness` has such a slot, and the theorem any number of them. Refinement: `LifecycleKept`. Liveness:
  `StopCompletes`, `EventDelivered`, `SilentIsEvicted`.

### Runs and bounds

| Run | Instance | Why it is enough |
|---|---|---|
| `Sessions` | 3 slots, no characteristics, pipelining, spurious wake-ups, Bluetooth LE that removes pairings and holds a stop | three clients: one that acts, one it removes, one in between; full and not full |
| `EventsAndSetup`, part `"slots"` | 2 slots, 2 characteristics (one immediate), pipelining, no Bluetooth LE | one client's notification held back on behalf of another; both kinds of delay |
| `ServerLiveness` | 2 slots, 1 characteristic, fairness; the buffer of one slot takes any notification, that of the other perhaps not (`Roomy`) | full and stopping, one client silent, one busy or notified; a notification skipped because it does not fit |
| `OrphanTimer` | 2 slots, read handlers that raise events | the violation below |

A buffer of 2 units is empty, partly full or full; a delay of 1 tick has passed or has
not. The slots of the first two runs are interchangeable and reduced by symmetry; those of
`ServerLiveness` are not, since they differ in `Roomy`.

Fairness is that of the run loop: a registered timer whose deadline has passed fires,
and the clock advances. Clients, streams and the application owe nothing, except that
`EventDelivered` speaks of a client that keeps coming back to rest. Stops are checked
without pipelining and without Bluetooth LE: a client that always leaves the beginning
of a next request in the buffer is never at rest, and can make a stop wait for as long
as it goes on; and the BLE transport holds a stop until its connection ends.

### Disagreements found

- `OrphanTimer`: a read handler that raises an event while a notification is composed
  makes `schedule_event_notifications` overwrite the handle of the timer just
  registered; when the lost timer fires, a precondition fails.
- Without a run: a pairing removed over Bluetooth LE closes no IP session; the next
  request of that client fails the assertion at the top of `handle_input`
  (`HAPIPAccessoryServer.c:3208`), since only `handle_pairing_data` closes sessions.
  `OnlySecured` is therefore checked and proved without Bluetooth LE.
- Without a run: `handle_pairing_data` says that sessions whose pairing has been removed
  "need to be closed as soon as possible", but closes only those with `isSecured` set. A
  session between the end of pair verify and its first encrypted request stays open; what
  it sends next is read as plain text. The model has this behaviour, and
  `SecuredWhileReading` therefore speaks of secured sessions only.

### Proofs

`IPAccessoryServerProofs` proves, for every number of slots and characteristics and
every bound allowed by `ServerAssumption`, that `IInv` is inductive and, from it,
`TypeOK`, `SlotsAccounted`, `LifeCycleConsistent`, `WaitsAreRegistered`,
`SlotsNotStolen` (a slot is reused only after it has been closed and collected), the
refinement `LifecycleKept`, and, without Bluetooth LE, `OnlySecured`.

The properties need each other, which is why one invariant carries them all. That an
idle engine has no session follows from the count; that a timer of an idle engine
cannot fire, from `EngineStates`; what a stream event finds in its session, from
`InterestFollowsState`; and `handle_io_progression` looks after one session only, so
`PendingIsScheduled` must have held for the others. `AllGood` adds that free and closed
descriptors hold nothing. The proof follows the call tree: `Handled` is what serving a
request may do to the sessions, `Outcome` what a stream handler leaves, `Notified` what
sending notifications does; one lemma per action then preserves `IInv`.

`NeverWaitsOnClients` needs two facts more than `IInv` (`Watched`): the listener of a
stopping engine is closed by a timer that is registered, and whoever fills the last slot
or leaves it full registers the idle timer. `NotificationsSent` is proved for any set `Roomy`.
The liveness properties are out of the prover's reach.

## 4. `RunLoop` and `SelfPipe`

`IPAccessoryServer` takes it for granted that no timer fires early or is lost, and that a callback
may remove any other; `RunLoop` is the code that has to provide this. A callback is not
atomic here: between its call (`running` is set) and `Return` it makes any calls it
likes, one action each.

| Action of `RunLoop` | Code of `HAPPlatformRunLoop.c` |
|---|---|
| `FileHandleRegister`, `FileHandleUpdateInterests`, `FileHandleDeregister` | the functions of these names; `CursorPast` is the move of `fileHandleCursor` |
| `TimerRegister`, `TimerDeregister` | the functions of these names; `IsSlot` is the search for the place in the list |
| `Run`, `RunLoopStop` | `HAPPlatformRunLoopRun` up to its loop, `HAPPlatformRunLoopStop` |
| `Select` | one round of the loop: descriptor sets, time-out, `select` |
| `FireTimer`, `TimersDone` | `ProcessExpiredTimers` |
| `VisitHandle`, `PassDone` | `ProcessSelectedFileHandles`; the end of the round |

Timers and handles are named by their address, and an address may be used again as soon
as it is freed; so may a descriptor. History only are the variables `polled`, the handles
that were registered when `select` was called, and `earlier`, the order in which timers were
registered, and the field `asked` of a timer, the deadline it was registered with: 0 is
stored as 1. `select` may report any subset of what it was asked for, and
returns without a ready handle only if a timer has expired.

`SelfPipe` is the way callbacks of other threads and signal handlers into the loop:
messages of a header and a context of 0 to `UINT8_MAX` bytes, written whole, read
without regard to their boundaries into a buffer of the size of the largest one. The
bytes themselves do not matter, only how many of each message have been moved, so the
state is the sequence of context sizes, the fill level, and where the handler is.
Whether `char` is signed depends on the compiler: `CharMax` says it.

| Action of `SelfPipe` | Code |
|---|---|
| `ScheduleCallback` | `HAPPlatformRunLoopScheduleCallback`, atomic because a message fits `PIPE_BUF` |
| `HandleSelfPipe` | the read at the top of `HandleSelfPipeFileHandleCallback` |
| `Invoke`, `Returned`, `Handled` | one turn of its loop up to the callback, after it, and its end |

`TCPStreamManager` extends `RunLoop` with the listener and the fixed array of streams of
`HAPPlatformTCPStreamManager.c`: `OpenListener`, `CloseListener`, `Accept`,
`UpdateInterests` and `Close` are calls, made by timers and by the callbacks of any
handle, in the midst of a pass. The server opens the listener only when it has no streams,
and asks for one event at a time. A new descriptor is the lowest free one, as in POSIX, so
descriptors and handles are reused at once.

### Properties, runs and bounds

All are checked in `Components`, where `part` is `"loop"`, `"pipe"` or `"streams"`.
`TimersFireInOrder` says what the code does, for every deadline: no timer fires early, an
earlier deadline fires first, equal ones in the order of registration, but timers of
deadline 0 before all others and *the last registered first*. What the header promises
instead is `TimersFireAsPromised`, which the run `TimerOrder`, with deadlines 0, 1 and 2,
finds violated.

| Part | Instance | Shows |
|---|---|---|
| `"loop"` | 2 handles, 2 descriptors, 2 timers, deadlines 0 and 2, fairness | `PassIsSound` (`CursorIsLive`, `NoneSkipped`) and `CalledWasPolled`: a callback removes itself or the handle at the cursor, and has an address and a descriptor used again in the same pass; `TimersFireInOrder`: equal deadlines, an earlier and a later one, of which 0 is one; `TimerFires`: a handle that is always ready does not hold up timers |
| `"pipe"` | header of 2, contexts of 0, 3 and 7, pipe of 18: two of the largest messages | `ScheduledIsInvoked`: whatever has been scheduled is invoked, with every split of every message |
| `"streams"` | 2 streams, 3 handles, 3 descriptors | `StreamsServed`: the listener is registered exactly while a stream is free, and handles, streams and interests fit together |

One kind of event is enough for the loop: the code treats the three alike. Fairness is
that the loop goes on and callbacks return (`Loop`), that the clock advances (`Tick`), and
for the pipe that its handler runs; no callback owes any call and no descriptor need
become ready. `TimerFires` assumes that the loop comes back to `select` again and again:
timers that always register one that has expired already are served for ever, which the
code leaves to its callers.

### Disagreements found

- `TimerOrder`: timers registered with deadline 0 fire in reverse order of registration,
  against `HAPPlatformTimer.h` and the comment on the search in
  `HAPPlatformTimerRegister`: the deadline is stored as 1 but compared as 0
  (`HAPPlatformRunLoop.c:321`). The servers register such timers all the time, and
  `IPAccessoryServer` therefore lets zero-delay timers fire in any order.
- Without a run: the size of a context is read through `char`. Where that is signed, a context of more
  than 127 bytes is never complete, and the buffer fills up until its assertion fails.
  Nothing in the repository schedules a context that large. `CharMax` is the constant for
  it; the run is the build with unsigned `char` and all sizes.
- Without a run: the listening socket is never made non-blocking: if a client is gone between `select`
  and `accept` (`HAPPlatformTCPStreamManager.c:451`), the run loop waits for the next.

### Proofs

`ComponentsProofs` proves for all sets of handles, descriptors, timers and deadlines that
`TypeOK`, `PassIsSound`, `CalledWasPolled` and `TimersFireInOrder` hold, deadline 0 included.
The invariant falls into three parts that do not depend on each other:
`HandlesInv` (no address and no descriptor twice; the cursor is in the list; who still
waits stands at or after the cursor and was polled), `TimersInv` (each timer of the
list fires before those behind it in the sense of `TimersFireInOrder`: `InFiringOrder`), and `LoopInv` (state and phase). One lemma per
list says what removing and inserting an element does to positions; then there is one
lemma per action.

For any number of streams, at least one, as `HAPPlatformTCPStreamManagerCreate` demands,
it proves `StreamsServed` of `TCPStreamManager`. The property is inductive with types
beside it (`StreamsInv`), since the loop leaves the list and the interests alone; what it
takes is the count of the open streams at both ends: that a smallest free position exists
for `Accept`, and that the close of any stream of a full array, and of no other, puts the
listener back on duty. Descriptors play no part in it. `TimerFires` and `SelfPipe` are
only model-checked.

## 5. `SetupInfo` and `PairSetup`

Pair Setup makes a controller that knows the setup code the first pairing of the
accessory. Its state is spread over three places: `procedure` is the part all sessions
share (`server->pairSetup`), `session[s]` the part of one session, and `setup` the setup
code with its locks and timers, and what a display and a programmable NFC tag show of it.
`SetupInfo` has one operator per function of `HAPAccessorySetupInfo.c`, from a value of
`setup` to the set of its possible values; `PairSetup` has the actions.

| Action | Code |
|---|---|
| `WriteM1`, `WriteM3`, `WriteM5` | `HAPPairingPairSetupHandleWrite` with a message that `ProcessM1`, `M3`, `M5` takes; what comes before its switch (restart by the same controller, take-over after a time-out, claim) is `Arrives` |
| `WriteUnexpected`, `WriteUnparsable` | the same with any other message |
| `ReadM2`, `ReadM4`, `ReadM6`, `ReadError` | `HAPPairingPairSetupHandleRead` |
| `Open`, `Close` | a connection begins; `HAPSessionInvalidate` when it ends |
| `TimeOut` | 30 seconds pass since the claim |
| `StartServer`, `StopServer`, `EngineIdle`, `UpdateState` | start and stop of the server, `CallbackTimerExpired` |
| `RemovePairing` | the last admin pairing is removed |
| `SetupInfoChanges` | the refresh timer, the NFC timer, and the application's calls |
| `RequestAborts` | a request that fails the assertion of `HAPSessionIsTransient` |
| `Restart` | the process ends and is started again; `paired` and `attempts` stay |

The IP server writes and reads in one callback: `pending` holds everything else up in
between. Over Bluetooth LE the read is a request of its own, so time-outs, timers and
messages of other sessions fall between the two. A proof is named by the setup code it
was made from (`NoCode` for an illegal public key) and is good if that is the code that
`B` was made from in M2 and the one fetched again in M4. An assertion or precondition
that fails is recorded in `setup.fault`; only `Restart` follows.

Left out: the contents of keys and signatures; errors of the key-value store except in
M5 and M6, and of the MFi coprocessor except in M4 (an M4 that fails covers them); the
deprecated legacy pairing mode; accessories without a setup ID, for which display and
tag show no payload; the 10-second link termination of Bluetooth LE, which is `Close`.
The application calls only a server that is not idle. `EngineIdle` stands for the run of
the IP engine to its end, which is `IPAccessoryServer`.

### Properties, runs and bounds

`OneProcedure` (a session that was given an M2 owns the procedure until the end, and an
owner always has a connection), `CodeSettled` (`CodeIsFixed`: from M2 on nothing replaces
the code; `CodeShown`: display and tag show the code that the next attempt is checked
against), `OtherAssertionsHold` (no assertion fails but the four below), `TriesLimited`,
`PairedByProof` (nobody is paired but by a proof of the code on the display) and
`TriesRemembered`. There is no fairness and no liveness: controllers owe nothing.

Part `"setup"` of the run `EventsAndSetup` has two IP sessions, or one of each transport, or one
of Bluetooth LE alone, on every kind of accessory (display or not, NFC or not), two
dynamic codes and one static one: the code of an attempt and another. Two controllers
suffice because a third finds the procedure claimed as the second does; the theorems are about
any number.
`MaxTries` is 2 where the code has 100, so that the limit is reached. Codes are
interchangeable and reduced by symmetry.

### Disagreements found (without a run)

Four assertions do fail, and are reached by the run as values of `setup.fault`:

- `"accessory"`: on a server without an IP engine `HAPAccessoryServerStop` completes the
  shutdown at once but leaves `callbackTimer` registered (`HAPAccessoryServer.c:763`), for
  instance right after a start. When it fires, the idle server generates and shows a setup
  code, with its refresh timer, and reads `server->primaryAccessory->category` through a
  null pointer. The next start then finds the refresh timer registered, against the
  precondition of `HAPAccessorySetupInfoHandleAccessoryServerStart`.
- `"transient"`: a transient session over IP stays open while another controller pairs
  over Bluetooth LE, which looks at Bluetooth LE sessions only. The next request that
  asks whether that session is transient fails `HAPAssert(!HAPAccessoryServerIsPaired(...))`.
- `"payload"`: with a display or a tag, NFC pairing mode ends between the write of M5
  and the read of M6 over Bluetooth LE. The code is locked, so it is still there, and
  `SynchronizeDisplayAndNFC` fails `HAPAssert(!flags.isPaired)`.
- `"storage"`: if the store fails in M5 or M6, `ProcessM5` or `GetM6` returns
  `kHAPError_Unknown`, which the assertions in `HandleWrite` (`HAPPairingPairSetup.c:1314`)
  and `HandleRead` (`:1425`) do not allow.

And besides:

- A controller that writes M1 after its own M5 over Bluetooth LE ends the procedure with
  the code kept; the accessory is paired and the display goes on showing the code, while
  `HAPAccessorySetupInfo.h` says that a successful attempt "stops advertising a setup code".
- The refusal in M2 of a split procedure without a code to restore is never taken, because
  `PairingStart` has just prepared a code.

### Proofs

`PairSetupProofs` proves `SetupTypeOK` and all properties of Pair Setup that are checked,
for any sessions, codes, kinds of accessory and limit of tries, from `SetupInfoAssumption`
(at least one dynamic code; Bluetooth LE has at most one connection) and
`PairSetupAssumption`. Apart from `SetupTypeOK` none of them is inductive. `IInv` adds what the code relies on:

- of the setup code (`SetupInv`): a locked code is there and has no refresh timer, a code
  that is kept is locked, a code on a display is locked or refreshed, and display and tag
  show it. Without these a refresh timer might replace the code of a procedure;
- of the procedure (`WorldInv`): its owner has the code locked; a session in M2 or M3
  whose code was kept has asked for that, so that M4 fetches the same code again; a
  session in M4 or M5 has given a proof of the code; the owner in a paired accessory is
  the one that has just paired it;
- of the server: an idle or drained one has no sessions, so nobody is pairing when
  `CompleteShutdown` looks; an idle one has no refresh timer unless an assertion has
  failed; fewer than `MaxTries` wrong proofs have been given while one can be verified.

The proof follows the code: one lemma per function of `HAPAccessorySetupInfo.c` says that
it keeps `SetupInv`, what it leaves of the code (`Frame`, and `Keeps` for a locked code)
and which of its assertions hold; one per part of a handler (`Resets`, `Aborted`,
`Retried`, `TakenOver`, `Claimed`, `Arrives`) that it keeps `WorldInv`; `HandledInv`
concludes the invariant from the world at the end of a handler; then there is one lemma
per action. That the four known failures can be reached is only
model-checked.

## 6. `PairVerify` and `Pairings`

Who is paired is the domain `Pairings` of the key-value store, a fixed number of keys;
who is talking is the state of the sessions. The two change independently, and a key that
has become free is given to the next pairing.

| Action | Code |
|---|---|
| `VerifyStep` | one of: connect; a message M1, M3 or a resume request that `HAPPairingPairVerifyHandleWrite` takes, or one it refuses; the response of `HandleRead` (`StartSession` and `SaveSession` when it ends the exchange); disconnect |
| `PairingsStep` | one of: a request to add, remove or list, or a bad one, taken by `HAPPairingPairingsHandleWrite`; its response, which carries it out (`AddPairing`, `RemovePairing` with `CleanupPairings`) |
| `PairSetup` | an admin pairing is made when there is none (section 5) |
| `Restart` | the process ends; pairings are persistent, cache and sessions are not |

Over IP write and read are one callback (`pending` holds everything else up); over
Bluetooth LE anything may come between. At its top is the cache of sessions
that can be resumed, with its time stamp that wraps. Cryptography is taken to work: a
signature or tag is right if the one who owns the key made it in this exchange. `stale`
is history: the pairing a session has proven is gone. (If its key is taken by another
pairing before the session ends, the session counts as that pairing's; the code cannot
tell the difference, and `VerifiedIsPaired` excludes it.)

Run `Pairings`, part `"pairings"`: two controllers (symmetric), one session of each
transport, two keys, one cache element, time stamps modulo 3. Errors of the store are
modelled for `Set` and for look-ups, not for the clean-up. One element means that the
choice of the least recently used one is not exercised.

- `PairingsSound` (`VerifiedIsPaired`, `AdminOrNone`): an active or resumable session is
  of the controller whose pairing it names; without an admin there is no pairing; a
  controller has one pairing.
- `ChangedByAdmin`: pairings are changed by Pair Setup or by an admin's session, although
  a removal is permitted at one moment and carried out at another.

Disagreements, without a run: errors of the store in M2 and M3 of Pair Verify
(`HAPDeviceIDGetAsString`, `HAPPairingFind`) return `kHAPError_Unknown` and fail
assertions of `HandleRead` and `HandleWrite`. So does a request about pairings whose
permission cannot be found, because the store fails or the pairing of the session is gone:
the assertions `HAPSession.c:463` (write) and `:512` (read) end the process, which is
`Restart`. The only admin gets there alone, by giving up the admin permission:
`AddPairing` purges all pairings (`HAPPairingPairings.c:203`), its own among them, and the
read of the response, which asks for the permission again, does not find it. A Bluetooth LE session whose pairing was
removed is secured again once its key is given to another controller. When the time stamp
wraps, all elements become equally old and the order of use is lost.

`PairingsProofs` proves both properties for any controllers, sessions, keys and cache
elements. What a session may do rests on the pairing it was proven to be of, so the
invariant is about every place that holds a reference to a pairing (`References`): the
active session, an exchange that is proven and not answered yet, and an element of the
cache. Each such reference is stale or names a pairing of that controller. Nothing needs
to be known of time stamps: whichever element is replaced, the others stay sound.
`ChangedByAdmin` follows because the permission is asked for again where the request is
carried out.

## 7. `Configuration`

What an accessory over IP is to its controllers: the device ID, the configuration number
and the state of pairing it announces, the long-term key, the pairings. Each change of the
store is a step; `Crash` may come between any two, and stands for errors of the store too,
since they end the process (`HAPFatalError`).

| Action | Code |
|---|---|
| `Import`, `Create` | import from another SDK by the application (`HAPLegacyImport...`); a process with some firmware |
| `Start`, `HandleFirmwareUpdate`, `SaveVersion`, `LoadLTSK`, `CleanupPairings`, `StartBridge`, `GetCN`, `DeviceIDGet` | the steps of `HAPAccessoryServerPrepareStart`, `HAPAccessoryServerLoadLTSK`, `HAPAccessoryServerCleanupPairings`, `HAPAccessoryServerStartBridge`, `HAPAccessoryServerGetCN` and `HAPIPServiceDiscoverySetHAPService` |
| `AddPairing`, `RemovePairing` | what pairing requests over IP do to the announcement |
| `Stop`, `Reconfigure` | a stop, and a start with changed accessories |
| `RestoreFactorySettings`, `RemoveAllPairings`, `PurgeDomain` | resets, key by key |

`past` is what controllers and the application remember, for the property.
`IdentityKept` (run `Pairings`, part `"identity"`): each pairing belongs to the key the
accessory proves itself with and, unless a factory reset was cut short, to the announced
device ID; one of them is an admin's; what is announced about being paired is true; a
change of firmware or configuration shows in the configuration number; no older firmware
is announced.

Bounds: firmwares 1.9, 1.10 and 1.11, of which the last is out of range because
`UINT32_MAX` is 10 (so that parsing has all outcomes); `UINT16_MAX` 5; two pairings. A
start counts by at most 2 and may be cut short `MaxCuts` times (1) in a row, with
`2 * (MaxCuts + 1) < UINT16_MAX`: in the code the announced 16 bits come round to the same
number only after some 32 766 starts cut short one after another.

`PairingsProofs` also proves `IdentityKept` for any constants of `ConfigurationAssumption`:
`UINT16_MAX` divides `UINT32_MAX`, as it does in the code, without which the announced
number would skip when the other wraps; the bound on cut starts; firmwares given from the
oldest to the newest; random numbers enough for a new one to exist. The invariant has, for
each part of the property, what the steps of a start have established so far:

- `Keyed`: as long as there is a key, all pairings are of it, and of the device ID but for
  a reset cut short; without one, pairings that remain are purged before a key is made;
- `Versions`: the version that is kept is that of a firmware at least as new as what was
  announced. Since versions grow with firmwares (`VersionsGrow`), a start that is not
  refused runs a firmware that is no older;
- `Counting`: the announced number is `k` ahead of the last one, where `k` is at most twice
  the starts cut short and what this one has counted, and is not 0 once another
  configuration or firmware has got past the step that counts it. So it is less than a
  whole round, and another number (`AheadCounts`). That `Reported` follows `IncrementCN`
  around both ends is arithmetic with remainders (`ReportedCounts`);
- `Announced`, `Imported`: what is announced is what is kept; nothing has been started
  before everything was imported.

Disagreements and remarks, without a run:

- A factory reset that is cut short is not resumed. `Configuration` is purged in the order
  of the directory: the device ID may be gone while key and pairings are there, and paired
  controllers do not find the accessory any more; the configuration number may restart.
- An import that was cut short cannot be repeated: `HAPPrecondition(!found)` fails. The
  model lets the application resume with what is missing.
- `HAPAccessoryServerRelease` zeroes the server before it tests `transports.ip`, so
  `serverEngine.uninstall` is never called.
- The status flag `sf` is updated by `handle_pairing_data` only (`HAPIPAccessoryServer.c:
  2150`): pairing or unpairing over Bluetooth LE leaves it stale until the next start. The
  model is the accessory over IP alone.
- `Main.c` never resets `clearPairings`; `HAPIPServiceDiscoverySetMFiConfigService` has no
  caller.

## 8. Characteristics over IP

`Characteristic` has the handlers of `HAPCharacteristic.c` with their constraints,
`JSONUtils` and `IPAccessoryProtocol` the parsing of requests and the length and text of
responses; `CharacteristicRequests` serves requests on secured sessions. A request is one
turn of the run loop, and each of its contexts one step, since the application answers
each.

| Action | Code (`HAPIPAccessoryServer.c`) |
|---|---|
| `PutPrepare` | `put_prepare` |
| `PutCharacteristics`, `WriteNext`, `Respond` | `put_characteristics`, `handle_characteristic_write_requests`, the response |
| `GetCharacteristics`, `ReadNext`, `Respond` | `get_characteristics`, `handle_characteristic_read_requests`, the response |
| `Tick`, `Permit`, `Reconnect` | the clock; a controller becomes or ceases to be an admin; a session ends and its slot serves another |

Run `Requests`: two sessions, eight characteristics of different formats (timed write,
admin, steps, response to writes, TLV8, button, lists of valid values), bodies that are
complete, incomplete and wrong, a clock of 2, one subscription and four contexts at most, a data
buffer of 10 bytes.

- `TimedWriteGranted`: only the session whose own last preparation named the PID of the
  request, in time, and once.
- `StatusTruthful`: success means that the application took the value, a refusal that it
  did not.
- `ResponsesIntact`: the texts a response refers to are still in the data buffer.
- `HandlersGuarded`: admins, limits, steps.

`CharacteristicRequestsProofs` proves all four for any sessions, database, bodies, answers of
the application and size of the data buffer. The bodies are parsed by what `Writes`,
`Preparations` and `Reads` are mapped to; `TypesAssumption` states of them, and of the
database, what the C types say. The invariant is about a request that has been handled up
to the context `next`:

- `Shaped`: contexts from `next` on are as parsed, and each call of a handler belongs to a
  context before it; the position is within the buffer;
- `PreparationKept`, `PreparationInUse`: a preparation that counts is the last one granted
  and has not been executed, unless by the request under way; that request has found it in
  time, or makes no call that needs it;
- `TextsKept`: the texts read so far lie before `position` and each byte is still the one of
  its context. As every context appends behind `position`, they are apart from one another;
- `StatusTruthful` and `HandlersGuarded` are inductive beside these. What a handler of each
  format is called with is proved from `HAPCharacteristic.c`'s constraints: rounding to a
  step goes to a step and not beyond a maximum that is on one (`Rounding`).

Disagreements, without a run:

- A TLV8 written with something other than a string is answered with success and no
  handler is called (`HAPIPAccessoryServer.c:1207`), against "0 If all writes could be
  handled successfully" (`:1293`). A failed `ev` is masked by the success of a value in the
  same item; `ev` with `r` answers the value 0. `StatusTruthful` leaves the TLV8 case out.
- `HAPIPAccessoryProtocol.c` closes the object of a failed read before `perms`, `ev` and
  what else was asked for: the response is no JSON.
- `(value - min) % step` of an Int overflows if the limits are further apart than the type
  is wide; a Float is rounded to the next step and may exceed a maximum that is not on one. `Regular` leaves
  both out of the database: `HandlersGuarded` claims nothing of such characteristics.
- A body whose length fits exactly leaves no room for the terminating NUL and fails an
  assertion (`HAPIPAccessoryServer.c`, about `:668`, `:1883`, `:3366`).
- `HAPAccessoryValidation.c`, about `:498`: the check named "readable without security"
  tests `readable`. `AccessoryIsValid` does not check that IIDs are unique.

## 9. The bytes of an IP session

`IPSessionInput` is the way in: bytes arrive in pieces of any size, are decrypted,
tokenised (`HTTPReader`) and discarded in one buffer, into which the tokens of the request
point. Actions: `Send` (the controller), `ReadInboundData`, `OutputCompletion`. The scripts
have requests in plaintext and, after Pair Verify, encrypted ones; lengths that are no
number, too large or never reached; a request larger than the buffer. A buffer of 44
characters, frames of 5 and 12, `SIZE_MAX` 255. A loop of the code is a function of the
number of its turns (`Read`, `ReadHTTP`, `DecryptData`), taken as far as the condition
of the loop says. `lost` is a history variable: whether a request was discarded while a
part of a frame stood behind it in the buffer.

`RequestsIntact` (run `Components`, part `"requests"`), unless `lost`: every request is
handled as it was sent, once, in order, and as soon as it is complete; its answer is
encrypted if it was; and a session ends only for a request that no server takes. It is not
so once `lost`:

- `FramesKept`: `HAPIPByteBufferShiftLeft` forgets the bytes between position and limit. If
  the beginning of the next frame is behind a request that is discarded, that frame
  is not authentic any more, and the result of the decryption fails
  `HAPAssert(r == -1)` (`HAPIPAccessoryServer.c:3241`), since it is `kHAPError_InvalidData`.
- Without a run: that assertion fails for any frame that cannot be decrypted. A folded header
  line fails `HAPAssert(session->httpHeaderFieldName.bytes)` (`:3116`). Whether a second
  `Content-Type` is refused depends on how the request was cut into pieces. A
  value of `/accessories` that fits the buffer alone, but not with the chunk header or
  escaped, ends the process.

`IsScript` says what scripts are: requests as `Heading` writes them, with each of the two
headers at most once and in one line; a body has the length the request says, unless that
length or the type is refused or the request does not fit into the buffer. With another
length the server rightly takes the rest of the body for the next request, and there is
nothing to promise. Quoted strings are left out of `HTTPReader`; controllers wait for the
answer to the last Pair Verify message before they encrypt.

`AccessorySerialization` is the longest way out: `GET /accessories` is an incremental
serializer (`IPAccessory`: one piece for each of its states) composed into chunks and
frames as space becomes free. Actions: `GetAccessories`, `SpaceAvailable`. Frames of 40
and a buffer of 111 force it to stop at every kind of place in the document of
`MCComponents`, a bridge with every kind of characteristic. `DatabaseServed` (in
`ReadAsWritten`): the client ends with the whole document, unless a single value does not
fit.

### Proofs

`IPSessionProofs` proves `RequestsIntact` for any scripts (`IsScript`), any buffer no larger
than `SIZE_MAX`, any size of the frames and any pieces (`IPSessionInputAssumption`). The
invariant is `lost \/ Good(s)`. `Good` compares the buffer and what is on the way with two
tapes, the plaintext of the script (`Stream`) and the ciphertext sent so far, which `cuts`
divides into frames:

- the buffer begins in the plaintext where the requests that were handled end; up to `mark`
  it holds plaintext, behind it ciphertext from the frame on that is next (`Buffers`,
  `InPlain`, `InSecure`), and the wire goes on where the buffer ends;
- that frame is not complete (`NeedsMore`), and the reader is at rest in the next request
  (`Waits`), with the tokens that are to be found up to there;
- a session that has ended had a reason to (`IsExcused`).

`HTTPReaderProofs` is about the reader and `read_http`. The place in the request (`Place`)
says in which state the reader is there and which tokens it has found. One step takes it from
a place to a place (there is a lemma for each part of a request), five steps at least one
character further, so that the loops end within the turns the model gives them; what is
found does not depend on where the pieces end, and a request that is complete is read
to its body or refused (`HTTPReads`). `DataDecrypts` says the same of
`HAPIPSecurityProtocolDecryptData`: it moves the first of the ciphertext to the plaintext, a
frame at a time, until the next one is short. `FramesFacts` divides a message into frames,
and `InputIsGood` brings both together in `handle_input`. At last, a session that has
received everything and waits has a whole request before it and does not handle it, so that
the request is one no server takes (`AllArrived`).

## 10. A Bluetooth LE connection

`BLETransaction` is bytes, fragments and bodies; `BLESession` the session
with its timers; `BLEProcedure` one or two transactions on a characteristic;
`BLEPeripheralManager` the GATT requests and everything else that happens during a
connection. Its state `w` is one record, which the operators take and return as the C
functions take the server.

| Action | Code |
|---|---|
| `Requests` (`WriteValue`, `ReadValue`), `WriteConfiguration`, `ReadyToUpdateSubscribers`, `Connect`, `Disconnect` | the delegate of the peripheral manager |
| `ProcedureTimer`, `PairingTimer`, `LinkDeadline`, `LinkTimer`, `SafeTimer`, `FallbackTimer` | time-outs of procedures and sessions |
| `RaiseEvent`, `Start`, `Stop` | calls of the application |
| `PairedOverIP` | pairings added and removed over the other transport |
| `Restart` | after a failed assertion, or at any time |

Run `BLE`: Pair Verify, Pairings and a characteristic with events; writes in one and two
fragments and of too many, timed writes with and without a body of their own, reads,
requests for another characteristic, noise; a buffer of 2 bytes and reads of up to 6.

- `BodiesIntact`: a write handler is given the bytes that were written for that write, and
  what is read back is the response that was made.
- `SecurityKept`: while the pairing stays, requests in the clear are not handled with the
  rights of the session, nor sealed ones without, and an answer is sealed exactly if its
  request was.
- `Informed`: the application has been told of exactly what is subscribed.
- `TypeOK` limits the assertions that fail to three (below).
- `BLEStops` (run `Components`, part `"LE"`, two characteristics of pairing): a stop
  completes unless the central goes on aborting its procedure with first fragments of
  pairing requests. Fairness: expired timers are served, and a disconnection
  that was asked for happens.

`orphaned` says that a pairing was removed under an active session: `"now"` while that
session goes on, `"once"` from the first `Forget` after it has ended, that is, from the step
after. The rights of a request are not claimed while it is `"now"`, and
`Informed` is claimed while it is `"no"`. That events wait for room in the queue only is said of
processes in which no assertion has failed. A characteristic that requires admin permissions
refuses a session in the clear always and a secured one perhaps (`AdminOnly`): whether its
pairing is that of an admin is left open. Transient sessions, which Pair Setup makes and a
few requests are refused to, and the contents of bodies of pairing messages are left out.

### Proofs

`BLEProofs` proves `TypeOK`, `BodiesIntact`, `SecurityKept` and `Informed` for any
characteristics and packets, any size of the buffer, and reads of any length that fits into it
(`ProcedureAssumption`, `PeripheralManagerAssumption`: a packet is a sequence of bytes, lengths
are natural numbers, and the name for "no characteristic" is not one). None of the four is
inductive. `IInv` adds:

- `Session`: an active session is one of a connected central; without its pairing it is
  orphaned, or an assertion has failed;
- `Timed`: no transaction has begun while the procedure has no timer, and without a central
  there is no procedure;
- `Sealing`: a request is sealed as its procedure was started, and a procedure that still
  takes requests was started as secure as the session is now, unless the session is orphaned
  or being terminated. A session becomes secure while a request is handled, and that
  procedure takes no other before it is started again;
- `RequestBuffered`, `PreparedBuffered`, `ResponseBuffered`: the one buffer holds the
  fragments written so far; while a timed write waits, its body, and then no further body is
  accepted into the buffer; and once there is a response, nothing but its bytes;
- `HandledSound`, `SentSound`: the properties themselves, of the step just taken.

The operators of the model take the state as an argument, so most lemmas are about one
operator: which fields it changes (`Changed`), and that it keeps `Session` or `Kept`. They
follow the calls of the C code from `BLESession` to `BLEProcedure` to the delegate's callbacks;
`TransactionWriteIs` and `TransactionReadIs` say what a fragment does to the buffer.

Disagreements:

- `FallbackTimer`: `FallbackProcedureTimerExpired` deregisters the timer that has fired,
  which `HAPPlatformTimer.h` does not allow and the POSIX run loop answers with
  `HAPFatalError`.
- Without a run, as values of `w.fault`: the execution of a timed write that has filled the
  buffer fails an assertion if it has a body of its own, even an empty one
  (`bodyOfExecuteWrite`); so does the start of a session whose pairing is removed before it
  is accepted (`sessionAccept`).
- Without a run: "Procedures have a timeout so this cannot delay forever."
  (`HAPBLEPeripheralManager.c:980`) is not so, see `BLEStops`. A subscription that is
  cancelled while its pairing is removed but the session active is not reported
  to the application. A failed write of Pair Verify leaves `pairingProcedureTimer` running.
  `IsTerminalSoon` subtracts without looking which time is later (`HAPBLESession.c`, about
  `:162`). A fallback procedure seals its answer by the state of the session at the read.

## 11. Values, broadcasts and advertisements over Bluetooth LE

`BLECharacteristicValue` takes bodies of writes apart in the buffer they were received in,
and writes bodies of reads: `WriteRequest`, `ReadRequest`, `WriteBack` (what was read is
written again). Characteristics of every format; every order of TLVs that matters,
with unknown types; bodies no controller should send; buffers with 3 and 17 bytes to spare.
`ValuesIntact` (in `ReadAsWritten`): the application is given the value, authorization data
and origin that were sent, in time, and a response carries what it answered; checked where
there is room, because:

- `ValueHasRoom`: the value is moved behind the body and not to the front of the buffer
  (`HAPBLECharacteristicParseAndWriteValue.c:162`): values of more than about 1010 bytes
  in the sample's buffer of 2048 are written beyond it.

Bytes are 0 to 5 here, so that numbers of every width overflow; Floats count units, and
infinities are left out.

`BLEAdvertising` is what is said while nobody is connected: regular advertisements with the
global state number, broadcasted events sealed with the broadcast key and that number as
nonce; both are persistent. Actions: `DidRaiseEvent`, `DidSendEventNotification`,
`DidConnect`, `DidDisconnect`, `AdvertisingTimerExpired`, `FastTimerExpired`, `NewSession`,
`GenerateKey`, `CleanupPairings`, `Start`, `Stop`, `FirmwareUpdate`, `Restart`. A largest number of 7
and a key life of 3 have numbers wrap and keys expire several times.

- `NonceNotReused`: no two values are sealed with the same key and nonce.
- `ControllersInformed`: the number differs from the one controllers knew as soon as
  anything has changed, and what is on the air is current. Its second conjunct is
  `BroadcastsAsAsked` of `BLECharacteristicConfiguration`, the stored list of what is
  broadcasted, searched and changed in a fixed buffer while any access of the store may
  fail (`HandleConfigurationRequest`, `RestoreFactorySettings`): what is found for a
  characteristic is what was asked for last, and the list never fills the buffer it is
  read into. Four characteristics, room for two.

Remarks, without a run: a process that ends while a central is connected forgets that the
number was incremented, and an event after the restart may not change it; a firmware
update removes the number before the key, so ending in between and going back to
the old firmware would use nonces again; a key removed over IP while an event is being broadcasted
is a fatal error (`keyMissing`); a broadcasted event whose read handler fails returns
without incrementing the number; 41 characteristics can be broadcasted where the comments
say 42 (`HAPBLECharacteristic+Broadcast.c:160`, guard at `:294`); the domain
`CharacteristicConfiguration` is not purged with the last pairing, so a new owner inherits
what is broadcasted.

`ComponentsProofs` proves `NonceNotReused` for any largest number and any life of a key that
is shorter (`BLEAdvertisingAssumption`), and `ControllersInformed`. The numbers from the one
controllers know to the one at which the key expires are counted around the end of their
range (`Distance`). With a key, what it has sealed lies behind the number (`KeySound`), and
the way from what is known over the number to the expiration is no longer than the key
lives (`CountSound`), hence shorter than the range: no number comes round while its key is
in use. The list of broadcasts stays sorted, so that the search finds what it holds (`Says`),
and has room for one more (`ListSound`). `BLECharacteristicValue` uses recursive operators
and stays with TLC.

## 12. TLVs

`TLV` writes values of a described format; `TLVReader` reads them in place: values are made
one piece, strings terminated and types overwritten in the received bytes, sequences
are read only when they are enumerated. Actions: `Write`, `Read`, `ReadAll`, `Enumerate`.
With 6 types and bytes up to 5 there are long values in many fragments; six formats, with
optional and nested structures, unions, flat sequences; in addition every sequence of at
most three pieces of what anyone might send. `ReadAsWritten`: what is read is what was
written, or what was sent means, or it is refused.

Remarks, without a run: a structure whose flat member is not its last is misread
(`HAPTLVReader.c:1150`); `HAPTLVFormatHaveConflictingTypes` looks at the wrong types;
`GetNext` refuses empty continuations that decoding accepts.

## 13. `KeyValueStore` and `MFiHWAuth`

`KeyValueStore` makes each system call of a `Set`, `Get`, `Remove`, `Enumerate` or
`PurgeDomain` a step that may fail, with `ProcessCrash` and `PowerFailure` between any two.
`durable` is what may be found after the power fails: a rename or removal whose directory
was not synchronised may or may not be there, a file that was not may be torn. `StoreAtomic`:
what is found is accounted for by the calls and never a part of a value, but for keys
for which an error of `fsync` was ignored. Two keys, one content beside absent and torn.
`ComponentsProofs` proves it for any keys and contents: what a call may leave behind is
promised before its first step, and what it has done and brought to the disk is known from
where it is (`StoreCall`).

Remarks, without a run: a temporary file left behind read-only blocks every later `Set` of
its key for a process without privileges; the removal of it is tried relative to the
working directory; a `Remove` of an absent key succeeds without synchronising, so an
interrupted removal may come back after a later `Remove` succeeded
(`HAPPlatformKeyValueStore+Init.h:26`); an empty value without bytes fails an assertion.

`MFiHWAuth` is the coprocessor with its power, registers and event counter. Any access of a
register may fail. `CoprocessorServed`: the power is not removed before the counter has
run down unless it could not be read; while it is on, a timer will remove it; a signature
that is returned is of the challenge it was asked for. Lengths of certificates are those at
the limits of parts and buffer. It is proved for any counter, challenges and lengths
(`ComponentsProofs`): an access of a register does not change the power (`Accessed`), and
once all accesses of a call have succeeded it is known of which challenge the signature
is. Remarks: a release never switches the
coprocessor off, and a new server starts no timer for one that is on (`leftOn`).

## 14. Not modelled, and why

- Cryptography, and the tokenization of JSON and Base64 text: external, taken to work.
- The format of advertising data, service signatures, `HAPBLEProtocol+Configuration.c` and
  the accessory information services: formatting, with no state of their own.
- `/identify`, `/secure-message` and `/resource` beyond their effect on sessions; creation and
  release of the server and the run loop beyond what sections 3, 4 and 7 say.
- Mock and Darwin platforms, other POSIX services, logging, tests, tools, and the sample
  applications but for resets in `Main.c`: they are the environment of the models.

What is written out by recursive operators (values, TLVs, bodies, the document of
`GET /accessories`, texts of responses) is checked with bounded samples only, because what a
recursive definition computes for every input is out of the prover's reach; so are liveness
properties.
