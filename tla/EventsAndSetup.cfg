SPECIFICATION MCSpec
CONSTANTS
  Slots = {s1, s2}
  Chars = {c1, c2}
  Immediate = {c2}
  MaxSubscriptions = 2
  InboundSize = 2
  OutboundSize = 1
  MaxIdle = 1
  EventDelay = 1
  Pipelining = TRUE
  SpuriousWakeups = FALSE
  Roomy = {s1, s2}
  ReadsRaise = FALSE
  OverBLE = FALSE
  ip1 = ip1
  ip2 = ip2
  ble = ble
  Sessions = {ip1, ip2, ble}
  BLE = {ble}
  Platforms <- AllPlatforms
  Codes = {k1, k2}
  StaticCode = k0
  NoCode = none
  NoSession = nobody
  MaxTries = 2
SYMMETRY Symmetry
INVARIANTS
  WaitsAreRegistered
  OnlySecured
  OtherAssertionsHold
  OneProcedure
  CodeSettled
  TriesLimited
PROPERTIES
  PairedByProof
  TriesRemembered
  NotificationsSent
