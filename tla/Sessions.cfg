SPECIFICATION Spec
CONSTANTS
  Slots = {s1, s2, s3}
  Chars = {}
  Immediate = {}
  MaxSubscriptions = 1
  InboundSize = 2
  OutboundSize = 1
  MaxIdle = 1
  EventDelay = 1
  Pipelining = TRUE
  SpuriousWakeups = TRUE
  Roomy = {s1, s2, s3}
  ReadsRaise = FALSE
  OverBLE = TRUE
SYMMETRY SlotSymmetry
INVARIANTS
  SlotsAccounted
  LifeCycleConsistent
  NeverWaitsOnClients
PROPERTIES
  LifecycleKept
