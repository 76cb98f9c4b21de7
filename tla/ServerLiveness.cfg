SPECIFICATION FairSpec
CONSTANTS
  Slots = {s1, s2}
  Chars = {c1}
  Immediate = {}
  MaxSubscriptions = 1
  InboundSize = 2
  OutboundSize = 1
  MaxIdle = 1
  EventDelay = 1
  Pipelining = FALSE
  SpuriousWakeups = FALSE
  Roomy = {s1}
  ReadsRaise = FALSE
  OverBLE = FALSE
PROPERTIES
  StopCompletes
  SilentIsEvicted
  EventDelivered
