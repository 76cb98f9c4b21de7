CHECK_DEADLOCK FALSE
SPECIFICATION MCSpec
CONSTANTS
  Handles = {h1, h2}
  Fds = {f1, f2}
  Events = {read}
  Timers = {t1, t2}
  Deadlines = {0, 1, 2}
  MaxTime = 2
  None = none
  StreamHandles = {h1, h2, h3}
  StreamFds = {3, 4, 5}
  StreamEvents = {"read", "write"}
  Slots = {0, 1}
  Header = 2
  UINT8_MAX = 7
  CharMax = 7
  SizeModulus = 32
  PipeSize = 18
  MaxGSN = 7
  KeyLife = 3
  Values = {1, 2}
  Keys = {k1, k2}
  Contents = {v1}
  Absent = absent
  Torn = torn
  Bad = bad
  MaxCounter = 2
  Challenges = {1, 2}
  CertificateLengths = {0, 606, 607, 609, 610, 1201, 1280, 1281}
  MaxCertificateBytes = 1200
  Privileged = FALSE
  Supporting = {1, 2, 3, 4}
  Others = {5}
  Intervals = {1, 2}
  MaxConcurrent = 3
  Scripts <- RequestScripts
  Capacity = 44
  MaxFrameBytes = 12
  FrameSizes = {5, 12}
  SizeMax = 255
INVARIANTS OnlyBadRefused
