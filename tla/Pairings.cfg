SPECIFICATION MCSpec
CONSTANTS
  Elements = {0}
  TimestampModulus = 3
  Controllers = {c1, c2}
  maxPairings = 2
  Sessions = {ip, le}
  OverBLE = {le}
  NoOne = none
  Firmwares <- MCFirmwares
  UINT16_MAX = 5
  UINT32_MAX = 10
  ImportedCN = 9
  Randoms = {1, 2, 3}
  MaxPairings = 2
  MaxCuts = 1
INVARIANTS PairingsSound IdentityKept
PROPERTIES ChangedByAdmin
SYMMETRY ControllerSymmetry
