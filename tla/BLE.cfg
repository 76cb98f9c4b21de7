SPECIFICATION Spec
CONSTANTS
  Db <- MCDb
  Packets <- MCPackets
  ScratchBytes = 2
  ReadLengths = {2}
  Lengths = {6}
INVARIANTS TypeOK BodiesIntact SecurityKept Informed
