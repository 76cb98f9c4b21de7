SPECIFICATION Spec
CONSTANTS
  Sessions = {s1, s2}
  MaxDepth = 2
  Bad = Bad
  MaxOf <- MCMaxOf
  Grid = 10
  Db <- MCDb
  Answers = {"None", "Busy", "InvalidData"}
  Values <- MCValues
  Preparations <- MCPreparations
  Writes <- MCWrites
  Reads <- MCReads
  Number <- MCNumber
  MaxTime = 2
  MaxSubscriptions = 1
  MaxContexts = 4
  MaxText = 2
  DataBytes = 10
INVARIANTS TimedWriteGranted StatusTruthful ResponsesIntact HandlersGuarded
SYMMETRY Symmetry
