SPECIFICATION Spec
CONSTANTS
  p1 = p1
  p2 = p2
  empty = empty
  one = one
  short = short
  two = two
  odd = odd
  Procs = {p1}
  Images = {empty, one, short, two, odd}
  FileSize <- MCFileSize
  BlockSize = 2
  MaxRetries = 1
  MaxRuns = 2
  Faults <- AllFaults
INVARIANTS
  TypeOK
  SoleInv
  HoldsWhatItUses
  RetriesBounded
  StagedIsWhole
  CompleteMeansStaged
PROPERTIES
  RunsEnd
