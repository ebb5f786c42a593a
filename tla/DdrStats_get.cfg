SPECIFICATION Spec
CONSTANTS
  r1 = r1
  r2 = r2
  Readers = {r1, r2}
  Loops <- LoopCounts
  RecordSize = 3
  Chunk = 2
  IntMax = 7
  MaxJobs = 2
INVARIANTS
  TypeOK
  DdrInv
  StaysInBuffer
  ShownInPlace
  ShownIsOneJob
  ShownNeverOlder
PROPERTIES
  GetsEnd
  GetAdvances
