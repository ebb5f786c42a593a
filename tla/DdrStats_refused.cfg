SPECIFICATION Spec
CONSTANTS
  r1 = r1
  r2 = r2
  Readers = {r1}
  Loops <- LoopCounts
  RecordSize = 3
  Chunk = 2
  IntMax = 7
  MaxJobs = 1
INVARIANTS
  SuccessShowsReceived
