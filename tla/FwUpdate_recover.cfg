SPECIFICATION Spec
CONSTANTS
  p1 = p1
  p2 = p2
  empty = empty
  one = one
  short = short
  two = two
  odd = odd
  Procs = {p1}
  Images = {short, two, odd}
  FileSize <- MCFileSize
  BlockSize = 2
  MaxRetries = 1
  MaxRuns = 4
  Faults <- KillOnly
PROPERTIES
  FreshRunDelivers
  StaysOnCourse
