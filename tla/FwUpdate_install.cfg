SPECIFICATION Spec
CONSTANTS
  p1 = p1
  p2 = p2
  empty = empty
  one = one
  short = short
  two = two
  odd = odd
  Procs = {p1}
  Images = {two, odd}
  FileSize <- MCFileSize
  BlockSize = 2
  MaxRetries = 0
  MaxRuns = 2
  Faults <- AllButBoFail
PROPERTY
  ImplementsInstallation
