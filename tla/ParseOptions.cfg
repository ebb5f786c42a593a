SPECIFICATION Spec
CONSTANTS
  Cases <- Lines
  IntSize = 256
  LongSize = 65536
  Null = Null
INVARIANTS
  TypeOK
  LeftInOrder
  NothingLeftOver
  ReadAsWritten
PROPERTIES
  ReadsOn
  NoGuessing
