SPECIFICATION Spec
CONSTANTS
  Mems <- ThreeMems
  Junk <- NoDevice
  Present <- TwoPresent
  MaxWords = 3
INVARIANTS
  TypeOK
  EndpointsClosed
  EveryTargetHasItsTurn
  UsageOnlyWithoutDevice
  ResultCountsSuccesses
PROPERTIES
  Terminates
  EndComesNearer
