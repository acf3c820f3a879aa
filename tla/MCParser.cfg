SPECIFICATION Spec
CONSTANTS
  Length = 5
  Rounds = 2
  Macros <- MCMacros
  Sources <- MCSources
INVARIANTS
  RoundTrip
  BalancedOrReported
  MeaningKept
  TypeLock
PROPERTIES
  TakesAToken
CHECK_DEADLOCK FALSE
