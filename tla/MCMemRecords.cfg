SPECIFICATION Spec
CONSTANTS
  Blocks = {b1, b2, b3, b4}
  NULL = null
  Dead = dead
INVARIANTS
  TypeOK
  RecordsSound
  FreesExactly
PROPERTIES
  ImplementsOwnership
  FreeReturns
CHECK_DEADLOCK FALSE
