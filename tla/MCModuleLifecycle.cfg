SPECIFICATION Spec
CONSTANTS
  Modules <- MCModules
  Main = 0
  System = {3}
  Programs <- MCPrograms
  NULL = null
  Dead = dead
  MayRunOut = TRUE
INVARIANTS
  TypeOK
  DependenciesInitialized
  NoDanglingContext
  NothingLeft
  UnsharedExitsReverse
PROPERTIES
  Ends
CHECK_DEADLOCK FALSE
