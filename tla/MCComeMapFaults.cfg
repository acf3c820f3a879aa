SPECIFICATION Spec
CONSTANTS
  Keys <- ChainKeys
  Values = {x}
  Hash <- ChainHash
  Vars = {v, w}
  Contexts = {root}
  Root = root
  InitialCapacity = 5
  MaxTables = 2
  MaxSize = 10
  MayRunOut = TRUE
  MayAlias = TRUE
  Local = local
  NoEntry = NoEntry
  Absent = Absent
SYMMETRY AnyVariable
INVARIANTS
  TypeOK
  TableSound
CHECK_DEADLOCK FALSE
