SPECIFICATION Spec
CONSTANTS
  Keys <- GrowKeys
  Values = {x, y}
  Hash <- GrowHash
  Vars = {v}
  Contexts = {root, ctx}
  Root = root
  InitialCapacity = 3
  MaxTables = 2
  MaxSize = 6
  MayRunOut = FALSE
  MayAlias = FALSE
  Local = local
  NoEntry = NoEntry
  Absent = Absent
INVARIANTS
  RoomLeft
PROPERTIES
  ImplementsMapStore
  PutTakesEffect
  CallsReturn
