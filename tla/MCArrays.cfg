SPECIFICATION ArraysSpec
CONSTANTS
  Blocks = {b1, b2, b3, b4}
  Root = root
  Dead = dead
  Vars = {v, w}
  Null = null
  Unset = unset
  Dangling = dangling
  MaxItems = 2
  Given = {1}
  Parts <- Asked
  MayRunOut = TRUE
  MayPart = FALSE
INVARIANTS
  OwnerIsLive
  AllBelowRoot
  ItemsLive
PROPERTIES
  ResizeSparesOthers
SYMMETRY Interchangeable
