SPECIFICATION Spec
CONSTANTS
  Files <- MCFiles
  Main = 0
  Projects <- MCProjects
  Object <- MCObject
  Enums <- TwoEnums
  MaxSaves <- MCMaxSaves
  MaxTime <- MCMaxTime
INVARIANTS
  CacheKeepsValues
