SPECIFICATION Spec
CONSTANTS
  Texts <- AB
  Needles <- Separators
  Patterns <- Expressions
  Repls <- Replacements
  Limits = {0, 1, 2}
  Utf8Texts <- Utf8
  Calls <- StringCalls
  Search <- StringSearch
INVARIANTS
  PassesAgree
  ResultsRight
  EngineSound
  TextLaws
PROPERTIES
  CallReturns
CHECK_DEADLOCK FALSE
