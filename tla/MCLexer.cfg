SPECIFICATION LexerSpec
CONSTANTS
  Length = 4
  CommentLength = 6
  Texts <- MCTexts
  Sizes = {4, 8}
  Stale = {"NUL", "o"}
INVARIANTS
  TokensRight
PROPERTIES
  Ends
CHECK_DEADLOCK FALSE
