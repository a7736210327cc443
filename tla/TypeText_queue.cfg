SPECIFICATION Spec
CONSTANTS
  Chars = {"a", "b", "u", "x", "y", "z"}
  Texts <- MCTexts
  Layouts <- MCLayouts
  LayoutChars <- MCLayoutChars
  BatchKeys = 2
  MaxTexts = 3
  MayFail = {"custom"}
  LayoutMoves = FALSE
PROPERTIES
  TypesExactly
  EveryTextTyped
CHECK_DEADLOCK FALSE
