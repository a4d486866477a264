\* The host appends a text that is longer in bytes than in UTF-16 units.
SPECIFICATION Spec
CONSTANTS
  Base = 3
  MarkSize = 2
  Texts <- SomeTexts
  Arrays <- SomeArrays
  Limits = {1, 5}
  Formats <- SomeFormats
  HostTexts <- Wide
  HostDrops = {TRUE}
  MaxSize = 8
  WordC = 16
  CharC = 8
  Upper <- Uppers
  Strings <- ShortStrings
  Points <- Bounds
CHECK_DEADLOCK FALSE
INVARIANT WritesInside
