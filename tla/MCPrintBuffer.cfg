\* Everything that prints, hosts that drop what they print and hosts that do not.
SPECIFICATION Spec
CONSTANTS
  Base = 3
  MarkSize = 2
  Texts <- SomeTexts
  Arrays <- SomeArrays
  Limits = {1, 5}
  Formats <- SomeFormats
  HostTexts <- Ascii
  HostDrops = {TRUE, FALSE}
  MaxSize = 8
  WordC = 16
  CharC = 8
  Upper <- Uppers
  Strings <- ShortStrings
  Points <- Bounds
CHECK_DEADLOCK FALSE
INVARIANTS WritesInside TextFunctionsRight
PROPERTY TextsKept
