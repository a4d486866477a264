\* Calls between two modules, with any code.
SPECIFICATION Spec
CONSTANTS
  Module = {1, 2}
  Entry <- Entries
  Scripts <- TheScripts
  FunctionV <- Functions
  NoFunction = NoFunction
  Word = {0, 1}
  Outer = {0}
  CodeSize = 4
  MaxDepth = 2
  MaxData = 2
  Width = 4
  PageSize = 3
  SegmSize = 2
  BankSize = 2
  DataSize = 2
  Group = 4
  Accessed = {0, 1, 2, 4, 9, 22}
  Values = {0, 1, 6}
  BufferSizes = {8, 12, 16, 24, 40}
CHECK_DEADLOCK FALSE
CONSTRAINT FewValues
INVARIANTS OperatorsRight ArraysRestored
PROPERTY FramesKept
