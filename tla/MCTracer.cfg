CONSTANTS
  WordSize = 1
  HalfSize = 1
  Align = 2
  ByteBase = 8
  Extended = 6
  Tables <- OpTables
  Known = {1, 2}
  FuncTrans <- TransOfFunc
  StringC = 2
  Inputs <- InputSet
SPECIFICATION Spec
INVARIANTS WritesFit CodeDecodes FlowKept Verdict
PROPERTY Ends
CHECK_DEADLOCK FALSE
