CONSTANTS
  Module = {a}
  Code <- AllValues
  Name = {x}
  NoName = NoName
  NoData = NoData
  NoSave = NoSave
  RegC = 2
  ArrC = 2
  MaxVal = 1
  MaxRoots = 2
  a = a
  b = b
  c = c
  x = x
SPECIFICATION Spec
PROPERTY RegistersRestored
