\* Three modules: all graphs of imports, all names on some of them, and all
\* values of the variables of one.  No symmetry: it is not sound for liveness.
CONSTANTS
  Module = {a, b, c}
  Code <- AllCode
  Name = {x}
  NoName = NoName
  NoData = NoData
  NoSave = NoSave
  RegC = 2
  ArrC = 2
  MaxVal = 1
  MaxRoots = 2
  a = a
  b = b
  c = c
  x = x
SPECIFICATION FairSpec
CONSTRAINT ValuesOrGraphs
INVARIANTS AllReached LoadKeepsModules
PROPERTIES VariablesRestored AddingEnds
