CONSTANTS
  String = {mA, mB, sf, sg, st}
  NoString = NoString
  NoFunc = NoFunc
  NoModule = NoModule
  ScriptRegC = 20
  Module = {mA, mB}
  FilesOf <- Files
  Dynamic = {st}
  Cell = {1}
  NoMeaning = NoMeaning
  NoAction = NoAction
  Dangling = Dangling
  NoSave = NoSave
  MaxIdx = 5
  mA = mA
  mB = mB
  sf = sf
  sg = sg
  st = st
SPECIFICATION Spec
CONSTRAINTS Bounded FewSaves FewKept FewFree
ACTION_CONSTRAINT OneSave
INVARIANTS StringsMean FunctionsMean NothingDangles LoadedOrBlank LocksMatch
PROPERTY LoadedAsWritten
