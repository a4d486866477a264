\* No symmetry: it is not sound for liveness.
CONSTANTS
  t1 = t1  t2 = t2  s1 = s1  s2 = s2
  Thread = {t1, t2}
  Script = {s1, s2}
  Activator = {}
  NoThread = NoThread  NoScript = NoScript  NoInfo = NoInfo
  MaxDelay = 2
  MaxDeferred = 1
  MaxStarts = 2
  Underflowing = {}
SPECIFICATION LiveSpec
PROPERTIES
  NobodyStarves TicEnds DelayEnds WaitEnds
