\* No symmetry: it is not sound for liveness.
CONSTANTS
  Hub = {h0, h1}
  Map = {m1, m2}
  LoneHub = h0
  NoHub = NoHub  NoMap = NoMap
  Name = {a}
  NoSave = NoSave
  MaxPending = 1
  MaxVal = 0
SPECIFICATION FairSpec
PROPERTIES
  PendingApplied
