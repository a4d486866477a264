\* Two hubs and the lone one, two maps each, three deferred actions, and saves.
CONSTANTS
  Hub = {h0, h1, h2}
  Map = {m1, m2}
  LoneHub = h0
  NoHub = NoHub  NoMap = NoMap
  Name = {a, b}
  NoSave = NoSave
  MaxPending = 3
  MaxVal = 1
SPECIFICATION Spec
SYMMETRY Symmetry
CONSTRAINTS ValuesOrActions FewAfterSave
INVARIANTS
  TypeOK ScopesFollowGame Routed
PROPERTIES
  ImplementsJourney
