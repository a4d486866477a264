\* Two scripts compete for three thread objects.
CONSTANTS
  t1 = t1  t2 = t2  t3 = t3  s1 = s1  s2 = s2
  Thread = {t1, t2, t3}
  Script = {s1, s2}
  Activator = {player}
  NoThread = NoThread  NoScript = NoScript  NoInfo = NoInfo
  MaxDelay = 1
  MaxDeferred = 1
  Underflowing = {s1, s2}
SPECIFICATION Spec
SYMMETRY Symmetry
INVARIANTS
  TypeOK PoolInv NoStaleRegistration PoolClean ActiveIsLive NoDelayedRun ServedOnce
PROPERTIES
  ImplementsInstances StopIsFinal RegistrationEndsFirst
