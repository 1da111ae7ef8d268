SPECIFICATION Spec
CONSTANTS
  Procs = {p1, p2}
  Keys = {k1}
  Decisions = {d1, d2}
  None = None
  Torn = Torn
  Temps = {t1, t2, t3}
  MaxCrashes = 2
SYMMETRY CacheSymmetry
INVARIANTS
  TempsAreExclusive
  NoLitterWithoutCrash
  TornOnlyByPowerLoss
PROPERTY ImplementsStore
CHECK_DEADLOCK FALSE
