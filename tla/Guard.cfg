SPECIFICATION Spec
CONSTANTS
  NoId = ""
  NoRoot = NoRoot
  NoExpiry = NoExpiry
  BadExpiry = BadExpiry
  Garbage = Garbage
  Absent = Absent
  Unreadable = Unreadable
  Skew = 1
  Callers = {p1, p2}
  Requests <- OnlyWaiving
  Contents = {"c1", "c2"}
  Stamps = {"s1", "s2"}
  Envelopes <- SignedOrAbsent
  OmsFiles <- OmsOrNot
  Pools <- TwoPools
  RuleSets = {"r1", "r2"}
  Starts <- BothSigned
  ScanVerdict <- MCVerdict
  Changes = {"content", "stamp", "roots", "sgmt", "oms", "rules"}
  MidCall = FALSE
  MaxTime = 3
  MaxChanges = 1
INVARIANTS
  EntriesAreForTheirKeys
  EntriesAreTimely
  ServedAsRecomputed
SYMMETRY CallerSymmetry
CHECK_DEADLOCK FALSE
