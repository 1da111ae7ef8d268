SPECIFICATION Spec
CONSTANTS
  NoId = ""
  NoRoot = NoRoot
  NoExpiry = NoExpiry
  BadExpiry = BadExpiry
  Garbage = Garbage
  Absent = Absent
  Unreadable = Unreadable
  Skew = 0
  Callers = {p1}
  Requests <- Skipping
  Contents = {"c1", "c2"}
  Stamps = {"s1", "s2"}
  Envelopes <- NoEnvelope
  OmsFiles <- OnlyKeyBound
  Pools <- OnePool
  RuleSets = {"r1"}
  Starts <- AllStarts
  ScanVerdict <- MCVerdict
  Changes = {"stamp"}
  MidCall = FALSE
  MaxTime = 2
  MaxChanges = 1
INVARIANT StaleAllowImpossible
CHECK_DEADLOCK FALSE
