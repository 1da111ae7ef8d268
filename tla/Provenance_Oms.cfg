SPECIFICATION Spec
CONSTANTS
  NoId = ""
  NoRoot = NoRoot
  NoExpiry = NoExpiry
  BadExpiry = BadExpiry
  Garbage = Garbage
  Absent = Absent
  Unreadable = Unreadable
  Skew = 0
  Contents = {"c1", "c2"}
  Stamps = {s1}
  Rewritten <- OneIsCleaned
  Signers <- MCSigners
  Roster <- MCRoster
  IdentityRules <- AdmitFirst
  LogKeys = {}
  Authorities = {}
  InlineRoots = {}
  Revocable = {"k1", "i2"}
  Ledger <- NoLedger
  Keyless = {}
  MaxLeaves = 1
  Formats = {"key"}
  TTLs = {0, 1, 5}
  MaxTTLDays = 2
  Day = 2
  DurationBits = 4
  MaxTime = 0
INVARIANTS
  DriftIsDenied
  SignedBundleVerifies
  TableAgreesWithVerify
CHECK_DEADLOCK FALSE
