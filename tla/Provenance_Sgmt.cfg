SPECIFICATION Spec
CONSTANTS
  NoId = ""
  NoRoot = NoRoot
  NoExpiry = NoExpiry
  BadExpiry = BadExpiry
  Garbage = Garbage
  Absent = Absent
  Unreadable = Unreadable
  Skew = 1
  Contents = {c1, c2}
  Stamps = {}
  Rewritten <- NothingToClean
  Signers <- MCSigners
  Roster <- MCRoster
  IdentityRules <- AdmitFirst
  LogKeys = {}
  Authorities = {}
  InlineRoots = {}
  Revocable = {"k1", "i1", "k2", "i2"}
  Ledger <- NoLedger
  Keyless = {}
  MaxLeaves = 6
  Formats = {"sgmt-1"}
  TTLs = {1}
  MaxTTLDays = 2
  Day = 1
  DurationBits = 4
  MaxTime = 3
INVARIANTS
  AdmissionIsBacked
  GateAgreesWithVerify
  RootNamesItsLeaves
PROPERTY NeverRelaxes
SYMMETRY ContentSymmetry
CHECK_DEADLOCK FALSE
