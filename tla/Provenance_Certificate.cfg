SPECIFICATION Spec
CONSTANTS
  NoId = ""
  NoRoot = NoRoot
  NoExpiry = NoExpiry
  BadExpiry = BadExpiry
  Garbage = Garbage
  Absent = Absent
  Unreadable = Unreadable
  Skew = 0
  Contents = {c1, c2}
  Stamps = {}
  Rewritten <- NothingToClean
  Signers <- MCSoleSigner
  Roster <- MCSoleSigner
  IdentityRules <- IssuerScoped
  LogKeys <- PinFirst
  Authorities = {"a1"}
  InlineRoots = {"a2"}
  Revocable = {"e", "g"}
  Ledger <- MCLedger
  Keyless <- MCKeyless
  MaxLeaves = 6
  Formats = {"certificate"}
  TTLs = {1}
  MaxTTLDays = 2
  Day = 1
  DurationBits = 4
  MaxTime = 1
INVARIANTS
  AdmissionIsBacked
  ProofsAreSound
SYMMETRY ContentSymmetry
CHECK_DEADLOCK FALSE
