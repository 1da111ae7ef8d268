SPECIFICATION Spec
CONSTANTS
  Skipped = {9}
  SkillFile = 0
  FileSystems <- MCFileSystems
  Commands <- MCCommands
  DefaultLimits <- MCDefaultLimits
  Registry <- MCRegistry
  MaxWalkUp = 2
INVARIANTS
  AuditFailsClosed
  RowsAreTheFolders
  EachAgentIsTold
  ReportHidesNothing
PROPERTY Terminates
