SPECIFICATION Spec
CONSTANTS
  MaxProcs = 3
  MaxBatch = 4
  Parallels <- MCParallels
  Reports <- MCReports
  None = None
INVARIANTS
  SlotsAreOwned
  AggregatesAll
  ReportIsWorst
PROPERTY Terminates
