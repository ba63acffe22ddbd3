SPECIFICATION MCSpec
CONSTANTS
  Executions = {e1, e2}
  Tasks = {}
  Calls = {c1, c2}
  NoOwner = NoOwner
  NoTask = NoTask
  NoExecution = NoExecution
  TTL = 1
  MaxWait = 0
  Reservation = 2
  Costs = {1, 3}
  Limits = {5}
  DefaultLimit = 3
  Usages = {1}
  MaxRetrieval = 1
  MaxVersion = 0
  Jobs = {j1, j2, j3}
  Sessions = {s1, s2, s3}
  NoJob = NoJob
  NoSession = NoSession
  LastProcess = 2
  Workers = 2
  MaxPending = 0
  Overlap = TRUE
  StoreErrors = TRUE
SYMMETRY Symmetry
CONSTRAINT NoPublication
CHECK_DEADLOCK FALSE
INVARIANTS
  BudgetHeld
  JobsSound
PROPERTIES
  SpendKept
  TerminalKept
