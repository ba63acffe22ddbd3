SPECIFICATION Spec
CONSTANTS
  Executions = {e1, e2, e3}
  Tasks = {t1}
  Calls = {}
  NoOwner = NoOwner
  NoTask = NoTask
  NoExecution = NoExecution
  TTL = 2
  MaxWait = 1
  Reservation = 2
  Costs = {1}
  Limits = {}
  DefaultLimit = 4
  Usages = {1}
  MaxRetrieval = 1
  MaxVersion = 2
SYMMETRY Symmetry
CONSTRAINT EarlyUsage
CHECK_DEADLOCK FALSE
INVARIANTS
  TaskCommitted
  OwnerCurrent
PROPERTIES
  FencedForever
  LeaseRespected
  LeaseDrains
  JournalSpec
