SPECIFICATION MCSpec
CONSTANTS
  Inputs <- OneInput
  ActionBudget = 2
  MaxSearchRounds = 1
  NoState = NoState
  GateCodes <- ClaimIssue
  MaxTopics = 2
  MaxTurns = 2
  Jobs = {j1, j2}
  Sessions = {s1, s2}
  NoJob = NoJob
  NoSession = NoSession
  LastProcess = 2
  Workers = 1
  MaxPending = 1
  Overlap = FALSE
  StoreErrors = FALSE
CHECK_DEADLOCK FALSE
INVARIANTS
  RecoverySound
  StateOfRequest
  ReleaseLicensed
PROPERTIES
  TurnEnds
  JobsProgress
