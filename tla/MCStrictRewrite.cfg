SPECIFICATION MCSpec
CONSTANTS
  Inputs <- OneInput
  ActionBudget = 2
  MaxSearchRounds = 1
  NoState = NoState
  GateCodes <- ClaimIssue
  MaxTopics = 1
  MaxTurns = 4
  Jobs = {j1}
  Sessions = {s1}
  NoJob = NoJob
  NoSession = NoSession
  LastProcess = 1
  Workers = 1
  MaxPending = 1
  Overlap = FALSE
  StoreErrors = FALSE
CHECK_DEADLOCK FALSE
INVARIANT RewriteIsStrict
