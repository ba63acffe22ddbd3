SPECIFICATION Spec
CONSTANTS
  Operations = {a, b}
  NoOperation = NoOperation
  NoDelegation = NoDelegation
  NoEntry = NoEntry
  MaxRounds = 2
  MaxMainRounds = 2
  MaxRuns = 3
  MaxDelegations = 2
  Contents <- OneContent
  Goals <- TwoGoals
  Calls = {c1, c2}
  FailureThreshold = 2
  SuccessThreshold = 1
  Recovery = 2
  Cost = 2
  Rate = 2
  Capacity = 4
  CommonRate = 1
  CommonCapacity = 2
  MaxElapsed = 4
  MaxRetries = 1
  MaxWait = 2
  Backoff = 1
  Cooldown = 1
  Ceiling = 1
  RetryAfters = {0, 1, 3}
  TokenWait = 1
  Horizon = 2
CHECK_DEADLOCK FALSE
INVARIANTS
  MainCallAnswerable
  ReplayBounded
  GoalServed
  AccessSound
PROPERTIES
  RunEnds
  CallsReturn
