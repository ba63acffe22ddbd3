SPECIFICATION Spec
CONSTANTS
  Words <- mcWords
  NoWord = ""
  Core = {"topic", "core"}
  Recall = {"topic", "core"}
  Han = {"topic", "mixed"}
  Latin = {"core", "exact", "mixed"}
  Anchors = {"topic"}
  Generic = {}
  Clean <- mcClean
  Within <- mcWithin
  Batches <- mcBatches
  WordLimit = 2
  Key <- mcKey
  Papers = {1, 2, 3}
  Year <- mcYear
  Found <- mcFound
  Enriched = {2}
  Scopes = {1, 2}
  Years <- mcYears
  Added <- mcAdded
  Passes <- mcPasses
  Fit <- mcFit
  Barred <- mcBarred
  Plan <- mcPlan
  Refined <- mcRefined
  Recovery <- mcRecovery
  Required = 2
  Target = 2
  Limit = 2
  PoolTargets = {3}
  Rounds = 1
  ScreenLimit = 1
  ScreenMost = 3
  ScreenBatch = 1
  DetailBatch = 1
  MinimumGain = 1
  Recoveries = 1
  Counted = 3

VIEW RetrievalView
CHECK_DEADLOCK FALSE
INVARIANTS
  EvidenceSound
  SentOnce
PROPERTIES
  EvidenceKept
