SPECIFICATION Spec
VIEW WritingView
CONSTANTS
  CardSeq <- mcCards
  Statements <- mcStatements
  RouteSeq <- mcRoutes
  PaperOf <- mcPaperOf
  SourceOf <- mcSource
  Opening <- mcOpening
  Factual <- mcPapers
  Usable <- mcPapers
  Wanted = 4
  Explicit = TRUE
  MinPapers <- mcMinPapers
  Core = {"problem", "method_progression", "background_fact"}
  Coverable = {"problem", "method_progression", "finding"}
  SoleLimit = 1
  PerRoute = 1
  MaxTheses = 2
  Outline <- mcOutline
  Allotments <- mcAllotments
  Statable = {"a", "b"}
  Versions = {2}
  Part = 50
  Required = 2
  MaxWrites = 2
  None = None
  RoutePapers <- mcRoutePapers
  Early <- mcEarly
  Frameworks <- mcFrameworks
  Readings <- mcReadings
  MinCore = 2
  MinSplit = 4
  MaxSubRoutes = 2
  Oversized <- mcOversized
  RefsWanted = 9
  TargetShare <- mcTargetShare
  TargetMin = 2
  TargetMax = 4
  MinCited = 2
  Suggested <- mcSuggested
  MaxQueries = 2
  MaxRounds = 2
  MaxAttempts = 2
  MaxRevisions = 1
  ScopeShare <- mcScopeShare
  MinNew = 1
  MinGain <- mcMinGain
  Stray <- mcStray
CHECK_DEADLOCK FALSE
INVARIANTS
  ClaimsLicensed
  ReuseCurrent
  CitesLicensed
  SectionsStay
  RoutesSound
