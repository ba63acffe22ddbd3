SPECIFICATION MCSpec
CONSTANTS
  Builders = {b1, b2}
  Hashes = {h1, h2}
  short = short
  long = long
  Profiles = {short, long}
  Count <- Lengths
  BatchSize = 1
  NoSource = NoSource
  NoSnapshot = NoSnapshot
  NoJob = NoJob
  MaxRevision = 2
  MaxClaims = 3
  aim = aim
  how = how
  found = found
  limit = limit
  weak = weak
  vague = vague
  torn = torn
  made = made
  signed = signed
  Sentences <- AllSentences
  CleanValues <- CleanOnes
  Marked <- Signed
  ProblemText <- Aims
  MethodText <- Methods
  ResultText <- Results
  LimitationText <- Limits
  ContrastValues <- Contrasts
  Mentions <- MentionPairs
  Alike <- AlikePairs
  Papers <- AllPapers
  Chunks <- SevenChunks
  Hits <- SomeHits
  ChunkAnswers <- SomeAnswers
  AbstractAnswers <- DeclaredAnswers
  NoCard = NoCard
  WordsOf <- mcWords
  Focuses <- mcFocuses
  TopicWords = {"u"}
  Comparable = 2
  Profile = {"v"}
  PaperSeq <- mcPapers
  Cards <- mcCards
  CardWords <- mcWords
  FloorFrom = 6
  RouteFloor = 2
  Taxonomy <- mcTaxonomy
  Placements <- mcPlacements
  Frames <- mcFrames
  Claimed <- mcClaimed
  Usable <- mcUsable
  Requests <- mcRequests
  Required = 6
  Limit = 8
  Explicit = TRUE
  BestEffort = FALSE
  Ratio = 85
  MaxSections = 3
SYMMETRY Symmetry
CHECK_DEADLOCK FALSE
INVARIANTS
  CardSound
  OutlineSound
  ShortReported
PROPERTIES
  PublishedWhole
  Fenced
  ReadsCurrent
