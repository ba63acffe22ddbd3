SPECIFICATION MCSpec
CONSTANTS
  Papers = {p1}
  Contents = {c1, c2}
  Takes = {1}
  Plans = {1}
  Issues = {unsupported, few}
  Unsafe = {unsupported}
  Count = few
  MaxTexts = 2
  MaxRuns = 2
  None = None
  Nil = Nil
  q1 = q1
  q2 = q2
  q3 = q3
  PaperIds = {q1, q2}
  Strays = {q3}
  Unconfirmed = {}
  Poor = {}
  Claiming = {"fact"}
  Surveys = {"survey"}
  FullText = {"figure"}
  Figured = {"figure"}
  Soften <- mcSoften
  Unfigure <- mcUnfigure
  Flawed = {}
  Parts = {"intro", "route"}
  Routed = {"route"}
  Floor = 1
  MinBody = 1
  Authorized <- mcAuthorized
  ClaimSeq <- mcClaims
  Overlap <- mcOverlap
  FewRemoved = 1
  MostRemoved = 2
  CardKinds <- mcKinds
  Drafts <- mcDrafts
  Legacies <- mcLegacies
  Wordings <- mcWordings
  Replies = {"entailed", "insufficient"}
  Named <- mcNamed
  RefsAsked = 1
  ExplicitCount = TRUE
  FullShare <- mcFullShare
  AbstractShare <- mcAbstractShare
  Dominance <- mcDominance
  MaxDrafts = 2
  MaxSessions = 2
SYMMETRY MCSymmetry
VIEW MCView
CONSTRAINT mcBound
CHECK_DEADLOCK FALSE
INVARIANTS
  DeliveredVerified
  EvidenceCurrent
  DeliveredJudged
PROPERTIES
  NoRegression
  RepairsSound
