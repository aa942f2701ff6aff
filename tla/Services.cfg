SPECIFICATION Spec
CONSTANTS
  Client = {c1, c2}
  MaxRounds = 2
  MaxToolRounds = 1
  Cap = 2
  MaxPlans = 2
  MaxRuns = 3
  MaxBriefs = 2
  MaxDisturbances = 1
  Editor = {c1, c2}
  MaxLessons = 1
  MaxRevisions = 2
  MaxReadyPlans = 2
  SourceKey = {x, y}
  ArtifactKey = {z}
  Content = {x, y}
  Trigger = {t1, t2}
  PassWorker = {w1, w2}
  Teacher = {c1, c2}
  Reader = {w1, w2}
  MaxRecords = 1
  MaxCandidates = 2
  MaxExecutions = 2
  Unit = {u1}
  Submission = {x, y}
  Evaluation = {c1, c2}
  MaxPackages = 2
  MaxEvidence = 2
  MaxDocuments = 2
  Author = {c1, c2}
  Follower = {w1, w2}
  MaxStreams = 2
  MaxEvents = 3
  PageSize = 2
  Counted = TRUE
  Caller = {c1, c2}
  Limit <- SmallLimit
  MaxProjects = 1
  Size = {2}
  MaxWindows = 2
  MaxCalls = 3
  Project = {x, y}
  Starter = {c1, c2}
  Listener = {l1}
  Quota = 2
  MaxTokens = 1
  MaxNarrations = 2
  Lesson = {1, 2}
  Derived = {"slide_deck"}
  Asker = {c1, c2}
  MaxPairs = 2
  MaxResumes = 1
CHECK_DEADLOCK FALSE
SYMMETRY Symmetry
INVARIANTS ReadyHasDraft OneActivePlan EditsAreLinear ConfirmedFitsItsBrief
  ResidueIsKnown SourcesAreGone RecordsWithinCap ContextIsKept OutcomeIsEarned
  DocumentsAreOwned SeenIsPrefix LimitsHold ToldIsStored
  DerivedFollowsItsPair
