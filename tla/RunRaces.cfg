SPECIFICATION FairSpec
CONSTANTS
  Project = {p1}
  Lesson = {1}
  Worker = {w1, w2}
  Client = {c1, c2}
  NoClient = NoClient
  MaxBrief = 2
  MaxBlueprint = 1
  MaxRuns = 2
  MaxResumes = 2
  MaxCrashes = 0
  Cap = 3
  LessonCalls = 2
  Limit = 1
  MaxRetries = 1
CHECK_DEADLOCK FALSE
INVARIANTS CappedIsSpent OneRunPerPair AdmissionHolds NoStrandedRun
PROPERTY EventuallySettled
