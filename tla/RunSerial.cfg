SPECIFICATION Spec
CONSTANTS
  Project = {p1}
  Lesson = {1, 2}
  Worker = {w1, w2}
  Client = {c1}
  NoClient = NoClient
  MaxBrief = 2
  MaxBlueprint = 1
  MaxRuns = 2
  MaxResumes = 2
  MaxCrashes = 1
  Cap = 3
  LessonCalls = 1
  Limit = 1
  MaxRetries = 1
CHECK_DEADLOCK FALSE
SYMMETRY Symmetry
INVARIANTS TypeOK OneTaskPerRun CompleteRunIsWhole StaleWorkBounded
PROPERTIES CompletedLessonsStay RunsProgress
