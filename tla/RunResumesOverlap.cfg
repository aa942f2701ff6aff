SPECIFICATION Spec
CONSTANTS
  Project = {p1}
  Lesson = {1, 2}
  Worker = {w1, w2}
  Client = {c1, c2}
  NoClient = NoClient
  MaxBrief = 1
  MaxBlueprint = 1
  MaxRuns = 1
  MaxResumes = 2
  MaxCrashes = 0
  Cap = 4
  LessonCalls = 1
  Limit = 1
  MaxRetries = 0
CHECK_DEADLOCK FALSE
SYMMETRY Symmetry
PROPERTY CompletedLessonsStay
