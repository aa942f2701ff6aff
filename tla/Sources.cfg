SPECIFICATION Spec
CONSTANTS
  Source = {s1, s2}
  Uploader = {u1, u2}
  Deleter = {d1, d2}
  Worker = {w1, w2}
  NoOne = NoOne
  MaxSources = 1
  MaxTriggers = 1
  MaxErrors = 1
  MaxCrashes = 1
CHECK_DEADLOCK FALSE
SYMMETRY Symmetry
INVARIANTS SourcesWithinLimit DeletedLeavesNothing OneCallAtATime OnlyScreenedIsUsed ProcessingIsCarried
PROPERTY DeletionTakesTheFile
