SPECIFICATION DeletionSpec
CONSTANTS
  SourceKey = {s1}
  ArtifactKey = {a1}
CHECK_DEADLOCK FALSE
INVARIANTS UnrepairedStaysVisible
