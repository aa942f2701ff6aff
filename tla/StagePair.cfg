SPECIFICATION FairSpec
CONSTANTS
  Task = {t1}
  Part = {sheet, key}
  Cap = 12
  MaxDesigns = 0
  MaxDrafts = 2
  ParseGuarded = FALSE
  MaxBegins = 2
CHECK_DEADLOCK FALSE
INVARIANT CompleteIsStored
PROPERTIES AttemptEnds
