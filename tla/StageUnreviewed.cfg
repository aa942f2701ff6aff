SPECIFICATION Spec
CONSTANTS
  Task = {t1}
  Part = {plan}
  Cap = 20
  MaxDesigns = 2
  MaxDrafts = 2
  ParseGuarded = TRUE
  MaxBegins = 1
CHECK_DEADLOCK FALSE
INVARIANT StoredWasReviewed
