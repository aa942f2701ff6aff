SPECIFICATION Spec
CONSTANTS
  Task = {t1, t2}
  Part = {plan}
  Cap = 9
  MaxDesigns = 2
  MaxDrafts = 2
  ParseGuarded = TRUE
  MaxBegins = 3
CHECK_DEADLOCK FALSE
INVARIANTS CompleteIsReviewed
PROPERTIES DesignPaidOnce Implements
