SPECIFICATION RegenerationSpec
CONSTANTS
  Lesson = {1, 2}
  Derived = {"slide_deck"}
  Asker = {a1, a2}
  MaxPairs = 2
  MaxResumes = 1
CHECK_DEADLOCK FALSE
INVARIANTS PromisedIsCovered
