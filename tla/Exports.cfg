SPECIFICATION FocusSpec
CONSTANTS
  Member = {plan}
  Client = {c1, c2}
  MaxBrief = 2
  MaxBlueprint = 2
  MaxDoc = 2
  MaxExports = 1
  MaxCrashes = 1
CHECK_DEADLOCK FALSE
SYMMETRY Symmetry
INVARIANTS ReadyIsWhole ValidatedHasNoGaps BuildingIsAttended ReadyPairWasCurrent
