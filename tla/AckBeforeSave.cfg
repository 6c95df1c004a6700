\* Expected violation: items are deleted on the device before they are saved.
SPECIFICATION Spec
CONSTANTS
  Layouts <- TwoSets
  MaxDialogs = 1
  MaxStarts = 1
  MaxFaults = 0
  MaxRetries = 1
  MaxInFlight = 2
INVARIANTS
  DeletedIsSaved
CHECK_DEADLOCK FALSE
