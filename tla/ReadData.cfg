\* Two dialogs (the second beside the first one's loop) and any two faults:
\* an unrelated message, a lost one, a restart, a failed write.
SPECIFICATION FairSpec
CONSTANTS
  Layouts <- MCLayouts
  MaxDialogs = 2
  MaxStarts = 2
  MaxFaults = 2
  MaxRetries = 1
  MaxInFlight = 2
INVARIANTS
  TypeOK
  SavedSetsAreComplete
  DeletedWasReceived
  ReadSetsAreSaved
  DeletedIsSavedOrHeld
PROPERTIES
  ReadingCompletes
CHECK_DEADLOCK FALSE
