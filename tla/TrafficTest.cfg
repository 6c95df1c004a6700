\* Two visits of the tab, two tests, two ticks, an unrelated message and
\* a lost one.
SPECIFICATION FairSpec
CONSTANTS
  MaxVisits = 2
  MaxStarts = 2
  MaxTicks = 2
  MaxOthers = 1
  MaxLosses = 1
INVARIANTS
  TypeOK
  LoggingRestored
  NoTimerBehindTab
  TrafficBounded
PROPERTIES
  StoppedFallsSilent
\* Every visit may be used up with the link down.
CHECK_DEADLOCK FALSE
