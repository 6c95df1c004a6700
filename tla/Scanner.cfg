\* Five advertisements of four sOPEP devices, one of another; three scans.
SPECIFICATION FairSpec
CONSTANTS
  Advertisement <- MCAdvertisement
  MaxScans = 3
INVARIANTS
  TypeOK
  NoHiddenScan
  ListIsWhatWasHeard
PROPERTIES
  ScanStopsBehind
\* The user may run out of scans.
CHECK_DEADLOCK FALSE
