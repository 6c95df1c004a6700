\* Liveness, so no symmetry: two sessions of one device.
SPECIFICATION TabSpec
CONSTANTS
  Device = {devA}
  NoDevice = NoDevice
  MaxSessions = 2
INVARIANTS
  TabTypeOK
  OnlyLateOrReplacedOutlive
PROPERTIES
  HandshakeReachesTab
  MtuErrorLeavesScreen
  DisconnectIsReported
CHECK_DEADLOCK FALSE
