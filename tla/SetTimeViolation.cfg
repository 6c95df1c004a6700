\* Expected violation: a stale handshake timer defeats the next session's.
SPECIFICATION ScreenSpec
CONSTANTS
  Device = {devA}
  NoDevice = NoDevice
  MaxSessions = 2
PROPERTIES
  SetTimeAfterNotification
CHECK_DEADLOCK FALSE
