\* Expected violation: a requestMtu that throws is recorded nowhere.
SPECIFICATION ScreenSpec
CONSTANTS
  Device = {devA}
  NoDevice = NoDevice
  MaxSessions = 1
PROPERTIES
  MtuFailureIsReported
CHECK_DEADLOCK FALSE
