\* Two devices, three sessions: a current one, one being cancelled and one
\* leaked.  Safety only, so the devices are symmetric.
SPECIFICATION ScreenSpec
CONSTANTS
  Device = {devA, devB}
  NoDevice = NoDevice
  MaxSessions = 3
SYMMETRY DeviceSymmetry
INVARIANTS
  TypeOK
  CharacteristicFollowsStream
  ConnectedIsBacked
  MtuErrorTearsDown
  DisconnectedIsTrue
  DoneHandshakeCanCommand
\* Every session may be used up and every closure finished.
CHECK_DEADLOCK FALSE
