\* Two links of payloads 3 and 4, two commands and an event; a lost
\* notification and a refused write.
CONSTANTS
  CommandSize <- MCCommandSize
  Size <- MCSize
  DefaultMtu = 6
  Mtus = {7}
  MaxLinks = 2
  MaxRefusals = 1
  Payloads = {3, 4}
  MaxShort = 1
  MaxFaults = 1
  MaxEvents = 1
SPECIFICATION LiveLinkSpec
INVARIANTS
  LinkTypeOK
  UnbrokenIsReceived
  SizedCallsFit
  DecodedInOrder
  ArrivedIsHeard
  BytesAreOwn
CHECK_DEADLOCK FALSE
PROPERTY CommandIsAnswered
