\* Six messages over one payload; up to three notifications lost.
CONSTANTS
  Size <- MCSize
  Payloads = {4}
  MaxShort = 1
  MaxFaults = 3
SPECIFICATION Spec
INVARIANT FullMessagesAreSeen
CHECK_DEADLOCK FALSE
