\* Expected violation: a reopened dialog counts its predecessor's responses.
SPECIFICATION Spec
CONSTANTS
  FileSizes = {5}
  BlockSize = 2
  MaxDialogs = 2
  MaxLosses = 0
INVARIANTS
  ReadyIsTransferred
CHECK_DEADLOCK FALSE
