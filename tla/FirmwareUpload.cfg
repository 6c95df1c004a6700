\* Files of less than a block, one, one and a half, and three and a half
\* blocks; three dialogs; two losses.
SPECIFICATION FairSpec
CONSTANTS
  FileSizes = {1, 2, 3, 7}
  BlockSize = 2
  MaxDialogs = 3
  MaxLosses = 2
INVARIANTS
  TypeOK
  BlocksWrittenInOrder
  UpdateReadyIsWholeImage
  OneCommandUnanswered
PROPERTIES
  UploadCompletes
  UploadIsTransfer
\* Every dialog may be used up and every command answered.
CHECK_DEADLOCK FALSE
