---------------------------- MODULE FirmwareUpload ----------------------------
(***************************************************************************)
(* Uploading a firmware image to a device: SopepFirmwareUploadDialog with  *)
(* its listener, and the device's side of fw-start, fw-block and           *)
(* fw-schedule.                                                            *)
(*                                                                         *)
(* Responses carry no identification: the dialog counts fw-block responses *)
(* and derives from the count which block to send next.  A dialog that is  *)
(* cancelled and opened again starts with a fresh count, but the responses *)
(* to its predecessor's commands reach it all the same.                    *)
(*                                                                         *)
(* The device is external: fw-start empties its image and answers with the *)
(* block size, fw-block appends to the image, fw-schedule is refused when  *)
(* the image is invalid (BLE-Protocol.pdf, pages 9 and 10).  So is the     *)
(* connection, of which only its characteristic is seen here.  A piece of  *)
(* the file is the pair << from, to >> of sublist's arguments.             *)
(***************************************************************************)
EXTENDS Integers, Sequences

CONSTANTS
  FileSizes,     \* the sizes of the firmware files considered, in bytes
  BlockSize,     \* block-size of the device
  MaxDialogs,    \* bound: how often the dialog is opened
  MaxLosses      \* bound: commands and responses lost, and lost links

ASSUME FileSizesAssumption == FileSizes \subseteq Nat
ASSUME BlockSizeAssumption == BlockSize \in Nat \ {0}
ASSUME BoundsAssumption == MaxDialogs \in Nat \ {0} /\ MaxLosses \in Nat

VARIABLES
  fileSize,        \* length of the file the user taps
  image,           \* device: the pieces received since fw-start
  toDevice,        \* commands on their way to the device
  toApp,           \* responses on their way to the dialog's listener
  characteristic,  \* _characteristic # null: notifications are enabled
  dialog,          \* "closed", "files" (choosing), "chosen" (choosing again,
                   \* _fwFile # null), "uploading" (_uploadInProgress)
  fwBytesLoaded,   \* _fwBytes # null
  fwTotalBlocks,   \* _fwTotalBlocks, Unset while null
  fwBlocksWritten, \* _fwBlocksWritten
  uploadComplete,  \* _uploadComplete: the dialog shows "Update Ready"
  quiet,           \* history: nothing was unanswered when the dialog opened
  late,            \* history: fw-start was answered before the file was read
  opened, losses   \* uses of the bounds

deviceVars == << fileSize, image >>
dialogVars == << dialog, fwBytesLoaded, fwTotalBlocks, fwBlocksWritten,
                 uploadComplete, quiet, late, opened >>
vars == << deviceVars, toDevice, toApp, characteristic, dialogVars, losses >>

Unset == -1

(* (length / blockSize).ceil()                                             *)
BlocksOf(n) == (n + BlockSize - 1) \div BlockSize

Piece == {p \in (0 .. fileSize) \X (0 .. fileSize) : p[1] < p[2]}
Start == [type |-> "start", piece |-> << 0, 0 >>]
Schedule == [type |-> "schedule", piece |-> << 0, 0 >>]
Block(piece) == [type |-> "block", piece |-> piece]
Command == {Start, Schedule} \cup {Block(p) : p \in Piece}
Response == {"start", "block", "scheduled", "invalid"}

TypeOK ==
  /\ fileSize \in FileSizes
  /\ image \in Seq(Piece)
  /\ toDevice \in Seq(Command)
  /\ toApp \in Seq(Response)
  /\ characteristic \in BOOLEAN
  /\ dialog \in {"closed", "files", "chosen", "uploading"}
  /\ fwBytesLoaded \in BOOLEAN
  /\ fwTotalBlocks \in {Unset, BlocksOf(fileSize)}
  /\ fwBlocksWritten \in Nat
  /\ uploadComplete \in BOOLEAN
  /\ quiet \in BOOLEAN
  /\ late \in BOOLEAN
  /\ opened \in 0 .. MaxDialogs
  /\ losses \in 0 .. MaxLosses

Init ==
  /\ fileSize \in FileSizes
  /\ image = << >>
  /\ toDevice = << >>
  /\ toApp = << >>
  /\ characteristic = FALSE
  /\ dialog = "closed"
  /\ fwBytesLoaded = FALSE
  /\ fwTotalBlocks = Unset
  /\ fwBlocksWritten = 0
  /\ uploadComplete = FALSE
  /\ quiet = TRUE
  /\ late = FALSE
  /\ opened = 0
  /\ losses = 0

-----------------------------------------------------------------------------
(* The device and the link *)

(* The pieces of s follow one another from the file's first byte on.       *)
Contiguous(s) ==
  \A i \in DOMAIN s : s[i][1] = (IF i = 1 THEN 0 ELSE s[i - 1][2])

WholeImage(s) == s # << >> /\ Contiguous(s) /\ s[Len(s)][2] = fileSize

Answer ==
  /\ toDevice # << >>
  /\ LET c == Head(toDevice) IN
       \/ /\ c.type = "start"
          /\ image' = << >>
          /\ toApp' = Append(toApp, "start")
       \/ /\ c.type = "block"
          /\ image' = Append(image, c.piece)
          /\ toApp' = Append(toApp, "block")
       \/ /\ c.type = "schedule"
          /\ toApp' = Append(toApp, IF WholeImage(image) THEN "scheduled"
                                                         ELSE "invalid")
          /\ UNCHANGED image
  /\ toDevice' = Tail(toDevice)
  /\ UNCHANGED << fileSize, characteristic, dialogVars, losses >>

(* A failed write is swallowed, a damaged response dropped by the decoder. *)
Lose ==
  /\ losses < MaxLosses
  /\ losses' = losses + 1
  /\ \/ toDevice # << >> /\ toDevice' = Tail(toDevice) /\ UNCHANGED toApp
     \/ toApp # << >> /\ toApp' = Tail(toApp) /\ UNCHANGED toDevice
  /\ UNCHANGED << deviceVars, characteristic, dialogVars >>

(* A handshake timer of BleInteractor, a second or more after "connected". *)
EnableNotification ==
  /\ ~characteristic
  /\ characteristic' = TRUE
  /\ UNCHANGED << deviceVars, toDevice, toApp, dialogVars, losses >>

(* The link is lost, with everything on its way over it.                   *)
DisableNotification ==
  /\ losses < MaxLosses
  /\ losses' = losses + 1
  /\ characteristic
  /\ characteristic' = FALSE
  /\ toDevice' = << >> /\ toApp' = << >>
  /\ UNCHANGED << deviceVars, dialogVars >>

-----------------------------------------------------------------------------
(* The user *)

OpenDialog ==
  /\ dialog = "closed"
  /\ opened < MaxDialogs
  /\ opened' = opened + 1
  /\ dialog' = "files"
  /\ fwBytesLoaded' = FALSE
  /\ fwTotalBlocks' = Unset
  /\ fwBlocksWritten' = 0
  /\ uploadComplete' = FALSE
  /\ quiet' = (toDevice = << >> /\ toApp = << >>)
  /\ late' = FALSE
  /\ UNCHANGED << deviceVars, toDevice, toApp, characteristic, losses >>

(* Tap on a file: its reading starts and fw-start is sent at once.  With a *)
(* null _characteristic that throws, and the files are still shown.        *)
TapFile ==
  /\ dialog \in {"files", "chosen"}
  /\ \/ /\ characteristic
        /\ dialog' = "uploading"
        /\ toDevice' = Append(toDevice, Start)
     \/ /\ ~characteristic
        /\ dialog' = "chosen"
        /\ UNCHANGED toDevice
  /\ UNCHANGED << deviceVars, toApp, characteristic, fwBytesLoaded,
                  fwTotalBlocks, fwBlocksWritten, uploadComplete, quiet, late,
                  opened, losses >>

(* getFwImageFile resumes.                                                 *)
FileLoaded ==
  /\ dialog \in {"chosen", "uploading"}
  /\ ~fwBytesLoaded
  /\ fwBytesLoaded' = TRUE
  /\ UNCHANGED << deviceVars, toDevice, toApp, characteristic, dialog,
                  fwTotalBlocks, fwBlocksWritten, uploadComplete, quiet, late,
                  opened, losses >>

(* Close or Cancel, at any time; dispose cancels the listener.             *)
CloseDialog ==
  /\ dialog # "closed"
  /\ dialog' = "closed"
  /\ UNCHANGED << deviceVars, toDevice, toApp, characteristic, fwBytesLoaded,
                  fwTotalBlocks, fwBlocksWritten, uploadComplete, quiet, late,
                  opened, losses >>

(* With a null _characteristic it throws before it pops: nothing changes.  *)
ScheduleUpdate ==
  /\ dialog = "uploading"
  /\ uploadComplete
  /\ characteristic
  /\ toDevice' = Append(toDevice, Schedule)
  /\ dialog' = "closed"
  /\ UNCHANGED << deviceVars, toApp, characteristic, fwBytesLoaded,
                  fwTotalBlocks, fwBlocksWritten, uploadComplete, quiet, late,
                  opened, losses >>

-----------------------------------------------------------------------------
(* The dialog's listener *)

(* Mutant: the piece is sent whatever the length of the file.              *)
SendPiece_Unbounded(from, to) ==
  toDevice' = Append(toDevice, Block(<< from, to >>))

(* sendFwData(_fwBytes!.sublist(from, to)): RangeError beyond the file.    *)
SendPiece(from, to) ==
  toDevice' = IF to <= fileSize THEN Append(toDevice, Block(<< from, to >>))
                                ELSE toDevice

(* Mutant: the second block is sent without waiting for the first one's    *)
(* response.                                                               *)
OnFwStart_Pipelined ==
  /\ fwTotalBlocks' = BlocksOf(fileSize)
  /\ toDevice' = toDevice \o << Block(<< 0, BlockSize >>),
                                Block(<< BlockSize, 2 * BlockSize >>) >>
  /\ late' = ~fwBytesLoaded
  /\ UNCHANGED << fwBlocksWritten, uploadComplete >>

(* Without _fwBytes the handler throws before it knows the total.          *)
OnFwStart ==
  /\ IF fwBytesLoaded
       THEN fwTotalBlocks' = BlocksOf(fileSize) /\ SendPiece(0, BlockSize)
       ELSE UNCHANGED << fwTotalBlocks, toDevice >>
  /\ late' = ~fwBytesLoaded
  /\ UNCHANGED << fwBlocksWritten, uploadComplete >>

(* Mutant: the count is advanced after the block is chosen.                *)
OnFwBlock_StaleCount ==
  LET n == fwBlocksWritten IN
  /\ fwBlocksWritten' = n + 1
  /\ \/ /\ fwTotalBlocks = Unset \/ n > fwTotalBlocks
        /\ UNCHANGED << toDevice, uploadComplete >>
     \/ /\ n < fwTotalBlocks - 1
        /\ SendPiece(BlockSize * n, BlockSize * (n + 1))
        /\ UNCHANGED uploadComplete
     \/ /\ n = fwTotalBlocks - 1
        /\ SendPiece(BlockSize * n, fileSize)
        /\ UNCHANGED uploadComplete
     \/ /\ n = fwTotalBlocks
        /\ uploadComplete' = TRUE
        /\ UNCHANGED toDevice
  /\ UNCHANGED << fwTotalBlocks, late >>

(* Mutant: complete when the last block is sent, not acknowledged; a       *)
(* one-block image never completes.                                        *)
OnFwBlock_ReadyEarly ==
  LET n == fwBlocksWritten + 1 IN
  /\ fwBlocksWritten' = n
  /\ \/ /\ fwTotalBlocks = Unset \/ n >= fwTotalBlocks
        /\ UNCHANGED << toDevice, uploadComplete >>
     \/ /\ n < fwTotalBlocks - 1
        /\ SendPiece(BlockSize * n, BlockSize * (n + 1))
        /\ UNCHANGED uploadComplete
     \/ /\ n = fwTotalBlocks - 1
        /\ SendPiece(BlockSize * n, fileSize)
        /\ uploadComplete' = TRUE
  /\ UNCHANGED << fwTotalBlocks, late >>

(* Counted even when _fwTotalBlocks! then throws.                          *)
OnFwBlock ==
  LET n == fwBlocksWritten + 1 IN
  /\ fwBlocksWritten' = n
  /\ \/ /\ fwTotalBlocks = Unset \/ n > fwTotalBlocks
        /\ UNCHANGED << toDevice, uploadComplete >>
     \/ /\ n < fwTotalBlocks - 1
        /\ SendPiece(BlockSize * n, BlockSize * (n + 1))
        /\ UNCHANGED uploadComplete
     \/ /\ n = fwTotalBlocks - 1
        /\ SendPiece(BlockSize * n, fileSize)
        /\ UNCHANGED uploadComplete
     \/ /\ n = fwTotalBlocks
        /\ uploadComplete' = TRUE
        /\ UNCHANGED toDevice
  /\ UNCHANGED << fwTotalBlocks, late >>

(* The fw-schedule error is only shown; nothing listens without a dialog.  *)
Deliver ==
  /\ toApp # << >>
  /\ \/ dialog # "closed" /\ Head(toApp) = "start" /\ OnFwStart
     \/ dialog # "closed" /\ Head(toApp) = "block" /\ OnFwBlock
     \/ /\ dialog = "closed" \/ Head(toApp) \in {"scheduled", "invalid"}
        /\ UNCHANGED << toDevice, fwTotalBlocks, fwBlocksWritten,
                        uploadComplete, late >>
  /\ toApp' = Tail(toApp)
  /\ UNCHANGED << deviceVars, characteristic, dialog, fwBytesLoaded, quiet,
                  opened, losses >>

-----------------------------------------------------------------------------
Next ==
  \/ Answer \/ Lose
  \/ EnableNotification \/ DisableNotification
  \/ OpenDialog \/ TapFile \/ FileLoaded \/ CloseDialog \/ ScheduleUpdate
  \/ Deliver

Spec == Init /\ [][Next]_vars

(* The device answers, the event loop delivers, the file read ends.        *)
Fairness == WF_vars(Answer) /\ WF_vars(Deliver) /\ WF_vars(FileLoaded)

FairSpec == Spec /\ Fairness

-----------------------------------------------------------------------------
(* Properties.  They are about dialogs that no answer to an earlier one    *)
(* can reach (quiet); ReadyIsTransferred shows why.                        *)

(* "FW blocks written: n": the device holds the first n blocks of the file *)
(* in order, and at most the one sent next, though commands and responses  *)
(* may be lost.                                                            *)
BlocksWrittenInOrder ==
  dialog = "uploading" /\ quiet /\ fwTotalBlocks # Unset =>
    /\ Len(image) \in {fwBlocksWritten, fwBlocksWritten + 1}
    /\ \A i \in DOMAIN image :
         /\ image[i][1] = BlockSize * (i - 1)
         /\ image[i][2] \in {BlockSize * i, fileSize}

(* "Update Ready" and the Schedule button appear only once the device has  *)
(* the whole image.                                                        *)
UpdateReadyIsWholeImage ==
  dialog = "uploading" /\ quiet /\ uploadComplete => WholeImage(image)

(* Commands are written without being awaited; that their packets do not   *)
(* mix rests on at most one being unanswered.                              *)
OneCommandUnanswered ==
  dialog = "uploading" /\ quiet => Len(toDevice) + Len(toApp) <= 1

(* An upload that is not closed completes, unless a command or response is *)
(* lost, fw-start is answered before the file is read, or the file is      *)
(* shorter than one block.                                                 *)
UploadCompletes ==
  dialog = "uploading" /\ quiet ~>
    \/ uploadComplete \/ dialog # "uploading"
    \/ losses > 0 \/ late \/ fileSize < BlockSize

(* A quiet upload as a FileTransfer.  What the device holds counts as a    *)
(* copy of the file's start only while its pieces follow one another.      *)
Uploading == dialog = "uploading" /\ quiet
Writes == Uploading /\ fwTotalBlocks # Unset
CopyOf(s) ==
  IF s = << >> THEN 0 ELSE IF Contiguous(s) THEN s[Len(s)][2] ELSE fileSize + 1
BytesOf(n) == IF BlockSize * n < fileSize THEN BlockSize * n ELSE fileSize

UploadPhase ==
  IF ~Uploading THEN "idle" ELSE IF uploadComplete THEN "ready" ELSE "copying"
Copied == IF Writes THEN CopyOf(image) ELSE 0
Confirmed == IF Writes THEN BytesOf(fwBlocksWritten) ELSE 0

Transfer == INSTANCE FileTransfer WITH
  Sizes <- FileSizes, Step <- BlockSize,
  size <- fileSize, phase <- UploadPhase,
  copied <- Copied, confirmed <- Confirmed

(* Commands and responses that may be lost, a handler that counts          *)
(* responses without knowing what they answer, and a device that appends   *)
(* whatever comes: together they do nothing that a FileTransfer would not. *)
UploadIsTransfer == Transfer!TransferSpec

(* BLE-Protocol.pdf, page 9: the phone sends "as many FW Next Block        *)
(* commands as needed to complete the transfer"; the dialog's "Update      *)
(* Ready" says that this is done.                                          *)
ReadyIsTransferred ==
  dialog = "uploading" /\ uploadComplete => WholeImage(image)

=============================================================================
