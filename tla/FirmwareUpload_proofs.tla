------------------------ MODULE FirmwareUpload_proofs ------------------------
(***************************************************************************)
(* Proofs about FirmwareUpload for every file size, block size and number  *)
(* of dialogs and losses.                                                  *)
(*                                                                         *)
(* In a quiet dialog exactly one thing at a time is under way: a command,  *)
(* its response, or nothing (it was lost, or the image is complete).       *)
(* QuietUpload says how the image and the count stand in each of these     *)
(* cases; it is inductive, and the run's invariants follow from it.        *)
(***************************************************************************)
EXTENDS FirmwareUpload, TLAPS

USE FileSizesAssumption, BlockSizeAssumption, BoundsAssumption

(* Rounding up: the last block begins before the end of the file, and the  *)
(* blocks reach its end.                                                   *)
LEMMA Blocks ==
  ASSUME NEW n \in Nat
  PROVE  /\ BlocksOf(n) \in Nat
         /\ BlockSize * (BlocksOf(n) - 1) < n
         /\ n <= BlockSize * BlocksOf(n)
<1> DEFINE x == n + BlockSize - 1
           q == x \div BlockSize
<1>1. x \in Nat /\ q \in Nat
  OBVIOUS
<1>2. x = BlockSize * q + (x % BlockSize) /\ x % BlockSize \in 0 .. (BlockSize - 1)
  BY <1>1
<1>3. QED
  BY <1>1, <1>2 DEF BlocksOf

(* The piece block i of the file must be sent as, i from 1.                *)
PieceOf(i) ==
  << BlockSize * (i - 1),
     IF i = BlocksOf(fileSize) THEN fileSize ELSE BlockSize * i >>

InOrder == \A i \in 1 .. Len(image) : image[i] = PieceOf(i)

NothingUnderWay == toDevice = << >> /\ toApp = << >>

BeforeStart ==
  /\ fwTotalBlocks = Unset /\ fwBlocksWritten = 0 /\ ~uploadComplete
  /\ \/ toDevice = << Start >> /\ toApp = << >>
     \/ toDevice = << >> /\ toApp = << "start" >> /\ image = << >>
     \/ NothingUnderWay

(* n blocks are acknowledged, the next one is on its way.                  *)
BlockSent ==
  /\ toDevice = << Block(PieceOf(fwBlocksWritten + 1)) >> /\ toApp = << >>
  /\ Len(image) = fwBlocksWritten
  /\ ~uploadComplete

BlockAnswered ==
  /\ toDevice = << >> /\ toApp = << "block" >>
  /\ Len(image) = fwBlocksWritten + 1
  /\ ~uploadComplete

Stalled ==
  /\ NothingUnderWay
  /\ Len(image) \in {fwBlocksWritten, fwBlocksWritten + 1}
  /\ uploadComplete => /\ Len(image) = fwBlocksWritten
                       /\ Len(image) = BlocksOf(fileSize)
                       /\ fwBlocksWritten > 0

Writing ==
  /\ fwTotalBlocks = BlocksOf(fileSize)
  /\ InOrder
  /\ BlockSent \/ BlockAnswered \/ Stalled

QuietUpload ==
  /\ dialog \in {"files", "chosen"} /\ quiet =>
       /\ NothingUnderWay
       /\ fwTotalBlocks = Unset /\ fwBlocksWritten = 0 /\ ~uploadComplete
  /\ dialog = "uploading" /\ quiet => BeforeStart \/ Writing

UploadInv == TypeOK /\ QuietUpload

-----------------------------------------------------------------------------
(* The commands the device can find first on its way.                      *)
LEMMA FirstCommand ==
  ASSUME TypeOK, toDevice # << >>
  PROVE  /\ Head(toDevice) \in Command
         /\ Tail(toDevice) \in Seq(Command)
         /\ Head(toDevice).type = "block" => Head(toDevice).piece \in Piece
<1>1. toDevice \in Seq(Command)
  BY DEF TypeOK
<1>2. Head(toDevice) \in Command /\ Tail(toDevice) \in Seq(Command)
  BY <1>1
<1>3. QED
  BY <1>2 DEF Command, Block, Start, Schedule

(* What SendPiece appends is a command.                                    *)
LEMMA SentPiece ==
  ASSUME TypeOK, NEW from \in Nat, NEW to \in Nat, from < to, SendPiece(from, to)
  PROVE  toDevice' \in Seq(Command)
<1>1. toDevice \in Seq(Command) /\ fileSize \in Nat
  BY DEF TypeOK
<1>2. CASE to <= fileSize
  <2>1. << from, to >> \in Piece
    BY <1>1, <1>2 DEF Piece
  <2>2. Block(<< from, to >>) \in Command
    BY <2>1 DEF Command
  <2>3. QED
    BY <1>1, <1>2, <2>2 DEF SendPiece
<1>3. CASE ~(to <= fileSize)
  BY <1>1, <1>3 DEF SendPiece
<1>4. QED
  BY <1>2, <1>3

(* The handler of fw-start: its block is a whole one.                      *)
LEMMA FwStartTyped ==
  ASSUME TypeOK, OnFwStart, UNCHANGED fileSize
  PROVE  /\ toDevice' \in Seq(Command)
         /\ fwTotalBlocks' \in {Unset, BlocksOf(fileSize)}
         /\ fwBlocksWritten' \in Nat /\ uploadComplete' \in BOOLEAN
         /\ late' \in BOOLEAN
<1>1. CASE fwBytesLoaded
  <2>1. toDevice' \in Seq(Command)
    BY <1>1, SentPiece DEF OnFwStart
  <2>2. QED
    BY <1>1, <2>1 DEF OnFwStart, TypeOK
<1>2. CASE ~fwBytesLoaded
  BY <1>2 DEF OnFwStart, TypeOK
<1>3. QED
  BY <1>1, <1>2 DEF TypeOK

(* The handler of fw-block: only the last block may be short.              *)
LEMMA FwBlockTyped ==
  ASSUME TypeOK, OnFwBlock, UNCHANGED fileSize
  PROVE  /\ toDevice' \in Seq(Command)
         /\ fwTotalBlocks' \in {Unset, BlocksOf(fileSize)}
         /\ fwBlocksWritten' \in Nat /\ uploadComplete' \in BOOLEAN
         /\ late' \in BOOLEAN
<1> DEFINE n == fwBlocksWritten + 1
<1>0. n \in Nat /\ fileSize \in Nat
  BY DEF TypeOK
<1>1. /\ fwBlocksWritten' = n /\ UNCHANGED << fwTotalBlocks, late >>
      /\ \/ UNCHANGED << toDevice, uploadComplete >>
         \/ SendPiece(BlockSize * n, BlockSize * (n + 1)) /\ UNCHANGED uploadComplete
         \/ /\ n = fwTotalBlocks - 1
            /\ SendPiece(BlockSize * n, fileSize) /\ UNCHANGED uploadComplete
         \/ uploadComplete' = TRUE /\ UNCHANGED toDevice
  BY <1>0 DEF OnFwBlock
<1>2. ASSUME SendPiece(BlockSize * n, BlockSize * (n + 1))
      PROVE  toDevice' \in Seq(Command)
  <2>1. /\ BlockSize * n \in Nat /\ BlockSize * (n + 1) \in Nat
        /\ BlockSize * n < BlockSize * (n + 1)
    BY <1>0
  <2>2. QED
    BY <1>2, <2>1, SentPiece
<1>3. ASSUME n = fwTotalBlocks - 1, SendPiece(BlockSize * n, fileSize)
      PROVE  toDevice' \in Seq(Command)
  <2>1. fwTotalBlocks = BlocksOf(fileSize)
    BY <1>0, <1>3 DEF TypeOK, Unset
  <2>2. BlockSize * n \in Nat /\ BlockSize * n < fileSize
    BY <1>0, <1>3, <2>1, Blocks
  <2>3. QED
    BY <1>0, <1>3, <2>2, SentPiece
<1>4. QED
  BY <1>0, <1>1, <1>2, <1>3 DEF TypeOK

(* The step of every action, one by one.                                   *)
LEMMA StepTyped == TypeOK /\ [Next]_vars => TypeOK'
<1> SUFFICES ASSUME TypeOK, [Next]_vars PROVE TypeOK'
  OBVIOUS
<1>0. ASSUME UNCHANGED fileSize
      PROVE  Piece' = Piece /\ Command' = Command
             /\ BlocksOf(fileSize)' = BlocksOf(fileSize)
  BY <1>0 DEF Piece, Command, Block, Start, Schedule, BlocksOf
<1>1. CASE Answer
  <2>1. UNCHANGED fileSize /\ toDevice # << >>
    BY <1>1 DEF Answer
  <2>2. toDevice' \in Seq(Command)
    BY <1>1, <2>1, FirstCommand DEF Answer
  <2>3. image' \in Seq(Piece)
    <3>1. image \in Seq(Piece)
      BY DEF TypeOK
    <3>2. CASE image' = << >> \/ image' = image
      <4>1. << >> \in Seq(Piece)
        OBVIOUS
      <4>2. QED
        BY <3>1, <3>2, <4>1
    <3>3. CASE Head(toDevice).type = "block"
               /\ image' = Append(image, Head(toDevice).piece)
      BY <2>1, <3>1, <3>3, FirstCommand
    <3>4. QED
      BY <1>1, <3>2, <3>3 DEF Answer
  <2>4. toApp' \in Seq(Response)
    <3>1. PICK r \in Response : toApp' = Append(toApp, r)
      BY <1>1 DEF Answer, Response
    <3>2. toApp \in Seq(Response)
      BY DEF TypeOK
    <3>3. QED
      BY <3>1, <3>2
  <2>5. QED
    BY <1>0, <1>1, <2>1, <2>2, <2>3, <2>4 DEF Answer, TypeOK, dialogVars
<1>2. CASE Lose
  <2>1. UNCHANGED fileSize
    BY <1>2 DEF Lose, deviceVars
  <2>2. toApp' \in Seq(Response) /\ toDevice' \in Seq(Command)
    <3>1. toApp \in Seq(Response) /\ toDevice \in Seq(Command)
      BY DEF TypeOK
    <3>2. CASE toDevice # << >> /\ toDevice' = Tail(toDevice) /\ UNCHANGED toApp
      BY <3>1, <3>2
    <3>3. CASE toApp # << >> /\ toApp' = Tail(toApp) /\ UNCHANGED toDevice
      BY <3>1, <3>3
    <3>4. QED
      BY <1>2, <3>2, <3>3 DEF Lose
  <2>3. QED
    BY <1>0, <1>2, <2>1, <2>2 DEF Lose, TypeOK, dialogVars, deviceVars
<1>3. CASE OpenDialog
  <2>1. opened' \in 0 .. MaxDialogs /\ quiet' \in BOOLEAN
    BY <1>3 DEF OpenDialog, TypeOK
  <2>2. UNCHANGED fileSize
    BY <1>3 DEF OpenDialog, deviceVars
  <2>3. QED
    BY <1>0, <1>3, <2>1, <2>2 DEF OpenDialog, TypeOK, deviceVars
<1>4. CASE TapFile
  <2>1. UNCHANGED fileSize /\ Start \in Command
    BY <1>4 DEF TapFile, deviceVars, Command
  <2>2. toDevice' \in Seq(Command) /\ dialog' \in {"chosen", "uploading"}
    <3>1. toDevice \in Seq(Command)
      BY DEF TypeOK
    <3>2. CASE dialog' = "uploading" /\ toDevice' = Append(toDevice, Start)
      BY <2>1, <3>1, <3>2
    <3>3. CASE dialog' = "chosen" /\ toDevice' = toDevice
      BY <3>1, <3>3
    <3>4. QED
      BY <1>4, <3>2, <3>3 DEF TapFile
  <2>3. QED
    BY <1>0, <1>4, <2>1, <2>2 DEF TapFile, TypeOK, deviceVars
<1>5. CASE FileLoaded
  BY <1>0, <1>5 DEF FileLoaded, TypeOK, deviceVars
<1>6. CASE CloseDialog
  BY <1>0, <1>6 DEF CloseDialog, TypeOK, deviceVars
<1>7. CASE ScheduleUpdate
  <2>1. UNCHANGED fileSize /\ Schedule \in Command
    BY <1>7 DEF ScheduleUpdate, deviceVars, Command
  <2>2. toDevice' \in Seq(Command)
    BY <1>7, <2>1 DEF ScheduleUpdate, TypeOK
  <2>3. QED
    BY <1>0, <1>7, <2>1, <2>2 DEF ScheduleUpdate, TypeOK, deviceVars
<1>8. CASE Deliver
  <2>1. /\ UNCHANGED << deviceVars, characteristic, dialog, fwBytesLoaded, quiet,
                         opened, losses >>
        /\ toApp' \in Seq(Response)
    BY <1>8 DEF Deliver, TypeOK
  <2>2. UNCHANGED fileSize
    BY <2>1 DEF deviceVars
  <2>3. \/ OnFwStart \/ OnFwBlock
        \/ UNCHANGED << toDevice, fwTotalBlocks, fwBlocksWritten, uploadComplete,
                        late >>
    BY <1>8 DEF Deliver
  <2>4. /\ toDevice' \in Seq(Command)
        /\ fwTotalBlocks' \in {Unset, BlocksOf(fileSize)}
        /\ fwBlocksWritten' \in Nat /\ uploadComplete' \in BOOLEAN
        /\ late' \in BOOLEAN
    BY <2>2, <2>3, FwStartTyped, FwBlockTyped DEF TypeOK
  <2>5. QED
    BY <1>0, <2>1, <2>2, <2>4 DEF TypeOK, deviceVars
<1>9. CASE UNCHANGED vars
  BY <1>0, <1>9 DEF TypeOK, vars, deviceVars, dialogVars
<1>10. CASE EnableNotification
  BY <1>0, <1>10 DEF EnableNotification, TypeOK, deviceVars, dialogVars
<1>11. CASE DisableNotification
  <2>1. << >> \in Seq(Command) /\ << >> \in Seq(Response)
    OBVIOUS
  <2>2. losses' \in 0 .. MaxLosses
    BY <1>11 DEF DisableNotification, TypeOK
  <2>3. QED
    BY <1>0, <1>11, <2>1, <2>2
       DEF DisableNotification, TypeOK, deviceVars, dialogVars
<1>12. QED
  BY <1>1, <1>2, <1>3, <1>4, <1>5, <1>6, <1>7, <1>8, <1>9, <1>10, <1>11 DEF Next

(* Whatever the file, the block size and the faults, every command carries *)
(* a non-empty piece of the file and every variable keeps its type.        *)
THEOREM TypeCorrect == Spec => []TypeOK
<1>1. ASSUME Init PROVE TypeOK
  <2>1. image \in Seq(Piece) /\ toDevice \in Seq(Command) /\ toApp \in Seq(Response)
    BY <1>1 DEF Init
  <2>2. opened \in 0 .. MaxDialogs /\ losses \in 0 .. MaxLosses
        /\ fwBlocksWritten \in Nat
    BY <1>1 DEF Init
  <2>3. QED
    BY <1>1, <2>1, <2>2 DEF Init, TypeOK
<1>2. QED
  BY <1>1, StepTyped, PTL DEF Spec

-----------------------------------------------------------------------------
(* A queue of one message is empty after it.                               *)
LEMMA TailOfOne == ASSUME NEW x PROVE Tail(<< x >>) = << >>
  OBVIOUS

(* Nothing is under way at first, and no dialog is open.                   *)
LEMMA InitQuiet == Init => QuietUpload
  BY DEF Init, QuietUpload

(* The device's answer, for each thing that can be under way.              *)
LEMMA AnswerQuiet ==
  ASSUME TypeOK, QuietUpload, Answer
  PROVE  QuietUpload'
<1> USE DEF NothingUnderWay
<1>1. /\ toDevice # << >> /\ toDevice' = Tail(toDevice)
      /\ UNCHANGED << fileSize, dialog, quiet, fwTotalBlocks, fwBlocksWritten,
                      uploadComplete >>
  BY DEF Answer, dialogVars
<1>2. CASE dialog = "uploading" /\ quiet
  <2>1. CASE BeforeStart
    <3>1. toDevice = << Start >> /\ toApp = << >>
      BY <1>1, <2>1 DEF BeforeStart
    <3>2. Head(toDevice).type = "start" /\ toDevice' = << >>
      BY <1>1, <3>1 DEF Start
    <3>3. image' = << >> /\ toApp' = << "start" >>
      BY <3>1, <3>2 DEF Answer
    <3>4. BeforeStart'
      BY <1>1, <2>1, <3>2, <3>3 DEF BeforeStart
    <3>5. QED
      BY <1>1, <1>2, <3>4 DEF QuietUpload
  <2>2. CASE Writing
    <3> DEFINE n == fwBlocksWritten
    <3>1. /\ toDevice = << Block(PieceOf(n + 1)) >> /\ toApp = << >>
          /\ Len(image) = n /\ ~uploadComplete /\ InOrder
      BY <1>1, <2>2 DEF Writing, BlockSent, BlockAnswered, Stalled
    <3>2. /\ Head(toDevice).type = "block" /\ toDevice' = << >>
          /\ Head(toDevice).piece = PieceOf(n + 1)
      BY <1>1, <3>1 DEF Block
    <3>3. image' = Append(image, PieceOf(n + 1)) /\ toApp' = << "block" >>
      BY <3>1, <3>2 DEF Answer
    <3>4. /\ Len(image') = n + 1
          /\ \A i \in 1 .. n : image'[i] = image[i]
          /\ image'[n + 1] = PieceOf(n + 1)
      BY <3>1, <3>3 DEF TypeOK
    <3>5. \A i \in 1 .. (n + 1) : image'[i] = PieceOf(i)
      BY <3>1, <3>4 DEF InOrder, TypeOK
    <3>6. InOrder'
      BY <1>1, <3>4, <3>5 DEF InOrder, PieceOf, BlocksOf
    <3>7. BlockAnswered'
      BY <1>1, <3>1, <3>2, <3>3, <3>4 DEF BlockAnswered
    <3>8. Writing'
      BY <1>1, <2>2, <3>6, <3>7 DEF Writing, BlocksOf
    <3>9. QED
      BY <1>1, <1>2, <3>8 DEF QuietUpload
  <2>3. QED
    BY <1>2, <2>1, <2>2 DEF QuietUpload
<1>3. CASE ~(dialog = "uploading" /\ quiet)
  BY <1>1, <1>3 DEF QuietUpload
<1>4. QED
  BY <1>2, <1>3

(* What is lost is the one thing under way: the upload stalls.             *)
LEMMA LoseQuiet ==
  ASSUME TypeOK, QuietUpload, Lose
  PROVE  QuietUpload'
<1> USE DEF NothingUnderWay
<1>1. UNCHANGED << fileSize, image, dialog, quiet, fwTotalBlocks,
                   fwBlocksWritten, uploadComplete >>
  BY DEF Lose, dialogVars, deviceVars
<1>2. \/ toDevice # << >> /\ toDevice' = Tail(toDevice) /\ toApp' = toApp
      \/ toApp # << >> /\ toApp' = Tail(toApp) /\ toDevice' = toDevice
  BY DEF Lose
<1>3. CASE dialog = "uploading" /\ quiet
  <2>1. CASE BeforeStart
    <3>1. toDevice' = << >> /\ toApp' = << >>
      BY <1>2, <2>1, TailOfOne DEF BeforeStart
    <3>2. QED
      BY <1>1, <1>3, <2>1, <3>1 DEF BeforeStart, QuietUpload
  <2>2. CASE Writing
    <3>1. BlockSent \/ BlockAnswered
      BY <1>2, <2>2 DEF Writing, Stalled
    <3>2. toDevice' = << >> /\ toApp' = << >>
      BY <1>2, <3>1, TailOfOne DEF BlockSent, BlockAnswered
    <3>3. Stalled'
      BY <1>1, <3>1, <3>2 DEF BlockSent, BlockAnswered, Stalled
    <3>4. InOrder' /\ BlocksOf(fileSize)' = BlocksOf(fileSize)
      BY <1>1, <2>2 DEF Writing, InOrder, PieceOf, BlocksOf
    <3>5. QED
      BY <1>1, <1>3, <2>2, <3>3, <3>4 DEF Writing, QuietUpload
  <2>3. QED
    BY <1>3, <2>1, <2>2 DEF QuietUpload
<1>4. CASE ~(dialog = "uploading" /\ quiet)
  BY <1>1, <1>2, <1>4 DEF QuietUpload
<1>5. QED
  BY <1>3, <1>4

(* A lost link takes the one thing under way along.                        *)
LEMMA LinkLossQuiet ==
  ASSUME TypeOK, QuietUpload, DisableNotification
  PROVE  QuietUpload'
<1> USE DEF NothingUnderWay
<1>1. /\ UNCHANGED << fileSize, image, dialog, quiet, fwTotalBlocks,
                      fwBlocksWritten, uploadComplete >>
      /\ toDevice' = << >> /\ toApp' = << >>
  BY DEF DisableNotification, dialogVars, deviceVars
<1>2. BeforeStart => BeforeStart'
  BY <1>1 DEF BeforeStart
<1>3. ASSUME Writing PROVE Writing'
  <2>1. Stalled'
    BY <1>1, <1>3 DEF Writing, BlockSent, BlockAnswered, Stalled, BlocksOf
  <2>2. InOrder' /\ BlocksOf(fileSize)' = BlocksOf(fileSize)
    BY <1>1, <1>3 DEF Writing, InOrder, PieceOf, BlocksOf
  <2>3. QED
    BY <1>1, <1>3, <2>1, <2>2 DEF Writing
<1>4. QED
  BY <1>1, <1>2, <1>3 DEF QuietUpload

(* What SendPiece puts on an empty way: the piece, or nothing if the file  *)
(* ends before it.                                                         *)
LEMMA PieceSent ==
  ASSUME NEW from, NEW to, toDevice = << >>, SendPiece(from, to)
  PROVE  toDevice' = << >> \/ toDevice' = << Block(<< from, to >>) >>
  BY DEF SendPiece

(* fw-start begins the writing with block 1, if the file has one block and *)
(* is loaded.                                                              *)
LEMMA FwStartQuiet ==
  ASSUME TypeOK, BeforeStart, toApp = << "start" >>, toApp' = << >>,
         UNCHANGED deviceVars, OnFwStart
  PROVE  BeforeStart' \/ Writing'
<1>1. /\ toDevice = << >> /\ image = << >> /\ fwBlocksWritten = 0
      /\ ~uploadComplete /\ fwTotalBlocks = Unset
  BY DEF BeforeStart, NothingUnderWay
<1>2. UNCHANGED << fileSize, image, fwBlocksWritten, uploadComplete >>
  BY DEF OnFwStart, deviceVars
<1>3. CASE ~fwBytesLoaded
  BY <1>1, <1>2, <1>3 DEF OnFwStart, BeforeStart, NothingUnderWay
<1>4. CASE fwBytesLoaded
  <2>1. fwTotalBlocks' = BlocksOf(fileSize) /\ SendPiece(0, BlockSize)
    BY <1>4 DEF OnFwStart
  <2>2. BlocksOf(fileSize)' = BlocksOf(fileSize) /\ InOrder' /\ Len(image') = 0
    BY <1>1, <1>2 DEF BlocksOf, InOrder
  <2>3. CASE toDevice' = << >>
    <3>1. Stalled'
      BY <1>1, <1>2, <2>2, <2>3 DEF Stalled, NothingUnderWay
    <3>2. QED
      BY <2>1, <2>2, <3>1 DEF Writing
  <2>4. CASE toDevice' = << Block(<< 0, BlockSize >>) >> /\ BlockSize <= fileSize
    <3>1. fileSize \in Nat /\ BlocksOf(fileSize) \in Nat
          /\ fileSize <= BlockSize * BlocksOf(fileSize)
      BY Blocks DEF TypeOK
    <3>2. BlocksOf(fileSize) = 1 => fileSize = BlockSize
      BY <2>4, <3>1
    <3>3. PieceOf(1)' = << 0, BlockSize >>
      BY <1>2, <2>2, <3>1, <3>2 DEF PieceOf
    <3>4. BlockSent'
      BY <1>1, <1>2, <2>2, <2>4, <3>3 DEF BlockSent, PieceOf
    <3>5. QED
      BY <2>1, <2>2, <3>4 DEF Writing
  <2>5. QED
    BY <1>1, <2>1, <2>3, <2>4 DEF SendPiece
<1>5. QED
  BY <1>3, <1>4

(* fw-block sends the next block, or ends the upload when all are written. *)
LEMMA FwBlockQuiet ==
  ASSUME TypeOK, Writing, toApp = << "block" >>, toApp' = << >>,
         UNCHANGED deviceVars, OnFwBlock
  PROVE  Writing'
<1> DEFINE n == fwBlocksWritten + 1
           T == BlocksOf(fileSize)
<1>1. /\ toDevice = << >> /\ Len(image) = n /\ ~uploadComplete /\ InOrder
      /\ fwTotalBlocks = T
  BY DEF Writing, BlockSent, BlockAnswered, Stalled, NothingUnderWay
<1>2. n \in Nat /\ n > 0 /\ T \in Nat /\ T # Unset /\ fileSize \in Nat
  BY Blocks DEF TypeOK, Unset
<1>3. UNCHANGED << fileSize, image, fwTotalBlocks >> /\ fwBlocksWritten' = n
  BY DEF OnFwBlock, deviceVars
<1>4. T' = T /\ InOrder' /\ Len(image') = n /\ (\A i : PieceOf(i)' = PieceOf(i))
  BY <1>1, <1>3 DEF BlocksOf, InOrder, PieceOf
<1>5. CASE toDevice' = << >> /\ UNCHANGED uploadComplete
  <2>1. Stalled'
    BY <1>1, <1>3, <1>4, <1>5 DEF Stalled, NothingUnderWay
  <2>2. QED
    BY <1>1, <1>3, <1>4, <2>1 DEF Writing
<1>6. CASE toDevice' = << Block(PieceOf(n + 1)) >> /\ UNCHANGED uploadComplete
  <2>1. PieceOf(fwBlocksWritten + 1)' = PieceOf(n + 1)
    BY <1>3, <1>4 DEF PieceOf
  <2>2. BlockSent'
    BY <1>1, <1>3, <1>4, <1>6, <2>1 DEF BlockSent
  <2>3. QED
    BY <1>1, <1>3, <1>4, <2>2 DEF Writing
<1>7. CASE n = T /\ uploadComplete' = TRUE /\ UNCHANGED toDevice
  <2>1. Stalled'
    BY <1>1, <1>2, <1>3, <1>4, <1>7 DEF Stalled, NothingUnderWay
  <2>2. QED
    BY <1>1, <1>3, <1>4, <2>1 DEF Writing
<1>8. CASE n < T - 1 /\ SendPiece(BlockSize * n, BlockSize * (n + 1))
           /\ UNCHANGED uploadComplete
  <2>1. PieceOf(n + 1) = << BlockSize * n, BlockSize * (n + 1) >>
    BY <1>2, <1>8 DEF PieceOf
  <2>2. QED
    BY <1>1, <1>5, <1>6, <1>8, <2>1, PieceSent
<1>9. CASE n = T - 1 /\ SendPiece(BlockSize * n, fileSize)
           /\ UNCHANGED uploadComplete
  <2>1. PieceOf(n + 1) = << BlockSize * n, fileSize >>
    BY <1>2, <1>9 DEF PieceOf
  <2>2. QED
    BY <1>1, <1>5, <1>6, <1>9, <2>1, PieceSent
<1>10. QED
  BY <1>1, <1>2, <1>5, <1>7, <1>8, <1>9 DEF OnFwBlock

(* A response is under way in a quiet upload only in these two cases.      *)
LEMMA DeliverQuiet ==
  ASSUME TypeOK, QuietUpload, Deliver
  PROVE  QuietUpload'
<1>1. /\ toApp # << >> /\ toApp' = Tail(toApp)
      /\ UNCHANGED << fileSize, image, dialog, quiet >> /\ UNCHANGED deviceVars
  BY DEF Deliver, deviceVars
<1>2. CASE dialog = "uploading" /\ quiet
  <2>1. CASE BeforeStart
    <3>1. toApp = << "start" >>
      BY <1>1, <2>1 DEF BeforeStart, NothingUnderWay
    <3>2. toApp' = << >> /\ Head(toApp) = "start"
      BY <1>1, <3>1, TailOfOne
    <3>3. OnFwStart
      BY <1>2, <3>2 DEF Deliver
    <3>4. QED
      BY <1>1, <1>2, <2>1, <3>1, <3>2, <3>3, FwStartQuiet DEF QuietUpload
  <2>2. CASE Writing
    <3>1. toApp = << "block" >>
      BY <1>1, <2>2 DEF Writing, BlockSent, BlockAnswered, Stalled, NothingUnderWay
    <3>2. toApp' = << >> /\ Head(toApp) = "block"
      BY <1>1, <3>1, TailOfOne
    <3>3. OnFwBlock
      BY <1>2, <3>2 DEF Deliver
    <3>4. QED
      BY <1>1, <1>2, <2>2, <3>1, <3>2, <3>3, FwBlockQuiet DEF QuietUpload
  <2>3. QED
    BY <1>2, <2>1, <2>2 DEF QuietUpload
<1>3. CASE ~(dialog = "uploading" /\ quiet)
  BY <1>1, <1>3 DEF QuietUpload, NothingUnderWay
<1>4. QED
  BY <1>2, <1>3

(* The user's actions only open, start and close.                          *)
LEMMA StepQuiet == TypeOK /\ QuietUpload /\ [Next]_vars => QuietUpload'
<1> SUFFICES ASSUME TypeOK, QuietUpload, [Next]_vars PROVE QuietUpload'
  OBVIOUS
<1> USE DEF NothingUnderWay
<1>1. CASE OpenDialog
  BY <1>1 DEF OpenDialog, QuietUpload
<1>2. CASE TapFile
  <2>0. dialog \in {"files", "chosen"}
        /\ UNCHANGED << toApp, quiet, fwTotalBlocks, fwBlocksWritten,
                        uploadComplete >>
    BY <1>2 DEF TapFile
  <2>1. CASE quiet /\ dialog' = "uploading" /\ toDevice' = Append(toDevice, Start)
    <3>1. toDevice' = << Start >> /\ toApp' = << >>
      <4>1. toDevice = << >> /\ toApp = << >>
        BY <2>0, <2>1 DEF QuietUpload
      <4>2. QED
        BY <2>0, <2>1, <4>1
    <3>2. BeforeStart'
      BY <2>0, <2>1, <3>1 DEF QuietUpload, BeforeStart
    <3>3. QED
      BY <2>1, <3>2 DEF QuietUpload
  <2>2. CASE ~quiet
    BY <2>0, <2>2 DEF QuietUpload
  <2>3. CASE dialog' = "chosen" /\ UNCHANGED toDevice
    BY <2>0, <2>3 DEF QuietUpload
  <2>4. QED
    BY <1>2, <2>1, <2>2, <2>3 DEF TapFile
<1>3. ASSUME UNCHANGED << fileSize, image, toDevice, toApp, dialog, quiet,
                          fwTotalBlocks, fwBlocksWritten, uploadComplete >>
      PROVE  QuietUpload'
  <2>1. BeforeStart' = BeforeStart /\ Writing' = Writing
    BY <1>3 DEF BeforeStart, Writing, InOrder, PieceOf, BlocksOf, BlockSent,
                BlockAnswered, Stalled
  <2>2. QED
    BY <1>3, <2>1 DEF QuietUpload
<1>4. CASE FileLoaded
  BY <1>3, <1>4 DEF FileLoaded, deviceVars
<1>5. CASE CloseDialog \/ ScheduleUpdate
  BY <1>5 DEF CloseDialog, ScheduleUpdate, QuietUpload
<1>6. CASE UNCHANGED vars
  BY <1>3, <1>6 DEF vars, deviceVars, dialogVars
<1>7. CASE EnableNotification
  BY <1>3, <1>7 DEF EnableNotification, deviceVars, dialogVars
<1>8. QED
  BY <1>1, <1>2, <1>4, <1>5, <1>6, <1>7, AnswerQuiet, LoseQuiet, LinkLossQuiet,
     DeliverQuiet DEF Next

(* The inductive invariant of the module.                                  *)
LEMMA UploadInductive == Spec => []UploadInv
<1>1. Init => QuietUpload
  BY InitQuiet
<1>2. QED
  BY <1>1, TypeCorrect, StepQuiet, PTL DEF Spec, UploadInv

-----------------------------------------------------------------------------
(* The device always holds the blocks the dialog counts, in order.         *)
THEOREM BlocksInOrder == Spec => []BlocksWrittenInOrder
<1>1. ASSUME UploadInv PROVE BlocksWrittenInOrder
  <2>1. SUFFICES ASSUME dialog = "uploading", quiet, fwTotalBlocks # Unset
                 PROVE  /\ Len(image) \in {fwBlocksWritten, fwBlocksWritten + 1}
                        /\ \A i \in DOMAIN image :
                             /\ image[i][1] = BlockSize * (i - 1)
                             /\ image[i][2] \in {BlockSize * i, fileSize}
    BY DEF BlocksWrittenInOrder
  <2>2. Writing
    BY <1>1, <2>1 DEF UploadInv, QuietUpload, BeforeStart
  <2>3. Len(image) \in {fwBlocksWritten, fwBlocksWritten + 1}
    BY <2>2 DEF Writing, BlockSent, BlockAnswered, Stalled
  <2>4. DOMAIN image = 1 .. Len(image)
    BY <1>1 DEF UploadInv, TypeOK
  <2>5. QED
    BY <2>2, <2>3, <2>4 DEF Writing, InOrder, PieceOf
<1>2. QED
  BY <1>1, UploadInductive, PTL

(* "Update Ready" is shown only for the whole image: the blocks follow one *)
(* another, and the last one ends with the file.                           *)
THEOREM ReadyIsWhole == Spec => []UpdateReadyIsWholeImage
<1>1. ASSUME UploadInv PROVE UpdateReadyIsWholeImage
  <2>1. SUFFICES ASSUME dialog = "uploading", quiet, uploadComplete
                 PROVE  WholeImage(image)
    BY DEF UpdateReadyIsWholeImage
  <2>2. Writing /\ Stalled
    BY <1>1, <2>1 DEF UploadInv, QuietUpload, BeforeStart, Writing, BlockSent,
                      BlockAnswered
  <2> DEFINE T == BlocksOf(fileSize)
  <2>3. /\ Len(image) = T /\ T \in Nat /\ T > 0
        /\ DOMAIN image = 1 .. T
        /\ \A i \in 1 .. T : image[i] = PieceOf(i)
    BY <1>1, <2>1, <2>2 DEF UploadInv, TypeOK, Writing, InOrder, Stalled
  <2>4. image[T][2] = fileSize /\ image # << >>
    BY <2>3 DEF PieceOf
  <2>5. ASSUME NEW i \in 1 .. T
        PROVE  image[i][1] = (IF i = 1 THEN 0 ELSE image[i - 1][2])
    <3>1. CASE i = 1
      BY <2>3, <3>1 DEF PieceOf
    <3>2. CASE i # 1
      <4>1. i - 1 \in 1 .. T /\ i - 1 # T
        BY <2>3, <3>2
      <4>2. QED
        BY <2>3, <3>2, <4>1 DEF PieceOf
    <3>3. QED
      BY <3>1, <3>2
  <2>6. QED
    BY <2>3, <2>4, <2>5 DEF WholeImage, Contiguous
<1>2. QED
  BY <1>1, UploadInductive, PTL

(* At most one command of a quiet upload is unanswered.                    *)
THEOREM OneUnanswered == Spec => []OneCommandUnanswered
<1>1. ASSUME UploadInv PROVE OneCommandUnanswered
  <2>1. SUFFICES ASSUME dialog = "uploading", quiet
                 PROVE  Len(toDevice) + Len(toApp) <= 1
    BY DEF OneCommandUnanswered
  <2>2. BeforeStart \/ Writing
    BY <1>1, <2>1 DEF UploadInv, QuietUpload
  <2>3. \/ toDevice = << >> /\ toApp = << >>
        \/ (\E c : toDevice = << c >>) /\ toApp = << >>
        \/ toDevice = << >> /\ \E r : toApp = << r >>
    BY <2>2 DEF BeforeStart, Writing, BlockSent, BlockAnswered, Stalled,
                NothingUnderWay
  <2>4. Len(<< >>) = 0 /\ \A c : Len(<< c >>) = 1
    OBVIOUS
  <2>5. \/ Len(toDevice) = 0 /\ Len(toApp) = 0
        \/ Len(toDevice) = 1 /\ Len(toApp) = 0
        \/ Len(toDevice) = 0 /\ Len(toApp) = 1
    BY <2>3, <2>4, Zenon
  <2>6. 0 + 0 <= 1 /\ 1 + 0 <= 1 /\ 0 + 1 <= 1
    OBVIOUS
  <2>7. QED
    BY <2>5, <2>6, Zenon
<1>2. QED
  BY <1>1, UploadInductive, PTL

-----------------------------------------------------------------------------
(* The first k blocks of a file of which k - 1 do not reach the end.       *)
LEMMA BytesOfBlocks ==
  ASSUME fileSize \in Nat, NEW k \in Nat, k > 0, BlockSize * (k - 1) < fileSize
  PROVE  /\ BytesOf(k - 1) = BlockSize * (k - 1)
         /\ BytesOf(k) = IF BytesOf(k - 1) + BlockSize < fileSize
                         THEN BytesOf(k - 1) + BlockSize ELSE fileSize
         /\ BytesOf(k) = fileSize <=> k = BlocksOf(fileSize)
         /\ PieceOf(k)[2] = BytesOf(k)
<1> DEFINE T == BlocksOf(fileSize)
<1>1. fileSize \in Nat
  OBVIOUS
<1>2. T \in Nat /\ BlockSize * (T - 1) < fileSize /\ fileSize <= BlockSize * T
  BY <1>1, Blocks
<1>3. BlockSize * k = BlockSize * (k - 1) + BlockSize
  OBVIOUS
<1>4. CASE k = T
  BY <1>1, <1>2, <1>3, <1>4 DEF BytesOf, PieceOf
<1>5. CASE k < T
  <2>1. BlockSize * k <= BlockSize * (T - 1)
    BY <1>2, <1>5
  <2>2. BlockSize * k < fileSize
    BY <1>1, <1>2, <2>1
  <2>3. QED
    BY <1>1, <1>2, <1>3, <1>5, <2>2 DEF BytesOf, PieceOf
<1>6. CASE k > T
  <2>1. BlockSize * T <= BlockSize * (k - 1)
    BY <1>2, <1>6
  <2>2. QED
    BY <1>1, <1>2, <2>1
<1>7. QED
  BY <1>2, <1>4, <1>5, <1>6

(* Pieces in order follow one another, so that they are a copy of the      *)
(* file's start; it ends where the last of them does.                      *)
LEMMA ImageIsCopy ==
  ASSUME fileSize \in Nat, NEW s \in Seq(Piece),
         \A i \in DOMAIN s : s[i] = PieceOf(i)
  PROVE  /\ CopyOf(s) = BytesOf(Len(s))
         /\ Len(s) > 0 => BlockSize * (Len(s) - 1) < fileSize
<1> DEFINE k == Len(s)
<1>1. /\ k \in Nat /\ DOMAIN s = 1 .. k /\ fileSize \in Nat
      /\ \A i \in 1 .. k : s[i] = PieceOf(i) /\ s[i] \in Piece
  OBVIOUS
<1>2. CASE k = 0
  <2>1. s = << >> /\ BytesOf(0) = 0
    BY <1>1, <1>2 DEF BytesOf
  <2>2. QED
    BY <1>2, <2>1 DEF CopyOf
<1>3. CASE k > 0
  <2>1. \A i \in 1 .. k : BlockSize * (i - 1) < fileSize
    BY <1>1 DEF PieceOf, Piece
  <2>2. \A i \in 1 .. k : s[i][1] = BlockSize * (i - 1)
                        /\ s[i][2] = BytesOf(i)
    <3>1. TAKE i \in 1 .. k
    <3>2. i \in Nat /\ i > 0
      BY <1>1
    <3>3. QED
      BY <1>1, <2>1, <3>2, BytesOfBlocks DEF PieceOf
  <2>3. \A i \in 1 .. k : s[i][1] = (IF i = 1 THEN 0 ELSE s[i - 1][2])
    <3>1. TAKE i \in 1 .. k
    <3>2. CASE i = 1
      BY <1>1, <2>2, <3>2
    <3>3. CASE i # 1
      <4>1. i - 1 \in 1 .. k /\ i \in Nat /\ i > 0
        BY <1>1, <3>3
      <4>2. BytesOf(i - 1) = BlockSize * (i - 1)
        BY <2>1, <4>1, BytesOfBlocks
      <4>3. QED
        BY <2>2, <3>3, <4>1, <4>2
    <3>4. QED
      BY <3>2, <3>3
  <2>4. Contiguous(s)
    BY <1>1, <2>3 DEF Contiguous
  <2>5. s # << >> /\ k \in 1 .. k
    BY <1>1, <1>3
  <2>6. QED
    BY <2>1, <2>2, <2>4, <2>5 DEF CopyOf
<1>4. QED
  BY <1>1, <1>2, <1>3

(* A step that leaves alone what the mapping reads is a stutter.           *)
LEMMA SameTransfer ==
  ASSUME UNCHANGED << fileSize, Uploading, Writes, uploadComplete, image,
                      fwBlocksWritten >>
  PROVE  UNCHANGED Transfer!transferVars
<1>1. CopyOf(image)' = CopyOf(image) /\ BytesOf(fwBlocksWritten)' = BytesOf(fwBlocksWritten)
  BY DEF CopyOf, BytesOf, Contiguous
<1>2. QED
  BY <1>1 DEF Transfer!transferVars, UploadPhase, Copied, Confirmed

(* Outside a quiet upload there is no transfer.                            *)
LEMMA NoTransfer ==
  ASSUME UNCHANGED fileSize, ~Uploading, ~Uploading'
  PROVE  UNCHANGED Transfer!transferVars
  BY DEF Transfer!transferVars, UploadPhase, Copied, Confirmed, Writes

(* The device takes the block that was sent: a Copy.                       *)
LEMMA AnswerTransfers ==
  ASSUME UploadInv, UploadInv', Answer
  PROVE  [Transfer!TransferNext]_(Transfer!transferVars)
<1>1. /\ toDevice # << >>
      /\ UNCHANGED << fileSize, dialog, quiet, fwTotalBlocks, fwBlocksWritten,
                      uploadComplete >>
  BY DEF Answer, dialogVars
<1>2. Uploading' = Uploading /\ Writes' = Writes
  BY <1>1 DEF Uploading, Writes
<1>3. CASE Uploading /\ Writing
  <2> DEFINE n == fwBlocksWritten
  <2>1. /\ toDevice = << Block(PieceOf(n + 1)) >> /\ Len(image) = n
        /\ ~uploadComplete /\ InOrder /\ fwTotalBlocks = BlocksOf(fileSize)
    BY <1>1, <1>3 DEF Writing, BlockSent, BlockAnswered, Stalled, NothingUnderWay
  <2>2. n \in Nat /\ fileSize \in Nat /\ BlocksOf(fileSize) # Unset
    BY Blocks DEF UploadInv, TypeOK, Unset
  <2>3. Head(toDevice).type = "block" /\ Head(toDevice).piece = PieceOf(n + 1)
    BY <2>1 DEF Block
  <2>4. image' = Append(image, PieceOf(n + 1))
    BY <2>3 DEF Answer
  <2>5. Len(image') = n + 1
    BY <2>1, <2>4 DEF UploadInv, TypeOK
  <2>6. /\ image \in Seq(Piece) /\ \A i \in DOMAIN image : image[i] = PieceOf(i)
        /\ image' \in Seq(Piece) /\ \A i \in DOMAIN image' : image'[i] = PieceOf(i)
    <3>1. Writing'
      BY <1>1, <1>2, <1>3, <2>1, <2>2 DEF UploadInv, QuietUpload, Uploading,
                                          BeforeStart
    <3>2. InOrder /\ InOrder'
      BY <2>1, <3>1 DEF Writing
    <3>3. /\ image \in Seq(Piece) /\ image' \in Seq(Piece)
          /\ \A i : PieceOf(i)' = PieceOf(i)
      BY <1>1 DEF UploadInv, TypeOK, PieceOf, Piece, BlocksOf
    <3>4. DOMAIN image = 1 .. Len(image) /\ DOMAIN image' = 1 .. Len(image')
      BY <3>3
    <3>5. \A i \in 1 .. Len(image) : image[i] = PieceOf(i)
      BY <3>2 DEF InOrder
    <3>6. \A i \in 1 .. Len(image') : image'[i] = PieceOf(i)
      BY <3>2, <3>3 DEF InOrder
    <3>7. QED
      BY <3>3, <3>4, <3>5, <3>6
  <2>7. CopyOf(image) = BytesOf(n)
    BY <2>1, <2>2, <2>6, ImageIsCopy
  <2>9. CopyOf(image)' = BytesOf(n + 1) /\ BlockSize * n < fileSize
    <3>1. /\ CopyOf(image') = BytesOf(Len(image'))
          /\ Len(image') > 0 => BlockSize * (Len(image') - 1) < fileSize
      BY <2>2, <2>6, ImageIsCopy
    <3>2. CopyOf(image)' = CopyOf(image')
      BY <1>1 DEF CopyOf, Contiguous
    <3>3. QED
      BY <2>2, <2>5, <3>1, <3>2
  <2>10. /\ BytesOf(n) = BlockSize * n
         /\ BytesOf(n + 1) = IF BytesOf(n) + BlockSize < fileSize
                             THEN BytesOf(n) + BlockSize ELSE fileSize
    BY <2>2, <2>9, BytesOfBlocks
  <2>11. Writes /\ BytesOf(fwBlocksWritten)' = BytesOf(n)
    BY <1>1, <1>3, <2>1, <2>2 DEF Writes, BytesOf
  <2>12. /\ UploadPhase = "copying" /\ UploadPhase' = "copying"
         /\ Copied = BytesOf(n) /\ Copied' = BytesOf(n + 1)
         /\ Confirmed = BytesOf(n) /\ Confirmed' = BytesOf(n)
    BY <1>1, <1>2, <1>3, <2>1, <2>7, <2>9, <2>11 DEF UploadPhase, Copied, Confirmed
  <2>13. Transfer!Copy
    BY <1>1, <2>9, <2>10, <2>12 DEF Transfer!Copy
  <2>14. QED
    BY <2>13 DEF Transfer!TransferNext
<1>4. CASE Uploading /\ BeforeStart
  <2>1. ~Writes /\ ~Writes'
    BY <1>2, <1>4 DEF BeforeStart, Writes
  <2>2. QED
    BY <1>1, <1>2, <2>1 DEF Transfer!transferVars, UploadPhase, Copied, Confirmed
<1>5. CASE ~Uploading
  BY <1>1, <1>2, <1>5, NoTransfer
<1>6. QED
  BY <1>3, <1>4, <1>5 DEF UploadInv, QuietUpload, Uploading

(* The dialog counts the response: a Confirm, the last of which is         *)
(* "Update Ready".                                                         *)
LEMMA DeliverTransfers ==
  ASSUME UploadInv, UploadInv', Deliver
  PROVE  [Transfer!TransferNext]_(Transfer!transferVars)
<1>1. /\ toApp # << >>
      /\ UNCHANGED << fileSize, image, dialog, quiet >>
  BY DEF Deliver, deviceVars
<1>2. Uploading' = Uploading
  BY <1>1 DEF Uploading
<1>3. CASE Uploading /\ Writing
  <2> DEFINE n == fwBlocksWritten
             T == BlocksOf(fileSize)
  <2>1. /\ toApp = << "block" >> /\ Len(image) = n + 1
        /\ ~uploadComplete /\ InOrder /\ fwTotalBlocks = T
    BY <1>1, <1>3 DEF Writing, BlockSent, BlockAnswered, Stalled, NothingUnderWay
  <2>2. n \in Nat /\ fileSize \in Nat /\ T \in Nat /\ T # Unset
    BY Blocks DEF UploadInv, TypeOK, Unset
  <2>3. OnFwBlock
    BY <1>3, <2>1 DEF Deliver, Uploading
  <2>4. fwBlocksWritten' = n + 1 /\ fwTotalBlocks' = T
    BY <2>1, <2>3 DEF OnFwBlock
  <2>5. /\ n + 1 = T => uploadComplete'
        /\ n + 1 # T => uploadComplete' = uploadComplete
    <3>1. CASE n + 1 = T
      <4>1. n + 1 # Unset /\ ~(n + 1 > T) /\ ~(n + 1 < T - 1) /\ n + 1 # T - 1
        BY <2>2, <3>1
      <4>2. uploadComplete' = TRUE
        BY <2>1, <2>2, <2>3, <3>1, <4>1, Zenon DEF OnFwBlock
      <4>3. QED
        BY <3>1, <4>2
    <3>2. CASE n + 1 # T
      <4>1. uploadComplete' = uploadComplete
        BY <2>1, <3>2, <2>3, Zenon DEF OnFwBlock
      <4>2. QED
        BY <3>2, <4>1, Zenon
    <3>3. QED
      BY <3>1, <3>2
  <2>6. image \in Seq(Piece) /\ \A i \in DOMAIN image : image[i] = PieceOf(i)
    BY <2>1 DEF InOrder, UploadInv, TypeOK
  <2>7. CopyOf(image) = BytesOf(n + 1) /\ BlockSize * n < fileSize
    BY <2>1, <2>2, <2>6, ImageIsCopy
  <2>8. /\ BytesOf(n) = BlockSize * n
        /\ BytesOf(n + 1) = IF BytesOf(n) + BlockSize < fileSize
                            THEN BytesOf(n) + BlockSize ELSE fileSize
        /\ BytesOf(n + 1) = fileSize <=> n + 1 = T
    BY <2>2, <2>7, BytesOfBlocks
  <2>9. BytesOf(n) < BytesOf(n + 1)
    BY <2>2, <2>7, <2>8
  <2>10. /\ Writes /\ Writes'
         /\ CopyOf(image)' = CopyOf(image)
         /\ BytesOf(fwBlocksWritten)' = BytesOf(n + 1)
    BY <1>1, <1>2, <1>3, <2>1, <2>2, <2>4 DEF Writes, CopyOf, Contiguous, BytesOf
  <2>11. /\ Copied = BytesOf(n + 1) /\ Copied' = BytesOf(n + 1)
         /\ Confirmed = BytesOf(n) /\ Confirmed' = BytesOf(n + 1)
    BY <2>7, <2>10 DEF Copied, Confirmed
  <2>12. /\ UploadPhase = "copying"
         /\ UploadPhase' = IF n + 1 = T THEN "ready" ELSE "copying"
    BY <1>2, <1>3, <2>1, <2>5 DEF UploadPhase
  <2>13. Transfer!Confirm
    BY <1>1, <2>8, <2>9, <2>11, <2>12 DEF Transfer!Confirm
  <2>14. QED
    BY <2>13 DEF Transfer!TransferNext
<1>4. CASE Uploading /\ BeforeStart
  <2>1. toApp = << "start" >> /\ image = << >> /\ fwBlocksWritten = 0
    BY <1>1, <1>4 DEF BeforeStart, NothingUnderWay
  <2>2. OnFwStart
    BY <1>4, <2>1 DEF Deliver, Uploading
  <2>3. UNCHANGED << fwBlocksWritten, uploadComplete >>
    BY <2>2 DEF OnFwStart
  <2>4. /\ CopyOf(image) = 0 /\ CopyOf(image)' = 0
        /\ BytesOf(0) = 0 /\ BytesOf(fwBlocksWritten)' = 0
    BY <1>1, <2>1, <2>3 DEF CopyOf, BytesOf, UploadInv, TypeOK
  <2>5. Copied = 0 /\ Copied' = 0 /\ Confirmed = 0 /\ Confirmed' = 0
    BY <2>1, <2>4 DEF Copied, Confirmed
  <2>6. QED
    BY <1>1, <1>2, <2>3, <2>5 DEF Transfer!transferVars, UploadPhase
<1>5. CASE ~Uploading
  BY <1>1, <1>2, <1>5, NoTransfer
<1>6. QED
  BY <1>3, <1>4, <1>5 DEF UploadInv, QuietUpload, Uploading

(* Every step of an upload is a step of a file transfer or a stutter.      *)
LEMMA StepTransfers ==
  ASSUME UploadInv, UploadInv', [Next]_vars
  PROVE  [Transfer!TransferNext]_(Transfer!transferVars)
<1>1. CASE OpenDialog
  <2>1. UNCHANGED fileSize /\ ~Uploading /\ ~Uploading'
    BY <1>1 DEF OpenDialog, deviceVars, Uploading
  <2>2. QED
    BY <2>1, NoTransfer
<1>2. CASE TapFile
  <2>1. /\ UNCHANGED << fileSize, quiet, fwTotalBlocks, uploadComplete >>
        /\ dialog \in {"files", "chosen"} /\ dialog' \in {"chosen", "uploading"}
    BY <1>2 DEF TapFile, deviceVars
  <2>2. CASE quiet /\ dialog' = "uploading"
    <3>1. fwTotalBlocks = Unset /\ ~uploadComplete
      BY <2>1, <2>2 DEF UploadInv, QuietUpload
    <3>2. ~Uploading /\ Uploading' /\ ~Writes /\ ~Writes'
      BY <2>1, <2>2, <3>1 DEF Uploading, Writes
    <3>3. Transfer!Begin
      BY <2>1, <3>1, <3>2 DEF Transfer!Begin, UploadPhase, Copied, Confirmed
    <3>4. QED
      BY <3>3 DEF Transfer!TransferNext
  <2>3. CASE ~quiet \/ dialog' = "chosen"
    <3>1. ~Uploading /\ ~Uploading'
      BY <2>1, <2>3 DEF Uploading
    <3>2. QED
      BY <2>1, <3>1, NoTransfer
  <2>4. QED
    BY <2>1, <2>2, <2>3
<1>3. CASE FileLoaded
  <2>1. UNCHANGED << fileSize, Uploading, Writes, uploadComplete, image,
                     fwBlocksWritten >>
    BY <1>3 DEF FileLoaded, deviceVars, Uploading, Writes
  <2>2. QED
    BY <2>1, SameTransfer
<1>4. CASE CloseDialog \/ ScheduleUpdate
  <2>1. UNCHANGED fileSize /\ ~Uploading'
    BY <1>4 DEF CloseDialog, ScheduleUpdate, deviceVars, Uploading
  <2>2. CASE Uploading
    <3>1. Transfer!GiveUp
      BY <2>1, <2>2 DEF Transfer!GiveUp, UploadPhase, Copied, Confirmed, Writes
    <3>2. QED
      BY <3>1 DEF Transfer!TransferNext
  <2>3. CASE ~Uploading
    BY <2>1, <2>3, NoTransfer
  <2>4. QED
    BY <2>2, <2>3
<1>5. CASE Lose
  <2>1. UNCHANGED << fileSize, Uploading, Writes, uploadComplete, image,
                     fwBlocksWritten >>
    BY <1>5 DEF Lose, dialogVars, deviceVars, Uploading, Writes
  <2>2. QED
    BY <2>1, SameTransfer
<1>6. CASE UNCHANGED vars
  <2>1. UNCHANGED << fileSize, Uploading, Writes, uploadComplete, image,
                     fwBlocksWritten >>
    BY <1>6 DEF vars, dialogVars, deviceVars, Uploading, Writes
  <2>2. QED
    BY <2>1, SameTransfer
<1>7. CASE EnableNotification \/ DisableNotification
  <2>1. UNCHANGED << fileSize, Uploading, Writes, uploadComplete, image,
                     fwBlocksWritten >>
    BY <1>7 DEF EnableNotification, DisableNotification, dialogVars, deviceVars,
                Uploading, Writes
  <2>2. QED
    BY <2>1, SameTransfer
<1>8. QED
  BY <1>1, <1>2, <1>3, <1>4, <1>5, <1>6, <1>7, AnswerTransfers, DeliverTransfers
     DEF Next

(* The upload implements the transfer: for every file, block size and      *)
(* number of faults, a quiet dialog copies the file in order and shows     *)
(* "Update Ready" exactly when the copy is confirmed.                      *)
THEOREM UploadImplementsTransfer == Spec => UploadIsTransfer
<1>1. Init => Transfer!TransferInit
  <2>1. ASSUME Init PROVE ~Uploading
    BY <2>1 DEF Init, Uploading
  <2>2. QED
    BY <2>1 DEF Init, Transfer!TransferInit, UploadPhase, Copied, Confirmed, Writes
<1>2. UploadInv /\ UploadInv' /\ [Next]_vars
        => [Transfer!TransferNext]_(Transfer!transferVars)
  BY StepTransfers
<1>3. QED
  BY <1>1, <1>2, UploadInductive, PTL DEF Spec, UploadIsTransfer, Transfer!TransferSpec
=============================================================================
