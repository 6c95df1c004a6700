----------------------------- MODULE FileTransfer -----------------------------
(***************************************************************************)
(* What an upload promises: the receiver's copy of a file grows block by   *)
(* block from the file's start, each block is confirmed before the next    *)
(* one is copied, and the upload is ready when, and only when, the whole   *)
(* file is copied and confirmed.  It may be given up at any time.  There   *)
(* are no messages, losses or dialogs here; FirmwareUpload implements it.  *)
(***************************************************************************)
EXTENDS Naturals

CONSTANTS
  Sizes,      \* the lengths of the files considered
  Step        \* the length of every block but the last

VARIABLES
  size,       \* the length of the file
  phase,      \* "idle", "copying" or "ready"
  copied,     \* how much of the file, from its start, the receiver holds
  confirmed   \* how much of it the sender knows to be there

transferVars == << size, phase, copied, confirmed >>

TransferInit ==
  /\ size \in Sizes
  /\ phase = "idle"
  /\ copied = 0
  /\ confirmed = 0

Begin ==
  /\ phase = "idle"
  /\ phase' = "copying"
  /\ UNCHANGED << size, copied, confirmed >>

Copy ==
  /\ phase = "copying"
  /\ confirmed = copied
  /\ copied < size
  /\ copied' = IF copied + Step < size THEN copied + Step ELSE size
  /\ UNCHANGED << size, phase, confirmed >>

Confirm ==
  /\ phase = "copying"
  /\ confirmed < copied
  /\ confirmed' = copied
  /\ phase' = IF copied = size THEN "ready" ELSE "copying"
  /\ UNCHANGED << size, copied >>

GiveUp ==
  /\ phase # "idle"
  /\ phase' = "idle"
  /\ copied' = 0
  /\ confirmed' = 0
  /\ UNCHANGED size

TransferNext == Begin \/ Copy \/ Confirm \/ GiveUp

TransferSpec == TransferInit /\ [][TransferNext]_transferVars

=============================================================================
