------------------------------- MODULE ReadData -------------------------------
(***************************************************************************)
(* Reading the pressure data of a device: SopepReadDataDialog, its         *)
(* first listener (subscribeCharacteristic), its reading loop              *)
(* (_getDataLoop), what _formatData writes to files, and the device's      *)
(* side of the read-data command.                                          *)
(*                                                                         *)
(* The device numbers its items; read-data with a seq tells it which item  *)
(* the phone has saved last, it deletes the items up to there and answers  *)
(* with the first item beyond, or with no item.  The loop reads item after *)
(* item and hands every set, from "Start set" to "End set", to FileStorage. *)
(* Its writes are not awaited and may fail; the loop does not learn of it. *)
(*                                                                         *)
(* Closing the dialog cancels its first listener but not the loop's, which *)
(* keeps answering every message while later dialogs run their own: the    *)
(* state of each dialog is kept per dialog.  The device is external and    *)
(* modelled from the commands the app sends and the responses it reads.    *)
(* One connection is taken to stay up; what happens to it is the business  *)
(* of BleInteractor.                                                       *)
(***************************************************************************)
EXTENDS Integers, Sequences, FiniteSetsExt

CONSTANTS
  Layouts,       \* the device contents considered: sequences of item kinds
  MaxDialogs,    \* bound: how often the dialog is opened
  MaxStarts,     \* bound: how often Start is pressed
  MaxFaults,     \* bound: unrelated messages, lost messages, restarts of
                 \* the app and failed writes, together
  MaxRetries,    \* bound: pending retries of a loop that are told apart
  MaxInFlight    \* bound: commands and messages under way when a retry fires

(* "missing": a sequence number the device skipped (BLE-Protocol: values   *)
(* may be missing after a reset).                                          *)
Kind == {"start", "pressure", "end", "missing"}

ASSUME LayoutsAssumption == Layouts \subseteq Seq(Kind)
ASSUME BoundsAssumption ==
  /\ MaxDialogs \in Nat \ {0}
  /\ MaxStarts \in Nat
  /\ MaxFaults \in Nat
  /\ MaxRetries \in Nat \ {0}
  /\ MaxInFlight \in Nat \ {0}

Dialog == 1 .. MaxDialogs

VARIABLES
  kind,       \* device: the kind of item it records under each seq
  stored,     \* device: the last seq recorded so far
  deleted,    \* device: the items up to this seq are deleted
  toDevice,   \* read-data commands on their way: the seq each carries
  toApp,      \* messages on their way to the app's listeners
  dialog,     \* the open dialog, or 0
  opened,     \* number of dialogs opened
  progress,   \* per dialog: _readingInProgress, _readingComplete
  loop,       \* per dialog: the closure of _getDataLoop
  retries,    \* per dialog: pending Future.delayed(500 ms)
  writing,    \* sets handed to FileStorage whose writes have not ended: the
              \* seqs of the items of each
  saved,      \* sets whose files are written
  failed,     \* history: sets whose writes ended without all their files
  stock,      \* history, per dialog: what was stored when its reading began
  received,   \* history: the seqs of the items that reached the listeners
  starts, events, losses, restarts, failures    \* uses of the bounds

deviceVars == << kind, stored, deleted >>
fileVars == << writing, saved, failed >>
appVars == << dialog, opened, progress, loop, retries, fileVars, stock,
              received >>
bounds == << starts, events, losses, restarts, failures >>
vars == << deviceVars, toDevice, toApp, appVars, bounds >>

Seqs == 1 .. Len(kind)

(* getData(null) asks for the oldest item, as getData(0) does.             *)
Oldest == 0

NoData == [type |-> "none", seq |-> 0]
Event == [type |-> "event", seq |-> 0]
Data(n) == [type |-> "data", seq |-> n]
Message == {NoData, Event} \cup {Data(n) : n \in Seqs}

(* first is the argument of _getDataLoop, seq is seqCounter and raw is     *)
(* _pressureDataRaw.                                                       *)
Loop == [alive : BOOLEAN, first : 0 .. Len(kind), seq : 0 .. Len(kind),
         startSetFound : BOOLEAN, raw : Seq(Seqs)]
NoLoop == [alive |-> FALSE, first |-> 0, seq |-> 0, startSetFound |-> FALSE,
           raw |-> << >>]

TypeOK ==
  /\ kind \in Layouts
  /\ stored \in 0 .. Len(kind)
  /\ deleted \in 0 .. Len(kind)
  /\ toDevice \in Seq(0 .. Len(kind))
  /\ toApp \in Seq(Message)
  /\ dialog \in 0 .. MaxDialogs
  /\ opened \in 0 .. MaxDialogs
  /\ progress \in [Dialog -> {"idle", "reading", "complete", "empty"}]
  /\ loop \in [Dialog -> Loop]
  /\ retries \in [Dialog -> 0 .. MaxRetries]
  /\ writing \subseteq Seq(Seqs)
  /\ saved \subseteq Seq(Seqs)
  /\ failed \subseteq Seq(Seqs)
  /\ stock \in [Dialog -> 0 .. Len(kind)]
  /\ received \subseteq Seqs
  /\ starts \in 0 .. MaxStarts
  /\ events \in 0 .. MaxFaults
  /\ losses \in 0 .. MaxFaults
  /\ restarts \in 0 .. MaxFaults
  /\ failures \in 0 .. MaxFaults

Init ==
  /\ kind \in Layouts
  /\ stored \in 0 .. Len(kind)
  /\ deleted = 0
  /\ toDevice = << >>
  /\ toApp = << >>
  /\ dialog = 0
  /\ opened = 0
  /\ progress = [d \in Dialog |-> "idle"]
  /\ loop = [d \in Dialog |-> NoLoop]
  /\ retries = [d \in Dialog |-> 0]
  /\ writing = {} /\ saved = {} /\ failed = {}
  /\ stock = [d \in Dialog |-> 0]
  /\ received = {}
  /\ starts = 0 /\ events = 0 /\ losses = 0 /\ restarts = 0 /\ failures = 0

-----------------------------------------------------------------------------
(* The device *)

Record ==
  /\ stored < Len(kind)
  /\ stored' = stored + 1
  /\ UNCHANGED << kind, deleted, toDevice, toApp, appVars, bounds >>

Answer ==
  /\ toDevice # << >>
  /\ deleted' = Max({deleted, Head(toDevice)})
  /\ LET left == {n \in 1 .. stored : n > deleted' /\ kind[n] # "missing"} IN
       \/ left = {} /\ toApp' = Append(toApp, NoData)
       \/ \E n \in left : /\ \A k \in left : n <= k
                          /\ toApp' = Append(toApp, Data(n))
  /\ toDevice' = Tail(toDevice)
  /\ UNCHANGED << kind, stored, appVars, bounds >>

FaultLeft == events + losses + restarts + failures < MaxFaults

(* new-data, device-status, or the late response to another command.       *)
SendEvent ==
  /\ FaultLeft
  /\ events' = events + 1
  /\ toApp' = Append(toApp, Event)
  /\ UNCHANGED << deviceVars, toDevice, appVars, starts, losses, restarts,
                  failures >>

(* writeCborWithoutResponse swallows the exception of a failed write; the  *)
(* decoder drops a message whose COBS or CRC is wrong.                     *)
Lose ==
  /\ FaultLeft
  /\ losses' = losses + 1
  /\ \/ toDevice # << >> /\ toDevice' = Tail(toDevice) /\ UNCHANGED toApp
     \/ toApp # << >> /\ toApp' = Tail(toApp) /\ UNCHANGED toDevice
  /\ UNCHANGED << deviceVars, appVars, starts, events, restarts, failures >>

-----------------------------------------------------------------------------
(* The user *)

OpenDialog ==
  /\ dialog = 0
  /\ opened < MaxDialogs
  /\ opened' = opened + 1
  /\ dialog' = opened + 1
  /\ UNCHANGED << deviceVars, toDevice, toApp, progress, loop, retries,
                  fileVars, stock, received, bounds >>

PressStart ==
  /\ dialog # 0
  /\ progress[dialog] = "idle"
  /\ starts < MaxStarts
  /\ starts' = starts + 1
  /\ toDevice' = Append(toDevice, Oldest)
  /\ UNCHANGED << deviceVars, toApp, appVars, events, losses, restarts,
                  failures >>

(* Close or Cancel: dispose cancels the first listener, nothing else.      *)
CloseDialog ==
  /\ dialog # 0
  /\ dialog' = 0
  /\ UNCHANGED << deviceVars, toDevice, toApp, opened, progress, loop, retries,
                  fileVars, stock, received, bounds >>

(* The app is killed, started and connected again; writes under way are    *)
(* lost with it.                                                           *)
Restart ==
  /\ FaultLeft
  /\ restarts' = restarts + 1
  /\ toDevice' = << >> /\ toApp' = << >>
  /\ dialog' = 0
  /\ loop' = [d \in Dialog |-> [loop[d] EXCEPT !.alive = FALSE]]
  /\ retries' = [d \in Dialog |-> 0]
  /\ writing' = {}
  /\ failed' = failed \cup writing
  /\ UNCHANGED << deviceVars, opened, progress, saved, stock, received, starts,
                  events, losses, failures >>

-----------------------------------------------------------------------------
(* The reading loop of dialog d receives message m *)

(* What _formatData gives to FileStorage for a buffer that ends with its   *)
(* only "End set": the items from the last "Start set" on, if there is one.*)
FormatData(raw) ==
  LET opening == {i \in DOMAIN raw : kind[raw[i]] = "start"}
  IN  {SubSeq(raw, i, Len(raw)) :
         i \in {j \in opening : \A k \in opening : k <= j}}

(* Mutant: the seq of a response is not compared with seqCounter.        *)
Expected_AnySeq(d, m) == m.type = "data"

Expected(d, m) == m.type = "data" /\ m.seq = loop[d].seq + 1

(* setState of a disposed dialog throws after its body ran (release        *)
(* build): startSetFound is set, the rest of the handler skipped.          *)
Throws(d, m) == Expected(d, m) /\ kind[m.seq] = "start" /\ d # dialog

Consumes(d, m) == loop[d].alive /\ Expected(d, m) /\ ~Throws(d, m)

Collecting(d, m) == loop[d].startSetFound \/ kind[m.seq] = "start"

(* Mutant: a set without pressure items is not saved (indexEnd > 1).     *)
CompletesSet_NotEmpty(d, m) ==
  Consumes(d, m) /\ kind[m.seq] = "end" /\ Len(loop[d].raw) > 1

CompletesSet(d, m) ==
  Consumes(d, m) /\ Collecting(d, m) /\ kind[m.seq] = "end"

(* Mutant: an open set is not asked for again.                           *)
Retries_Never(d, m) == FALSE

Retries(d, m) == loop[d].alive /\ m.type # "data" /\ loop[d].startSetFound

(* Mutant: reading ends in the middle of a set, too.                     *)
Finishes_OpenSet(d, m) == loop[d].alive /\ m.type # "data"

Finishes(d, m) == loop[d].alive /\ m.type # "data" /\ ~loop[d].startSetFound

LoopAfter(d, m) ==
  LET l == loop[d]
      raw == IF Collecting(d, m) THEN Append(l.raw, m.seq) ELSE l.raw
  IN  CASE CompletesSet(d, m) ->
             [l EXCEPT !.seq = m.seq, !.startSetFound = FALSE, !.raw = << >>]
        [] Consumes(d, m) /\ ~CompletesSet(d, m) ->
             [l EXCEPT !.seq = m.seq, !.startSetFound = Collecting(d, m),
                       !.raw = raw]
        [] l.alive /\ Throws(d, m) -> [l EXCEPT !.startSetFound = TRUE]
        [] Finishes(d, m) -> [l EXCEPT !.alive = FALSE]
        [] OTHER -> l

(* The first listener of the open dialog starts the loop on the first      *)
(* read-data response it sees, whoever asked for it.                       *)
Begins(d, m) == d = dialog /\ progress[d] = "idle" /\ m.type = "data"
FindsNothing(d, m) == d = dialog /\ progress[d] = "idle" /\ m.type = "none"

(* Mutant: getData asks with the seq after the item just read.           *)
Asks_Ahead(d, m) == m.seq + 1

(* The seq of the getData that message m makes dialog d send.              *)
Asks(d, m) == IF Begins(d, m) THEN m.seq - 1 ELSE m.seq

Senders(m) == {d \in Dialog : Begins(d, m) \/ Consumes(d, m)}

(* The getData commands that message m triggers, dialog by dialog.         *)
SendCommands(m) ==
  \E sender \in [1 .. Cardinality(Senders(m)) -> Senders(m)] :
    /\ \A i, j \in DOMAIN sender : i < j => sender[i] < sender[j]
    /\ toDevice' = toDevice \o [i \in DOMAIN sender |-> Asks(sender[i], m)]

(* The sets that message m completes, in whichever loops.                  *)
NewSets(m) ==
  UNION {FormatData(Append(loop[d].raw, m.seq)) :
           d \in {e \in Dialog : CompletesSet(e, m)}}

(* The writes of a set start and are not awaited.  A set that is written   *)
(* again has the same file name, and its file is emptied first.            *)
StartWrites(sets) ==
  /\ writing' = writing \cup sets
  /\ saved' = saved \ sets
  /\ failed' = failed \ sets

(* Every listener gets the next message; a loop that this message starts   *)
(* does not see it.                                                        *)
Deliver ==
  /\ toApp # << >>
  /\ LET m == Head(toApp) IN
       /\ loop' = [d \in Dialog |->
            IF Begins(d, m)
              THEN [NoLoop EXCEPT !.alive = TRUE, !.first = m.seq,
                                  !.seq = m.seq - 1]
              ELSE LoopAfter(d, m)]
       /\ progress' = [d \in Dialog |->
            CASE Begins(d, m) -> "reading"
              [] FindsNothing(d, m) -> "empty"
              [] Finishes(d, m) -> "complete"
              [] OTHER -> progress[d]]
       /\ retries' = [d \in Dialog |->
            IF Retries(d, m) THEN Min({retries[d] + 1, MaxRetries})
                             ELSE retries[d]]
       /\ StartWrites(NewSets(m))
       /\ stock' = [d \in Dialog |-> IF Begins(d, m) THEN stored ELSE stock[d]]
       /\ received' = IF m.type = "data" THEN received \cup {m.seq} ELSE received
       /\ SendCommands(m)
  /\ toApp' = Tail(toApp)
  /\ UNCHANGED << deviceVars, dialog, opened, bounds >>

(* The delayed getData reads seqCounter when it fires.  It fires while few *)
(* messages are under way: two loops that both collect a set double the    *)
(* retries with every answer, without end.                                 *)
Retry(d) ==
  /\ retries[d] > 0
  /\ Len(toDevice) + Len(toApp) < MaxInFlight
  /\ retries' = [retries EXCEPT ![d] = @ - 1]
  /\ toDevice' = Append(toDevice, loop[d].seq)
  /\ UNCHANGED << deviceVars, toApp, dialog, opened, progress, loop, fileVars,
                  stock, received, bounds >>

-----------------------------------------------------------------------------
(* FileStorage *)

(* The text, binary and CSV files of a set are all written.                *)
WriteEnds(set) ==
  /\ writing' = writing \ {set}
  /\ saved' = saved \cup {set}
  /\ UNCHANGED << deviceVars, toDevice, toApp, dialog, opened, progress, loop,
                  retries, failed, stock, received, bounds >>

(* A write throws, or returns at once for want of an application           *)
(* directory: nobody waits for its future.                                 *)
WriteFails(set) ==
  /\ FaultLeft
  /\ failures' = failures + 1
  /\ writing' = writing \ {set}
  /\ failed' = failed \cup {set}
  /\ UNCHANGED << deviceVars, toDevice, toApp, dialog, opened, progress, loop,
                  retries, saved, stock, received, starts, events, losses,
                  restarts >>

Write == \E set \in writing : WriteEnds(set) \/ WriteFails(set)

-----------------------------------------------------------------------------
Next ==
  \/ Record \/ Answer \/ SendEvent \/ Lose
  \/ OpenDialog \/ PressStart \/ CloseDialog \/ Restart
  \/ Deliver
  \/ \E d \in Dialog : Retry(d)
  \/ Write

Spec == Init /\ [][Next]_vars

(* The device finishes the sets it records and answers every command; the  *)
(* event loop delivers messages and fires delays.  Nothing of the user.    *)
Fairness ==
  /\ WF_vars(Record) /\ WF_vars(Answer) /\ WF_vars(Deliver)
  /\ \A d \in Dialog : WF_vars(Retry(d))

FairSpec == Spec /\ Fairness

-----------------------------------------------------------------------------
(* Properties *)

(* <<a, b>>: the items of one complete set of the device, first and last.  *)
CompleteSet ==
  {r \in Seqs \X Seqs :
     /\ r[1] < r[2] /\ kind[r[1]] = "start" /\ kind[r[2]] = "end"
     /\ \A n \in (r[1] + 1) .. (r[2] - 1) : kind[n] = "pressure"}

ItemsOf(r) == [i \in 1 .. (r[2] - r[1] + 1) |-> r[1] + i - 1]

HandedOver == writing \cup saved \cup failed

(* What _formatData hands to FileStorage is one complete set of the        *)
(* device, no item missing, doubled or out of order, though responses are  *)
(* duplicated by retries, lost, or shared with a loop of a closed dialog.  *)
SavedSetsAreComplete == HandedOver \subseteq {ItemsOf(r) : r \in CompleteSet}

(* The device is never told to delete an item that no listener was given.  *)
DeletedWasReceived ==
  \A n \in 1 .. deleted : kind[n] = "missing" \/ n \in received

(* A loop that has moved past a whole set it was started before has handed *)
(* that set over: it is in its files or will be, unless its write failed.  *)
ReadSetsAreSaved ==
  \A d \in Dialog : \A r \in CompleteSet :
    loop[d].first \in 1 .. r[1] /\ r[2] <= loop[d].seq => ItemsOf(r) \in HandedOver

(* The deleted items of set r are in the buffer of a loop that listens.    *)
Held(r) ==
  \E d \in Dialog :
    /\ loop[d].alive
    /\ \A n \in r[1] .. r[2] :
         n <= deleted => \E i \in DOMAIN loop[d].raw : loop[d].raw[i] = n

(* An item of a set that the device was told to delete is not lost while   *)
(* the app runs, except by a failed write: it is in a file, on its way     *)
(* into one, or in the buffer of a loop that still listens.                *)
DeletedIsSavedOrHeld ==
  restarts = 0 =>
    \A r \in CompleteSet : r[1] <= deleted =>
      \/ ItemsOf(r) \in saved \cup writing
      \/ ItemsOf(r) \in failed
      \/ Held(r)

(* All that the device had when dialog d began to read has gone through    *)
(* its loop.                                                               *)
HasRead(d) == \A n \in Seqs : n <= stock[d] /\ n >= loop[d].first => n <= loop[d].seq

LastSetEnds ==
  \A i \in Seqs : kind[i] = "start" => \E j \in i .. Len(kind) : kind[j] = "end"

(* "We got the very last pressure data!" (sopep_readdata_dialog.dart:235): *)
(* a reading dialog that stays open says complete once it has read all     *)
(* that the device had when the reading began.  The escapes, each a way to *)
(* wait for good: a message is lost; the device's numbering has a gap; the *)
(* last set has no end; an earlier dialog had a loop too, whose commands   *)
(* can delete the item this one waits for.  And one way to say it early:   *)
(* an unrelated message comes between two sets.                            *)
ReadingCompletes ==
  \A d \in Dialog :
    progress[d] = "reading" /\ dialog = d ~>
      \/ progress[d] = "complete" /\ (HasRead(d) \/ events > 0)
      \/ dialog # d
      \/ losses > 0 \/ ~LastSetEnds
      \/ \E n \in Seqs : kind[n] = "missing"
      \/ \E e \in 1 .. (d - 1) : loop[e].first # 0

(* sopep_readdata_dialog.dart:188-190: the seq sent tells the device "the  *)
(* last successfully saved dataset we have".  So an item of a set that it  *)
(* was told to delete is in a file.                                        *)
DeletedIsSaved ==
  \A r \in CompleteSet : r[1] <= deleted => ItemsOf(r) \in saved

=============================================================================
