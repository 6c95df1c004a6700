-------------------------------- MODULE Scanner --------------------------------
(***************************************************************************)
(* Finding devices: class BleScanner (startScan, stopScan, the listener of *)
(* a scan, memEquals) and the screens that call it (DeviceListScreen,      *)
(* HomeScreen).                                                            *)
(*                                                                         *)
(* stopScan awaits the cancel of the subscription and clears the field     *)
(* afterwards, startScan puts a new subscription there without awaiting    *)
(* anything.  What keeps the two from crossing is not in the scanner: the  *)
(* only button that starts a scan appears once the last stop has reported. *)
(*                                                                         *)
(* The plugin is external: a scan reports advertisements while it is       *)
(* listened to and may end by itself; a cancelled scan reports nothing     *)
(* more, and its cancel completes later, for all stopScan calls that wait. *)
(***************************************************************************)
EXTENDS Integers, Sequences

CONSTANTS
  Advertisement, \* what a scan can report, see below
  MaxScans       \* bound: how often startScan is called

ASSUME AdvertisementAssumption ==
  Advertisement \subseteq
    [ service : BOOLEAN,                   \* names the sOPEP service
      manufacturerData : Seq(0 .. 255),
      rssi : Int ]
ASSUME MaxScansAssumption == MaxScans \in Nat

Scan == 1 .. MaxScans

VARIABLES
  scan,          \* the subscription of each startScan
  scans,         \* startScan calls so far
  subscription,  \* _subscription: a scan, or 0 for null
  waiting,       \* the scans whose cancel some stopScan awaits
  devices,       \* _devices, the list the screen shows
  shown,         \* scanIsInProgress as last pushed
  ready,         \* Bluetooth is on: HomeScreen shows the device list
  covered,       \* a device screen lies over it
  heard          \* history: the last sOPEP advertisement of every device
                 \* since the list was cleared

scanVars == << scan, scans, subscription, waiting >>
vars == << scanVars, devices, shown, ready, covered, heard >>

TypeOK ==
  /\ scan \in [Scan -> {"unused", "live", "ended", "cancelling", "closed"}]
  /\ scans \in 0 .. MaxScans
  /\ subscription \in Scan \cup {0}
  /\ waiting \subseteq Scan
  /\ devices \in Seq(Advertisement)
  /\ shown \in BOOLEAN
  /\ ready \in BOOLEAN
  /\ covered \in BOOLEAN
  /\ heard \subseteq Advertisement

Init ==
  /\ scan = [s \in Scan |-> "unused"]
  /\ scans = 0
  /\ subscription = 0
  /\ waiting = {}
  /\ devices = << >>
  /\ shown = FALSE
  /\ ready = FALSE
  /\ covered = FALSE
  /\ heard = {}

-----------------------------------------------------------------------------
(* BleScanner *)

Word(bytes, i) == SubSeq(bytes, 8 * i + 1, 8 * i + 8)

(* Mutant: the bytes after the last whole word are not compared.         *)
memEquals_WordsOnly(bytes0, bytes1) ==
  /\ Len(bytes0) = Len(bytes1)
  /\ \A i \in 0 .. (Len(bytes0) \div 8) - 1 : Word(bytes0, i) = Word(bytes1, i)

(* Lists of bytes compared by words of eight, then by the bytes that are   *)
(* left.  Each list is the whole of its buffer.                            *)
memEquals(bytes0, bytes1) ==
  /\ Len(bytes0) = Len(bytes1)
  /\ LET numWords == Len(bytes0) \div 8
     IN /\ \A i \in 0 .. numWords - 1 : Word(bytes0, i) = Word(bytes1, i)
        /\ \A i \in 8 * numWords + 1 .. Len(bytes0) : bytes0[i] = bytes1[i]

(* subscription.cancel(): an ended one has nothing left to cancel.         *)
Cancelled(s) ==
  IF s # 0 /\ scan[s] = "live" THEN [scan EXCEPT ![s] = "cancelling"] ELSE scan

startScan ==
  /\ scans < MaxScans
  /\ scans' = scans + 1
  /\ devices' = << >>
  /\ heard' = {}
  /\ scan' = [Cancelled(subscription) EXCEPT ![scans + 1] = "live"]
  /\ subscription' = scans + 1
  /\ shown' = TRUE
  /\ UNCHANGED waiting

(* Mutant: a null subscription is awaited like any other.                *)
stopScan_AwaitsNull ==
  /\ scan' = Cancelled(subscription)
  /\ waiting' = waiting \cup {subscription}
  /\ UNCHANGED << scans, subscription, devices, shown, heard >>

(* Mutant: the screen is told before the cancel has completed.           *)
stopScan_ReportsFirst ==
  /\ shown' = FALSE
  /\ IF subscription # 0 /\ scan[subscription] \in {"live", "cancelling"}
       THEN /\ scan' = Cancelled(subscription)
            /\ waiting' = waiting \cup {subscription}
            /\ UNCHANGED subscription
       ELSE subscription' = 0 /\ UNCHANGED << scan, waiting >>
  /\ UNCHANGED << scans, devices, heard >>

(* stopScan up to its await; awaiting null or an ended subscription goes   *)
(* on before anything else can happen.                                     *)
stopScan ==
  /\ IF subscription # 0 /\ scan[subscription] \in {"live", "cancelling"}
       THEN /\ scan' = Cancelled(subscription)
            /\ waiting' = waiting \cup {subscription}
            /\ UNCHANGED << subscription, shown >>
       ELSE /\ subscription' = 0
            /\ shown' = FALSE
            /\ UNCHANGED << scan, waiting >>
  /\ UNCHANGED << scans, devices, heard >>

(* Mutant: the field is cleared but the screen is not told.              *)
CancelCompletes_Silent(s) ==
  /\ scan[s] = "cancelling"
  /\ scan' = [scan EXCEPT ![s] = "closed"]
  /\ subscription' = IF s \in waiting THEN 0 ELSE subscription
  /\ waiting' = waiting \ {s}
  /\ UNCHANGED << scans, devices, shown, ready, covered, heard >>

(* A cancel completes and the stopScan calls that wait for it go on: they  *)
(* clear the field, whatever it refers to by now, and tell the screen.     *)
CancelCompletes(s) ==
  /\ scan[s] = "cancelling"
  /\ scan' = [scan EXCEPT ![s] = "closed"]
  /\ waiting' = waiting \ {s}
  /\ IF s \in waiting
       THEN subscription' = 0 /\ shown' = FALSE
       ELSE UNCHANGED << subscription, shown >>
  /\ UNCHANGED << scans, devices, ready, covered, heard >>

(* onError logs; nothing listens for the end of a scan.                    *)
ScanEnds(s) ==
  /\ scan[s] = "live"
  /\ scan' = [scan EXCEPT ![s] = "ended"]
  /\ UNCHANGED << scans, subscription, waiting, devices, shown, ready, covered,
                  heard >>

Known(device, i) ==
  memEquals(devices[i].manufacturerData, device.manufacturerData)

(* The device takes the place of the first entry with its manufacturer     *)
(* data, or goes to the end.                                               *)
Listed(device) ==
  \/ \E i \in DOMAIN devices :
       /\ Known(device, i)
       /\ \A j \in 1 .. i - 1 : ~Known(device, j)
       /\ devices' = [devices EXCEPT ![i] = device]
  \/ /\ \A i \in DOMAIN devices : ~Known(device, i)
     /\ devices' = Append(devices, device)

(* The listener of scan s.                                                 *)
Report(s, device) ==
  /\ scan[s] = "live"
  /\ device.service
  /\ Listed(device)
  /\ shown' = (subscription # 0)
  /\ heard' = {h \in heard : h.manufacturerData # device.manufacturerData}
                \cup {device}
  /\ UNCHANGED << scanVars, ready, covered >>

-----------------------------------------------------------------------------
(* The screens *)

InFront == ready /\ ~covered

PressScan ==
  /\ InFront
  /\ ~shown
  /\ startScan
  /\ UNCHANGED << ready, covered >>

PressStop ==
  /\ InFront
  /\ shown
  /\ stopScan
  /\ UNCHANGED << ready, covered >>

(* Mutant: a scan goes on behind the device screen.                      *)
TapDevice_KeepsScanning ==
  /\ InFront
  /\ devices # << >>
  /\ covered' = TRUE
  /\ UNCHANGED << scanVars, devices, shown, ready, heard >>

TapDevice ==
  /\ InFront
  /\ devices # << >>
  /\ stopScan
  /\ covered' = TRUE
  /\ UNCHANGED ready

Back ==
  /\ covered
  /\ covered' = FALSE
  /\ UNCHANGED << scanVars, devices, shown, ready, heard >>

BluetoothOn ==
  /\ ~ready
  /\ ready' = TRUE
  /\ UNCHANGED << scanVars, devices, shown, covered, heard >>

(* HomeScreen replaces the list, which is disposed of.                     *)
BluetoothOff ==
  /\ ready
  /\ ready' = FALSE
  /\ stopScan
  /\ UNCHANGED covered

-----------------------------------------------------------------------------
Next ==
  \/ \E s \in Scan : CancelCompletes(s) \/ ScanEnds(s)
  \/ \E s \in Scan, device \in Advertisement : Report(s, device)
  \/ PressScan
  \/ PressStop
  \/ TapDevice
  \/ Back
  \/ BluetoothOn
  \/ BluetoothOff

Spec == Init /\ [][Next]_vars

(* A cancel completes.                                                     *)
FairSpec == Spec /\ \A s \in Scan : WF_vars(CancelCompletes(s))

-----------------------------------------------------------------------------
(* Properties *)

(* A scan that runs is the one the field refers to, and the button says    *)
(* Stop: no interleaving of Scan, Stop, taps, Bluetooth going off and      *)
(* late cancels leaves a scan that cannot be stopped.                      *)
NoHiddenScan ==
  \A s \in Scan : scan[s] = "live" => subscription = s /\ shown

(* The list has one entry per device heard since the scan was started,     *)
(* the last advertisement of it, and nothing that is not a sOPEP device:   *)
(* memEquals tells devices apart exactly by their manufacturer data.       *)
ListIsWhatWasHeard ==
  /\ {devices[i] : i \in DOMAIN devices} = heard
  /\ \A d \in heard : d.service
  /\ \A i, j \in DOMAIN devices :
       devices[i].manufacturerData = devices[j].manufacturerData => i = j

(* Behind a device screen or with Bluetooth off, the scan ends and the     *)
(* scanner says so.                                                        *)
ScanStopsBehind == ~InFront ~> (~shown \/ InFront)

=============================================================================
