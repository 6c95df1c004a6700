---------------------------- MODULE Scanner_proofs ----------------------------
(***************************************************************************)
(* Proofs about Scanner for all advertisements and any number of scans.    *)
(***************************************************************************)
EXTENDS Scanner, SequenceTheorems, TLAPS

USE AdvertisementAssumption, MaxScansAssumption

(* memEquals is equality: every byte is in one of the words compared or    *)
(* after the last of them.                                                 *)
THEOREM memEqualsIsEquality ==
  ASSUME NEW a \in Seq(0 .. 255), NEW b \in Seq(0 .. 255)
  PROVE  memEquals(a, b) <=> a = b
<1>1. a = b => memEquals(a, b)
  BY DEF memEquals
<1>2. ASSUME memEquals(a, b) PROVE a = b
  <2> DEFINE n == Len(a)
             words == n \div 8
  <2>1. /\ n \in Nat /\ words \in Nat /\ 8 * words <= n /\ Len(b) = n
    BY <1>2 DEF memEquals
  <2>2. ASSUME NEW k \in 1 .. n PROVE a[k] = b[k]
    <3>1. CASE k > 8 * words
      BY <1>2, <2>1, <3>1 DEF memEquals
    <3>2. CASE k <= 8 * words
      <4> DEFINE i == (k - 1) \div 8
      <4>1. /\ i \in 0 .. words - 1 /\ 8 * i + 1 <= k /\ k <= 8 * i + 8
            /\ 8 * i + 8 <= n
        BY <2>1, <3>2
      <4>2. Word(a, i) = Word(b, i)
        BY <1>2, <4>1 DEF memEquals
      <4>3. /\ Word(a, i)[k - 8 * i] = a[k]
            /\ Word(b, i)[k - 8 * i] = b[k]
        BY <2>1, <4>1 DEF Word
      <4>4. QED
        BY <4>2, <4>3
    <3>3. QED
      BY <2>1, <3>1, <3>2
  <2>3. QED
    BY <2>1, <2>2
<1>3. QED
  BY <1>1, <1>2

-----------------------------------------------------------------------------
(* What the list becomes is a list.                                        *)
LEMMA ListedType ==
  ASSUME devices \in Seq(Advertisement), NEW device \in Advertisement,
         Listed(device)
  PROVE  devices' \in Seq(Advertisement)
<1>1. CASE \E i \in DOMAIN devices : devices' = [devices EXCEPT ![i] = device]
  <2>1. PICK i \in DOMAIN devices : devices' = [devices EXCEPT ![i] = device]
    BY <1>1
  <2>2. QED
    BY <2>1, ExceptSeq
<1>2. CASE devices' = Append(devices, device)
  BY <1>2
<1>3. QED
  BY <1>1, <1>2 DEF Listed

(* The type invariant is inductive by itself.                              *)
LEMMA TypeStep == TypeOK /\ [Next]_vars => TypeOK'
<1> SUFFICES ASSUME TypeOK, [Next]_vars PROVE TypeOK'
  OBVIOUS
<1> USE DEF TypeOK
<1>0. stopScan => /\ scan' \in [Scan -> {"unused", "live", "ended", "cancelling", "closed"}]
                  /\ subscription' \in Scan \cup {0}
                  /\ waiting' \subseteq Scan
                  /\ shown' \in BOOLEAN
                  /\ UNCHANGED << scans, devices, heard >>
  BY DEF stopScan, Cancelled
<1>1. CASE \E s \in Scan : CancelCompletes(s)
  <2>1. PICK s \in Scan : CancelCompletes(s)
    BY <1>1
  <2>2. QED
    BY <2>1 DEF CancelCompletes
<1>2. CASE \E s \in Scan : ScanEnds(s)
  BY <1>2 DEF ScanEnds
<1>3. CASE \E s \in Scan, device \in Advertisement : Report(s, device)
  <2>1. PICK s \in Scan, device \in Advertisement : Report(s, device)
    BY <1>3
  <2>2. devices' \in Seq(Advertisement)
    BY <2>1, ListedType DEF Report
  <2>3. shown' \in BOOLEAN
    BY <2>1 DEF Report
  <2>4. heard' \subseteq Advertisement
    BY <2>1 DEF Report
  <2>5. QED
    BY <2>1, <2>2, <2>3, <2>4 DEF Report, scanVars
<1>4. CASE PressScan
  <2>1. scans + 1 \in Scan
    BY <1>4 DEF PressScan, startScan, Scan
  <2>2. scan' \in [Scan -> {"unused", "live", "ended", "cancelling", "closed"}]
    BY <1>4, <2>1 DEF PressScan, startScan, Cancelled
  <2>3. scans' \in 0 .. MaxScans /\ devices' \in Seq(Advertisement)
    BY <1>4 DEF PressScan, startScan
  <2>4. QED
    BY <1>4, <2>1, <2>2, <2>3 DEF PressScan, startScan
<1>5. CASE PressStop
  BY <1>0, <1>5 DEF PressStop
<1>6. CASE TapDevice
  BY <1>0, <1>6 DEF TapDevice
<1>7. CASE Back
  BY <1>7 DEF Back, scanVars
<1>8. CASE BluetoothOn
  BY <1>8 DEF BluetoothOn, scanVars
<1>9. CASE BluetoothOff
  BY <1>0, <1>9 DEF BluetoothOff
<1>10. CASE UNCHANGED vars
  BY <1>10 DEF vars, scanVars
<1>11. QED
  BY <1>1, <1>2, <1>3, <1>4, <1>5, <1>6, <1>7, <1>8, <1>9, <1>10 DEF Next

(* The scanner's fields keep their types.                                  *)
THEOREM TypeCorrect == Spec => []TypeOK
<1>1. Init => TypeOK
  <2>1. Init => devices \in Seq(Advertisement) /\ scans \in 0 .. MaxScans
    BY DEF Init
  <2>2. QED
    BY <2>1, Zenon DEF Init, TypeOK
<1>2. QED
  BY <1>1, TypeStep, PTL DEF Spec

-----------------------------------------------------------------------------
(* The manufacturer data of what is listed and reported.                   *)
LEMMA KnownIsEqual ==
  ASSUME TypeOK, NEW device \in Advertisement, NEW i \in DOMAIN devices
  PROVE  Known(device, i) <=>
           devices[i].manufacturerData = device.manufacturerData
<1>1. devices[i] \in Advertisement
  BY DEF TypeOK
<1>2. /\ devices[i].manufacturerData \in Seq(0 .. 255)
      /\ device.manufacturerData \in Seq(0 .. 255)
  BY <1>1
<1>3. QED
  BY <1>2, memEqualsIsEquality DEF Known

(* A report puts the device in the place of the entry it replaces.         *)
LEMMA ReportStep ==
  ASSUME TypeOK, ListIsWhatWasHeard, NEW s \in Scan,
         NEW device \in Advertisement, Report(s, device)
  PROVE  ListIsWhatWasHeard'
<1> USE DEF ListIsWhatWasHeard
<1>1. devices \in Seq(Advertisement)
  BY DEF TypeOK
<1>2. \A d \in heard' : d.service
  BY DEF Report
<1>3. CASE \E i \in DOMAIN devices :
             Known(device, i) /\ devices' = [devices EXCEPT ![i] = device]
  <2>1. PICK i \in DOMAIN devices :
          Known(device, i) /\ devices' = [devices EXCEPT ![i] = device]
    BY <1>3
  <2>2. /\ DOMAIN devices' = DOMAIN devices
        /\ devices'[i] = device
        /\ \A j \in DOMAIN devices : j # i => devices'[j] = devices[j]
    BY <1>1, <2>1
  <2>3. devices[i].manufacturerData = device.manufacturerData
    BY <2>1, KnownIsEqual
  <2>4. \A j \in DOMAIN devices :
          j # i => devices[j].manufacturerData # device.manufacturerData
    BY <2>3
  <2>5. {devices'[j] : j \in DOMAIN devices'} = heard'
    BY <2>2, <2>3, <2>4 DEF Report
  <2>6. QED
    BY <1>2, <2>2, <2>4, <2>5
<1>4. CASE /\ \A i \in DOMAIN devices : ~Known(device, i)
           /\ devices' = Append(devices, device)
  <2>1. /\ DOMAIN devices = 1 .. Len(devices) /\ Len(devices) \in Nat
        /\ DOMAIN devices' = 1 .. Len(devices) + 1
        /\ devices'[Len(devices) + 1] = device
        /\ \A j \in DOMAIN devices : devices'[j] = devices[j]
    BY <1>1, <1>4
  <2>2. \A j \in DOMAIN devices :
          devices[j].manufacturerData # device.manufacturerData
    BY <1>4, KnownIsEqual
  <2>3. heard' = heard \cup {device}
    BY <2>2 DEF Report
  <2>4. {devices'[j] : j \in DOMAIN devices'} = heard'
    BY <2>1, <2>3
  <2>5. QED
    BY <1>2, <2>1, <2>2, <2>4
<1>5. QED
  BY <1>3, <1>4 DEF Report, Listed

(* Only a report and the start of a scan change the list.                  *)
LEMMA ListStep ==
  TypeOK /\ ListIsWhatWasHeard /\ [Next]_vars => ListIsWhatWasHeard'
<1> SUFFICES ASSUME TypeOK, ListIsWhatWasHeard, [Next]_vars
             PROVE  ListIsWhatWasHeard'
  OBVIOUS
<1>1. CASE \E s \in Scan, device \in Advertisement : Report(s, device)
  BY <1>1, ReportStep
<1>2. CASE PressScan
  BY <1>2 DEF PressScan, startScan, ListIsWhatWasHeard
<1>3. CASE UNCHANGED << devices, heard >>
  BY <1>3 DEF ListIsWhatWasHeard
<1>4. QED
  BY <1>1, <1>2, <1>3 DEF Next, CancelCompletes, ScanEnds, PressStop, TapDevice,
     Back, BluetoothOn, BluetoothOff, stopScan, vars, scanVars

(* The list has exactly one entry per sOPEP device heard.                  *)
THEOREM ListIsHeard == Spec => []ListIsWhatWasHeard
<1>1. Init => ListIsWhatWasHeard
  BY DEF Init, ListIsWhatWasHeard
<1>2. QED
  BY <1>1, TypeCorrect, ListStep, PTL DEF Spec

-----------------------------------------------------------------------------
(* The field is set exactly while the screen is told so, it refers to the  *)
(* only scan that runs, and only its cancel is awaited.                    *)
OneScan ==
  /\ shown <=> subscription # 0
  /\ \A s \in Scan : scan[s] = "live" => subscription = s
  /\ waiting \subseteq {subscription}
  /\ \A s \in waiting : scan[s] = "cancelling"

(* OneScan is inductive: a scan starts only when the field is null, so a   *)
(* stop that goes on late clears the field of the scan it has stopped.     *)
LEMMA OneScanStep == TypeOK /\ OneScan /\ [Next]_vars => OneScan'
<1> SUFFICES ASSUME TypeOK, OneScan, [Next]_vars PROVE OneScan'
  OBVIOUS
<1> USE DEF TypeOK, OneScan
<1>0. ASSUME stopScan PROVE OneScan'
  <2>1. CASE subscription # 0 /\ scan[subscription] \in {"live", "cancelling"}
    BY <1>0, <2>1 DEF stopScan, Cancelled
  <2>2. CASE subscription = 0
    BY <1>0, <2>2 DEF stopScan, Scan
  <2>3. CASE subscription # 0 /\ scan[subscription] \notin {"live", "cancelling"}
    BY <1>0, <2>3 DEF stopScan
  <2>4. QED
    BY <2>1, <2>2, <2>3
<1>1. CASE \E s \in Scan : CancelCompletes(s)
  <2>1. PICK s \in Scan : CancelCompletes(s)
    BY <1>1
  <2>2. QED
    BY <2>1 DEF CancelCompletes
<1>2. CASE \E s \in Scan : ScanEnds(s)
  BY <1>2 DEF ScanEnds
<1>3. CASE \E s \in Scan, device \in Advertisement : Report(s, device)
  BY <1>3 DEF Report, scanVars
<1>4. CASE PressScan
  <2>1. subscription = 0 /\ waiting = {} /\ scans + 1 \in Scan
    BY <1>4 DEF PressScan, startScan, Scan
  <2>2. scan' = [scan EXCEPT ![scans + 1] = "live"]
    BY <1>4, <2>1 DEF PressScan, startScan, Cancelled
  <2>3. QED
    BY <1>4, <2>1, <2>2 DEF PressScan, startScan, Scan
<1>5. CASE PressStop \/ TapDevice \/ BluetoothOff
  BY <1>0, <1>5 DEF PressStop, TapDevice, BluetoothOff
<1>6. CASE Back \/ BluetoothOn \/ UNCHANGED vars
  BY <1>6 DEF Back, BluetoothOn, vars, scanVars
<1>7. QED
  BY <1>1, <1>2, <1>3, <1>4, <1>5, <1>6 DEF Next

(* No scan runs that the Stop button does not stop.                        *)
THEOREM NoScanIsHidden == Spec => []NoHiddenScan
<1>1. Init => OneScan
  BY DEF Init, OneScan
<1>2. OneScan /\ TypeOK => NoHiddenScan
  BY DEF OneScan, NoHiddenScan, TypeOK, Scan
<1>3. QED
  BY <1>1, <1>2, TypeCorrect, OneScanStep, PTL DEF Spec
=============================================================================
