------------------------------- MODULE MCScanner -------------------------------
(***************************************************************************)
(* Advertisements for TLC: devices that differ in the first word of their  *)
(* manufacturer data, in the bytes after it, or in its length; one that is *)
(* heard with another signal strength, and one that is no sOPEP device.    *)
(***************************************************************************)
EXTENDS Scanner

Advertised(service, manufacturerData, rssi) ==
  [service |-> service, manufacturerData |-> manufacturerData, rssi |-> rssi]

WordData == << 1, 2, 3, 4, 5, 6, 7, 8 >>

MCAdvertisement ==
  { Advertised(TRUE, WordData \o << 9 >>, -40),
    Advertised(TRUE, WordData \o << 9 >>, -70),
    Advertised(TRUE, WordData \o << 10 >>, -40),
    Advertised(TRUE, << 0 >> \o Tail(WordData) \o << 9 >>, -40),
    Advertised(TRUE, WordData, -40),
    Advertised(FALSE, << >>, -40) }
=============================================================================
