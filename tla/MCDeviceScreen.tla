---------------------------- MODULE MCDeviceScreen ----------------------------
(* DeviceScreen with its devices as model values, for TLC.                 *)
EXTENDS DeviceScreen, TLC

DeviceSymmetry == Permutations(Device)
=============================================================================
