------------------------------ MODULE MCReadData ------------------------------
(* ReadData with small device contents, for TLC.                           *)
EXTENDS ReadData

(* A complete set; a set without its end (the device was reset) and then a *)
(* complete one; the rest of a set cut off by an earlier read, a gap, and  *)
(* a set that never ends.                                                  *)
MCLayouts == { << "start", "pressure", "end" >>,
               << "start", "start", "end" >>,
               << "end", "missing", "start" >> }

TwoSets == { << "start", "pressure", "end", "start", "end" >> }
=============================================================================
