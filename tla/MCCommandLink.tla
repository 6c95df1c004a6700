----------------------------- MODULE MCCommandLink -----------------------------
(* CommandLink with two commands and one event, for TLC.                   *)
EXTENDS CommandLink

(* A command of several packets and one that fits into one.                *)
MCCommandSize == << 7, 2 >>
(* With payloads of 3 and 4: an end of one byte, one or two notifications, *)
(* an end that is the delimiter alone.                                     *)
MCSize == << 4, 2, 3 >>
=============================================================================
