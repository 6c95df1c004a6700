------------------------- MODULE MCNotificationDecoder -------------------------
(* NotificationDecoder with messages of one to three notifications, for    *)
(* TLC.                                                                    *)
EXTENDS NotificationDecoder

(* With a payload of 4: an end of one byte, one notification, an end that  *)
(* is the delimiter alone, three notifications.                            *)
MCSize == << 4, 2, 3, 4, 2, 8 >>
=============================================================================
