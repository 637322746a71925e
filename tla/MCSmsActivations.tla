--------------------------- MODULE MCSmsActivations ---------------------------
(* Small instances of SmsActivations.                                       *)
EXTENDS SmsActivations, TLC
===============================================================================
