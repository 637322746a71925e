------------------------------- MODULE MCOtpWait -------------------------------
(* Small instances of OtpWait.                                              *)
EXTENDS OtpWait, TLC
===============================================================================
