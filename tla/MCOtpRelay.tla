------------------------------ MODULE MCOtpRelay ------------------------------
(* A small instance of OtpRelay: two waiters compete for two OTPs.  *)
EXTENDS OtpRelay

CONSTANTS w1, w2, gopay, any

MCWaiters == {w1, w2}
MCPurposes == {gopay, any}
===============================================================================
