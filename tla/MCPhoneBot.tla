------------------------------ MODULE MCPhoneBot ------------------------------
(* Small instances of PhoneBot.                                             *)
EXTENDS PhoneBot, TLC
===============================================================================
