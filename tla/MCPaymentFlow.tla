----------------------------- MODULE MCPaymentFlow -----------------------------
(* A small instance of PaymentFlow.                                         *)
EXTENDS PaymentFlow
===============================================================================
