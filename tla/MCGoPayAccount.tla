---------------------------- MODULE MCGoPayAccount ----------------------------
(* Small instances of GoPayAccount.                                         *)
EXTENDS GoPayAccount, TLC

CONSTANTS c1, c2

\* The second client brings back sessions it has loaded, changed by no call.
MCMaxCalls == c1 :> 1 @@ c2 :> 0

MCSymmetry == Permutations(Accounts) \cup Permutations(Temps)
===============================================================================
