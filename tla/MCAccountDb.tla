---------------------------- MODULE MCAccountDb ----------------------------
(* A primary mailbox with two +aliases, and two account ids: a family has  *)
(* one address of each class the backfill tells apart.                     *)
EXTENDS AccountDb, TLC

CONSTANTS p, px, py

MCEmails == {p, px, py}
MCCanonical == [e \in MCEmails |-> p]

MCUpsertStatus == {"AVAILABLE", "NEEDS_MANUAL_VERIFICATION"}
MCUpdateStatus == {"USER_ALREADY_EXISTS"}

MCSymmetry == Permutations(Accounts) \cup Permutations({px, py})
=============================================================================
