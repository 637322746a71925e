---------------------------- MODULE MCEmailPool ----------------------------
(* One mailbox with a +alias.                                              *)
EXTENDS EmailPool, TLC

CONSTANTS p, px

MCEmails == {p, px}
MCCanonical == [e \in MCEmails |-> p]
MCMailboxes == {p}

MCUpsertStatus == {AllocationOf(authStatus) : authStatus \in AuthStatus}
MCUpdateStatus == {"REGISTERED", "USER_ALREADY_EXISTS", "DEACTIVATED"}

\* AUTH_FAILED stands for OAUTH_PENDING, which is treated alike.
MCOutcomes == {"AUTHORIZED", "AUTH_FAILED"}

MCSymmetry == Permutations(Accounts)
=============================================================================
