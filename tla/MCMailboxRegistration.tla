------------------------ MODULE MCMailboxRegistration ------------------------
(* Small instances of MailboxRegistration.                                  *)
EXTENDS MailboxRegistration, TLC
===============================================================================
