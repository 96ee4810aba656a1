--------------------------- MODULE MCMailboxView ---------------------------
(* MailboxView for TLC.                                                    *)
EXTENDS MailboxView

=============================================================================
