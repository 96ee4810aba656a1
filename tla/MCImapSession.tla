--------------------------- MODULE MCImapSession ---------------------------
(* ImapSession for TLC.                                                    *)
EXTENDS ImapSession, TLC

CoroSymmetry == Permutations(Coro)

=============================================================================
