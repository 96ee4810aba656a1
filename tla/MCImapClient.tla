---------------------------- MODULE MCImapClient ----------------------------
(* Instances of ImapClient for TLC. *)
EXTENDS ImapClient

CONSTANTS mb1, mb2

Offered == {{"STARTTLS", "QRESYNC"}, {}}
One     == {{1}}
Ones    == {{1}, {2}}
Star    == {{}}

\* One operation of every kind that the model tells apart.
AllOps == {"connect", "capability", "login", "authenticate", "logout", "noop", "append", "select", "close", "expunge",
           "sync", "headers", "read", "store", "move", "idle", "clear"}
=============================================================================
