--------------------------- MODULE MCTieredCache ---------------------------
(* Two accounts; three messages of one in two mailboxes, one of the other. *)
EXTENDS TieredCache

CONSTANTS a, b

Body(account, mailbox, uid) == [account |-> account, mailbox |-> mailbox, uid |-> uid]

MCKey == {Body(a, "Inbox", 1), Body(a, "Inbox", 2), Body(a, "Sent", 1), Body(b, "Inbox", 1)}

(* The second message of the inbox is larger than the memory budget.       *)
MCSize == [k \in MCKey |-> IF k.uid = 2 THEN 3 ELSE 1]
=============================================================================
