------------------------- MODULE ImapCommandQueue -------------------------
(***************************************************************************)
(* The queue of IMAP operations shared by the Qt thread (enqueue) and the  *)
(* pump coroutine on the io_context thread (tryPop, empty).  Every method  *)
(* holds the queue's mutex from its first to its last line, so each is a   *)
(* function of the queue's contents.  An operation is represented by its   *)
(* type: the queue never looks at anything else.                           *)
(***************************************************************************)
EXTENDS Naturals, Sequences, FiniteSets

ImapOpType == {"SelectMailbox", "LoadEmail", "FetchMailboxPage",
               "MarkRead", "Delete", "Move", "ToggleFlag"}

\* The operations of which the queue keeps the most recent one only.
Coalesced == {"LoadEmail", "FetchMailboxPage"}

\* The position in q of the k-th element that is not t.
KeptPosition(q, t, k) ==
  CHOOSE i \in DOMAIN q :
    /\ q[i] # t
    /\ Cardinality({j \in 1..i : q[j] # t}) = k

\* std::erase_if: q without its elements equal to t, in order.  The same
\* sequence as SelectSeq(q, LAMBDA o : o # t), in a form that theorems about
\* finite sets apply to (MCImapCommandQueue compares
\* what comes of it with a definition that does not erase).
Without(q, t) ==
  [k \in 1..Cardinality({i \in DOMAIN q : q[i] # t}) |-> q[KeptPosition(q, t, k)]]

\* Mutated form of Enqueue: a re-selection does not clear the queue.
EnqueueKeepsAll(q, op) ==
  IF op \in Coalesced THEN Append(Without(q, op), op) ELSE Append(q, op)

\* Mutated form of Enqueue: a repeated click keeps its first place.
EnqueueKeepsFirst(q, op) ==
  CASE op = "SelectMailbox" -> <<op>>
    [] op \in Coalesced /\ (\E i \in DOMAIN q : q[i] = op) -> q
    [] OTHER                -> Append(q, op)

Enqueue(q, op) ==
  CASE op = "SelectMailbox" -> <<op>>
    [] op \in Coalesced     -> Append(Without(q, op), op)
    [] OTHER                -> Append(q, op)

QueueEmpty(q) == q = <<>>

\* What enqueue maintains: at most one LoadEmail and one FetchMailboxPage are
\* queued, and nothing is queued in front of a SelectMailbox.
QueueCoalesced(q) ==
  /\ \A i, j \in DOMAIN q : q[i] = q[j] /\ q[i] \in Coalesced => i = j
  /\ \A i \in DOMAIN q : q[i] = "SelectMailbox" => i = 1

=============================================================================
