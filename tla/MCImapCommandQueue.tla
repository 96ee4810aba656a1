------------------------ MODULE MCImapCommandQueue ------------------------
(***************************************************************************)
(* ImapCommandQueue driven by any sequence of enqueue and tryPop, beside a *)
(* log of everything that was ever enqueued.  What the incremental         *)
(* algorithm keeps is compared with what the log says should be waiting.   *)
(***************************************************************************)
EXTENDS ImapCommandQueue

CONSTANT MaxLog  \* bound: operations enqueued

VARIABLES
  queue_,
  log,    \* every operation enqueued, in order
  taken   \* the indices of the log that tryPop returned

queueVars == <<queue_, log, taken>>

QueueInit == queue_ = <<>> /\ log = <<>> /\ taken = {}

\* No later operation of the log l supersedes its i-th.
Current(l, i) ==
  \A j \in i + 1 .. Len(l) :
    /\ l[j] # "SelectMailbox"
    /\ l[i] \in Coalesced => l[j] # l[i]

\* The indices of the operations that should be waiting.
Waiting == {i \in DOMAIN log \ taken : Current(log, i)}

DoEnqueue ==
  /\ Len(log) < MaxLog
  /\ \E op \in ImapOpType : queue_' = Enqueue(queue_, op) /\ log' = Append(log, op)
  /\ UNCHANGED taken

TryPop ==
  /\ ~QueueEmpty(queue_)
  /\ queue_' = Tail(queue_)
  /\ taken' = taken \cup {CHOOSE i \in Waiting : \A j \in Waiting : i <= j}
  /\ UNCHANGED log

QueueNext == DoEnqueue \/ TryPop

QueueSpec == QueueInit /\ [][QueueNext]_queueVars

\* The queue of enqueue and tryPop holds, in the order they were asked for,
\* exactly the operations that were not taken and that no later operation
\* replaced: a SelectMailbox replaces everything, a LoadEmail and a
\* FetchMailboxPage their own kind.
HoldsWhatIsWaiting ==
  queue_ = [k \in 1..Cardinality(Waiting) |->
             log[CHOOSE i \in Waiting : Cardinality({j \in Waiting : j <= i}) = k]]

=============================================================================
