------------------------ MODULE MailboxView_proofs ------------------------
(***************************************************************************)
(* Proofs about MailboxView, for any mailboxes, UIDs, bounds and faults of *)
(* the server.                                                             *)
(***************************************************************************)
EXTENDS MailboxView, ImapCommandQueue_proofs

-----------------------------------------------------------------------------
(* The queue.                                                              *)

\* enqueue of anything but a re-selection: the operations queued before, less
\* some, and the new one; a SelectMailbox at the front stays there.
LEMMA EnqueueOpProperties ==
  ASSUME NEW S, NEW q \in Seq(S), NEW o, o.type # "SelectMailbox",
         \A i \in DOMAIN q : q[i].type = "SelectMailbox" => i = 1
  PROVE  /\ EnqueueOp(q, o) \in Seq(S \union {o})
         /\ \A k \in DOMAIN EnqueueOp(q, o) :
              \/ EnqueueOp(q, o)[k] = o
              \/ \E i \in DOMAIN q : EnqueueOp(q, o)[k] = q[i]
         /\ \A k \in DOMAIN EnqueueOp(q, o) :
              EnqueueOp(q, o)[k].type = "SelectMailbox" => k = 1
         /\ (\E k \in DOMAIN EnqueueOp(q, o) : EnqueueOp(q, o)[k].type = "SelectMailbox")
              <=> (\E i \in DOMAIN q : q[i].type = "SelectMailbox")
<1> DEFINE t == o.type
           K == Kinds(q)
           T == {q[i].type : i \in DOMAIN q}
           n == Cardinality(Kept(K, t))
           P(k) == KeptPosition(K, t, k)
           W == [k \in DOMAIN Without(K, t) |-> q[P(k)]]
<1>1. CASE t \in Coalesced
  <2>1. K \in Seq(T) /\ DOMAIN K = DOMAIN q /\ \A i \in DOMAIN q : K[i] = q[i].type
    BY DEF Kinds
  <2> HIDE DEF K, T, t
  <2>2. n \in Nat
    BY <2>1, RankProperties
  <2>3. /\ DOMAIN Without(K, t) = 1..n
        /\ \A k \in 1..n : P(k) \in Kept(K, t)
        /\ \A j, k \in 1..n : j < k => P(j) < P(k)
        /\ \A i \in Kept(K, t) : \E k \in 1..n : P(k) = i
    <3>1. /\ DOMAIN Without(K, t) = 1..n
          /\ \A k \in DOMAIN Without(K, t) : P(k) \in Kept(K, t)
      BY <2>1, WithoutProperties
    <3>2. \A j, k \in DOMAIN Without(K, t) : j < k => P(j) < P(k)
      BY <2>1, WithoutProperties
    <3>3. \A i \in Kept(K, t) : \E k \in DOMAIN Without(K, t) : P(k) = i
      BY <2>1, WithoutProperties
    <3> QED BY <3>1, <3>2, <3>3
  <2>4. \A i : i \in Kept(K, t) <=> i \in DOMAIN q /\ q[i].type # t
    BY <2>1 DEF Kept, t
  <2>5. /\ W \in Seq(S) /\ DOMAIN W = 1..n /\ Len(W) = n
        /\ \A k \in 1..n : W[k] = q[P(k)]
    <3>1. \A k \in 1..n : q[P(k)] \in S
      BY <2>3, <2>4
    <3>2. W = [k \in 1..n |-> q[P(k)]]
      BY <2>3
    <3> QED BY <3>1, <3>2, <2>2
  <2>6. EnqueueOp(q, o) = Append(W, o)
    BY <1>1 DEF EnqueueOp, K, t
  <2> HIDE DEF W, P, n
  <2>7. /\ EnqueueOp(q, o) \in Seq(S \union {o})
        /\ DOMAIN EnqueueOp(q, o) = 1..(n + 1)
        /\ \A k \in 1..n : EnqueueOp(q, o)[k] = q[P(k)]
        /\ EnqueueOp(q, o)[n + 1] = o
    BY <2>2, <2>5, <2>6
  <2>8. \A k \in 1..(n + 1) : k \in 1..n \/ k = n + 1
    BY <2>2
  <2>9. ASSUME NEW k \in 1..n, q[P(k)].type = "SelectMailbox" PROVE k = 1
    <3>1. P(k) = 1
      BY <2>3, <2>4, <2>9
    <3>2. SUFFICES ASSUME k # 1 PROVE FALSE
      OBVIOUS
    <3>3. 1 \in 1..n /\ 1 < k
      BY <2>2, <3>2
    <3>4. P(1) < 1 /\ P(1) \in DOMAIN q
      BY <3>1, <3>3, <2>3, <2>4
    <3> QED BY <3>4
  <2>10. ASSUME NEW i \in DOMAIN q, q[i].type = "SelectMailbox"
         PROVE  \E k \in 1..n : q[P(k)].type = "SelectMailbox"
    <3>1. i \in Kept(K, t)
      BY <2>4, <2>10 DEF t
    <3> QED BY <3>1, <2>3, <2>10
  <2>11. \A k \in 1..n : P(k) \in DOMAIN q
    BY <2>3, <2>4
  <2> QED BY <2>2, <2>7, <2>8, <2>9, <2>10, <2>11
<1>2. CASE t \notin Coalesced
  <2>1. EnqueueOp(q, o) = Append(q, o)
    BY <1>2 DEF EnqueueOp
  <2>2. /\ Append(q, o) \in Seq(S \union {o})
        /\ Len(q) \in Nat /\ DOMAIN q = 1..Len(q)
        /\ DOMAIN Append(q, o) = 1..(Len(q) + 1)
        /\ \A k \in 1..Len(q) : Append(q, o)[k] = q[k]
        /\ Append(q, o)[Len(q) + 1] = o
    OBVIOUS
  <2>3. \A k \in 1..(Len(q) + 1) : k \in 1..Len(q) \/ k = Len(q) + 1
    BY <2>2
  <2>4. \A k \in 1..Len(q) : k \in 1..(Len(q) + 1)
    BY <2>2
  <2> QED BY <2>1, <2>2, <2>3, <2>4
<1> QED BY <1>1, <1>2

-----------------------------------------------------------------------------
(* Operations run in the mailbox they were asked for in.                   *)

SelectQueued == \E i \in DOMAIN queue : queue[i].type = "SelectMailbox"

\* A SELECT that is being dispatched has not been executed yet.
SelectComing == op.type = "SelectMailbox" /\ stage \in {"start", "command"}

TypeInv ==
  /\ current \in Mailbox /\ uv \in 0..MaxValidity
  /\ selected \in Mailbox \union {NoMailbox}
  /\ validity \in [Mailbox -> Validity]
  /\ op.type = "SelectMailbox" => op.mailbox \in Mailbox
  /\ op.type = "SelectMailbox" /\ stage = "apply" => reply.validity \in 0..MaxValidity

\* Everything queued was asked for in the mailbox on display.
QueueInv ==
  /\ \E S : queue \in Seq(S)
  /\ \A i \in DOMAIN queue :
       /\ queue[i].view = current
       /\ queue[i].type = "SelectMailbox" => i = 1 /\ queue[i].mailbox = current

\* What the next operation of the queue will find selected, unless the queue
\* begins with a re-selection.
TargetInv ==
  ~SelectQueued => IF SelectComing THEN op.mailbox = current
                   ELSE selected \in {current, NoMailbox}

RunInv == TypeInv /\ QueueInv /\ TargetInv /\ RunsInItsMailbox

\* A body that has not been applied is that of a message of the selected
\* mailbox.
LoadReplyInv ==
  op.type = "LoadEmail" /\ stage = "apply" =>
    reply.body = NoKey \/ (selected # NoMailbox /\ reply.body = Found)

\* The kinds of steps, by what they do to the queue and the pump.
QueueStep ==
  \/ queue' = queue
  \/ \E type, u, m, append :
       /\ type # "SelectMailbox"
       /\ queue' = EnqueueOp(queue, ImapOperation(type, u, m, append))

Quiet ==
  /\ QueueStep
  /\ UNCHANGED <<current, uv, op, stage, reply, selected, validity>>

Proceed ==
  /\ UNCHANGED <<current, uv, queue, op, selected, validity>>
  /\ SelectComing' <=> SelectComing
  /\ op.type = "SelectMailbox" => stage # "apply" /\ stage' # "apply"
  /\ LoadReplyInv'

End ==
  /\ QueueStep /\ Finish /\ ~SelectComing
  /\ op.type = "SelectMailbox" /\ stage = "apply" => ~reply.ok
  /\ UNCHANGED <<current, uv, selected, validity>>

Reselect(m) ==
  /\ current' = m /\ queue' = <<SelectOp(m)>>
  /\ uv' = IF m # current THEN 0 ELSE uv
  /\ UNCHANGED <<op, stage, reply, selected, validity>>

\* Every action but Renew, PumpPop, SelectCommand and SelectApply is of one of
\* these kinds.
LEMMA QuietActions ==
  ASSUME \/ \E m \in Mailbox : ConfirmMove(m) \/ Deliver(m)
         \/ \E u \in Uid : ClickEmail(u)
         \/ \E type \in {"MarkRead", "ToggleFlag"} : ChangeFlag(type)
         \/ \E question \in {"delete", "move"} : Ask(question)
         \/ LoadMore \/ ConfirmDelete \/ Cancel \/ MailSent
         \/ \E k \in Message : Evict(k)
         \/ \E m \in Mailbox, u \in Uid : OtherExpunge(m, u)
  PROVE  Quiet
<1> USE DEF Quiet, QueueStep, Enqueues, pump, server
<1>1. ASSUME NEW m \in Mailbox, ConfirmMove(m) PROVE Quiet
  BY <1>1 DEF ConfirmMove
<1>2. ASSUME NEW m \in Mailbox, Deliver(m) PROVE Quiet
  BY <1>2 DEF Deliver, Change
<1>3. ASSUME NEW u \in Uid, ClickEmail(u) PROVE Quiet
  BY <1>3 DEF ClickEmail, ShowCached, AwaitFetch, FetchBody, ApplyBody
<1>4. ASSUME NEW type \in {"MarkRead", "ToggleFlag"}, ChangeFlag(type) PROVE Quiet
  BY <1>4 DEF ChangeFlag
<1>5. ASSUME NEW question \in {"delete", "move"}, Ask(question) PROVE Quiet
  BY <1>5 DEF Ask
<1>6. CASE LoadMore
  BY <1>6 DEF LoadMore
<1>7. CASE ConfirmDelete
  BY <1>7 DEF ConfirmDelete
<1>8. CASE Cancel
  BY <1>8 DEF Cancel
<1>9. CASE MailSent
  BY <1>9 DEF MailSent
<1>10. ASSUME NEW k \in Message, Evict(k) PROVE Quiet
  BY <1>10 DEF Evict
<1>11. ASSUME NEW m \in Mailbox, NEW u \in Uid, OtherExpunge(m, u) PROVE Quiet
  BY <1>11 DEF OtherExpunge, Change
<1> QED BY <1>1, <1>2, <1>3, <1>4, <1>5, <1>6, <1>7, <1>8, <1>9, <1>10, <1>11

\* enqueue of a re-selection: nothing else is left.
LEMMA EnqueueSelect ==
  ASSUME NEW q, NEW m
  PROVE  EnqueueOp(q, SelectOp(m)) = <<SelectOp(m)>>
<1>1. SelectOp(m).type = "SelectMailbox"
  BY DEF SelectOp
<1> HIDE DEF SelectOp
<1> QED BY <1>1 DEF EnqueueOp, Coalesced

LEMMA ReselectActions ==
  ASSUME TypeInv,
         (\E m \in Mailbox : SelectMailbox(m)) \/ HandleNotice
  PROVE  \E m \in Mailbox : Reselect(m)
<1>1. ASSUME NEW m \in Mailbox, SelectMailbox(m) PROVE Reselect(m)
  <2>1. queue' = <<SelectOp(m)>>
    BY <1>1, EnqueueSelect DEF SelectMailbox
  <2>2. UNCHANGED <<op, stage, reply, selected, validity>>
    BY <1>1 DEF SelectMailbox, pump, server
  <2>3. current' = m /\ uv' = IF m # current THEN 0 ELSE uv
    BY <1>1 DEF SelectMailbox, ValidityUpon
  <2> QED BY <2>1, <2>2, <2>3 DEF Reselect
<1>2. ASSUME HandleNotice PROVE Reselect(current)
  <2>1. queue' = <<SelectOp(current)>>
    BY <1>2, EnqueueSelect DEF HandleNotice
  <2>2. UNCHANGED <<current, uv, op, stage, reply, selected, validity>>
    BY <1>2 DEF HandleNotice, pump, server
  <2> QED BY <2>1, <2>2 DEF Reselect
<1>3. current \in Mailbox
  BY DEF TypeInv
<1> QED BY <1>1, <1>2, <1>3

LEMMA ProceedActions ==
  ASSUME SelectStart \/ PageRange \/ PageFetch \/ LoadCommand \/ DeleteCommand
         \/ MoveCommand
  PROVE  Proceed
<1> USE DEF Proceed, SelectComing, Running, server, LoadReplyInv, Found
<1>1. CASE SelectStart
  BY <1>1 DEF SelectStart
<1>2. CASE PageRange
  BY <1>2 DEF PageRange
<1>3. CASE PageFetch
  BY <1>3 DEF PageFetch
<1>4. CASE LoadCommand
  <2>1. UNCHANGED <<current, uv, queue, op, selected, validity>>
    BY <1>4 DEF LoadCommand
  <2>2. op.type = "LoadEmail" /\ stage' = "apply"
    BY <1>4 DEF LoadCommand
  <2>3. reply'.body = NoKey \/ (selected # NoMailbox /\ reply'.body = Found)
    <3> HIDE DEF Found
    <3>1. NoReply.body = NoKey /\ [NoReply EXCEPT !.ok = TRUE, !.body = Found].body = Found
      BY DEF NoReply
    <3> HIDE DEF NoReply
    <3> QED BY <1>4, <3>1 DEF LoadCommand, Present
  <2> QED BY <2>1, <2>2, <2>3
<1>5. CASE DeleteCommand
  BY <1>5 DEF DeleteCommand
<1>6. CASE MoveCommand
  BY <1>6 DEF MoveCommand
<1> QED BY <1>1, <1>2, <1>3, <1>4, <1>5, <1>6

LEMMA EndActions ==
  ASSUME SelectFailed \/ PageNothing \/ PageApply \/ LoadApply \/ FlagCommand
         \/ RemoveApply
  PROVE  End
<1> USE DEF End, QueueStep, SelectComing, Running, server
<1>1. CASE SelectFailed
  BY <1>1 DEF SelectFailed
<1>2. CASE PageNothing
  BY <1>2 DEF PageNothing
<1>3. CASE PageApply
  BY <1>3 DEF PageApply
<1>4. CASE LoadApply
  BY <1>4 DEF LoadApply, ApplyBody, Enqueues
<1>5. CASE FlagCommand
  BY <1>5 DEF FlagCommand
<1>6. CASE RemoveApply
  BY <1>6 DEF RemoveApply
<1> QED BY <1>1, <1>2, <1>3, <1>4, <1>5, <1>6

LEMMA QueueStepProperties ==
  ASSUME QueueInv, QueueStep, current' = current
  PROVE  QueueInv' /\ (SelectQueued' <=> SelectQueued)
<1>1. CASE queue' = queue
  BY <1>1 DEF QueueInv, SelectQueued
<1>2. ASSUME NEW type, NEW u, NEW m, NEW append, type # "SelectMailbox",
             queue' = EnqueueOp(queue, ImapOperation(type, u, m, append))
      PROVE  QueueInv' /\ (SelectQueued' <=> SelectQueued)
  <2> DEFINE o == ImapOperation(type, u, m, append)
  <2>1. o.type # "SelectMailbox" /\ o.view = current
    BY <1>2 DEF ImapOperation
  <2>2. PICK S : queue \in Seq(S)
    BY DEF QueueInv
  <2>3. \A i \in DOMAIN queue : queue[i].type = "SelectMailbox" => i = 1
    BY DEF QueueInv
  <2> HIDE DEF o
  <2>4. /\ queue' \in Seq(S \union {o})
        /\ \A k \in DOMAIN queue' :
              queue'[k] = o \/ \E i \in DOMAIN queue : queue'[k] = queue[i]
        /\ \A k \in DOMAIN queue' : queue'[k].type = "SelectMailbox" => k = 1
        /\ (\E k \in DOMAIN queue' : queue'[k].type = "SelectMailbox")
             <=> (\E i \in DOMAIN queue : queue[i].type = "SelectMailbox")
    BY <1>2, <2>1, <2>2, <2>3, EnqueueOpProperties DEF o
  <2>5. SelectQueued' <=> SelectQueued
    BY <2>4 DEF SelectQueued
  <2>6. ASSUME NEW k \in DOMAIN queue'
        PROVE  /\ queue'[k].view = current
               /\ queue'[k].type = "SelectMailbox" =>
                    k = 1 /\ queue'[k].mailbox = current
    BY <2>1, <2>4 DEF QueueInv
  <2> QED BY <2>4, <2>5, <2>6 DEF QueueInv
<1> QED BY <1>1, <1>2 DEF QueueStep

LEMMA ReselectProperties ==
  ASSUME NEW m \in Mailbox, Reselect(m)
  PROVE  QueueInv' /\ SelectQueued'
<1>1. /\ queue' = <<SelectOp(m)>> /\ queue' \in Seq({SelectOp(m)})
      /\ DOMAIN queue' = {1} /\ queue'[1] = SelectOp(m)
  BY DEF Reselect
<1>2. /\ SelectOp(m).type = "SelectMailbox" /\ SelectOp(m).view = m
      /\ SelectOp(m).mailbox = m
  BY DEF SelectOp
<1> QED BY <1>1, <1>2 DEF Reselect, QueueInv, SelectQueued

LEMMA PopProperties ==
  ASSUME QueueInv, PumpPop
  PROVE  /\ QueueInv' /\ ~SelectQueued'
         /\ op' = queue[1] /\ op'.view = current
         /\ op'.type = "SelectMailbox" => op'.mailbox = current /\ stage' = "start"
         /\ op'.type # "SelectMailbox" => ~SelectQueued
<1>1. PICK S : queue \in Seq(S)
  BY DEF QueueInv
<1>2. /\ queue # <<>> /\ op' = Head(queue) /\ queue' = Tail(queue)
      /\ current' = current /\ stage' = FirstStage(Head(queue).type)
  BY DEF PumpPop, QueueEmpty
<1>3. /\ Len(queue) \in Nat /\ Len(queue) >= 1 /\ DOMAIN queue = 1..Len(queue)
      /\ Head(queue) = queue[1] /\ queue' \in Seq(S)
      /\ DOMAIN queue' = 1..(Len(queue) - 1)
      /\ \A i \in 1..(Len(queue) - 1) : queue'[i] = queue[i + 1]
  BY <1>1, <1>2
<1>4. \A i \in 1..(Len(queue) - 1) : i + 1 \in 1..Len(queue) /\ i + 1 # 1
  BY <1>3
<1>5. 1 \in DOMAIN queue
  BY <1>3
<1> QED BY <1>2, <1>3, <1>4, <1>5 DEF QueueInv, SelectQueued, FirstStage

LEMMA RenewProperties ==
  ASSUME TypeInv, NEW m \in Mailbox, Renew(m)
  PROVE  /\ UNCHANGED <<current, uv, queue, op, stage, reply, selected>>
         /\ validity' \in [Mailbox -> Validity]
         /\ m # selected
         /\ \A b \in Mailbox : b # m => validity'[b] = validity[b]
<1>1. UNCHANGED <<current, uv, queue, op, stage, reply, selected>>
  BY DEF Renew, Change, pump
<1>2. validity[m] \in 1..MaxValidity /\ validity[m] < MaxValidity
  BY DEF Renew, TypeInv, Validity
<1>3. MaxValidity \in Nat
  BY ViewAssumption
<1>4. validity[m] + 1 \in Validity
  BY <1>2, <1>3 DEF Validity
<1>5. validity' = [validity EXCEPT ![m] = @ + 1] /\ m # selected
  BY DEF Renew
<1> QED BY <1>1, <1>4, <1>5 DEF TypeInv

LEMMA SelectCommandProperties ==
  ASSUME TypeInv, SelectCommand
  PROVE  /\ UNCHANGED <<current, uv, queue, op, validity>>
         /\ SelectComing /\ op.mailbox \in Mailbox /\ stage' = "apply"
         /\ selected' \in {op.mailbox, NoMailbox}
         /\ reply'.validity \in {0, validity[op.mailbox]}
         /\ reply'.validity \in 0..MaxValidity
         /\ faults' # "lost" =>
              faults # "lost" /\ selected' = IF reply'.ok THEN op.mailbox ELSE NoMailbox
<1>1. /\ UNCHANGED <<current, uv, queue, op, validity>>
      /\ SelectComing /\ stage' = "apply"
  BY DEF SelectCommand, Running, SelectComing
<1>2. op.mailbox \in Mailbox
  BY DEF SelectCommand, Running, TypeInv
<1>3. PICK ok \in BOOLEAN, done \in BOOLEAN :
        /\ Outcome(TRUE, ok, done)
        /\ selected' = IF done THEN op.mailbox ELSE NoMailbox
        /\ \E v \in {0, validity[op.mailbox]} :
             reply' = IF ok THEN [NoReply EXCEPT !.ok = TRUE, !.validity = v,
                                                 !.exists = Len(box[op.mailbox])]
                      ELSE NoReply
  BY DEF SelectCommand
<1>4. PICK v \in {0, validity[op.mailbox]} :
        reply' = IF ok THEN [NoReply EXCEPT !.ok = TRUE, !.validity = v,
                                            !.exists = Len(box[op.mailbox])]
                 ELSE NoReply
  BY <1>3
<1>5. (reply'.ok <=> ok) /\ reply'.validity \in {0, v}
  BY <1>4 DEF NoReply
<1>6. validity[op.mailbox] \in 0..MaxValidity /\ 0 \in 0..MaxValidity
  BY <1>2, ViewAssumption DEF TypeInv, Validity
<1>7. faults' # "lost" => faults # "lost" /\ (ok <=> done)
  BY <1>3 DEF Outcome, Refused
<1> QED BY <1>1, <1>2, <1>3, <1>4, <1>5, <1>6, <1>7

LEMMA SelectApplyProperties ==
  ASSUME SelectApply
  PROVE  /\ UNCHANGED <<current, queue, op, selected, validity, faults, reply>>
         /\ op.type = "SelectMailbox" /\ stage = "apply" /\ stage' = "range"
         /\ reply.ok /\ uv' = reply.validity /\ ~SelectComing /\ ~SelectComing'
BY DEF SelectApply, Running, server, SelectComing

LEMMA RunInvInit ==
  ASSUME Init
  PROVE  RunInv
<1>1. queue = <<SelectOp(Inbox)>> /\ queue \in Seq({SelectOp(Inbox)})
      /\ DOMAIN queue = {1} /\ queue[1] = SelectOp(Inbox) /\ current = Inbox
  BY DEF Init
<1>2. /\ SelectOp(Inbox).type = "SelectMailbox" /\ SelectOp(Inbox).view = Inbox
      /\ SelectOp(Inbox).mailbox = Inbox
  BY DEF SelectOp
<1>3. QueueInv /\ SelectQueued
  BY <1>1, <1>2 DEF QueueInv, SelectQueued
<1>4. op.type = "none"
  BY DEF Init, NoOp
<1>5. 0 \in 0..MaxValidity /\ 1 \in Validity /\ Inbox \in Mailbox
  BY ViewAssumption DEF Validity
<1>6. TypeInv
  BY <1>4, <1>5 DEF Init, TypeInv
<1> QED BY <1>3, <1>4, <1>6 DEF RunInv, TargetInv, RunsInItsMailbox

LEMMA RunInvStep ==
  ASSUME RunInv, [Next]_vars
  PROVE  RunInv'
<1> USE DEF RunInv
<1>1. CASE Quiet
  <2>1. QueueInv' /\ (SelectQueued' <=> SelectQueued)
    BY <1>1, QueueStepProperties DEF Quiet
  <2> QED
    BY <1>1, <2>1 DEF Quiet, TypeInv, TargetInv, SelectComing, RunsInItsMailbox
<1>2. CASE Proceed
  <2>1. QueueInv' /\ (SelectQueued' <=> SelectQueued)
    BY <1>2 DEF Proceed, QueueInv, SelectQueued
  <2> QED BY <1>2, <2>1 DEF Proceed, TypeInv, TargetInv, RunsInItsMailbox
<1>3. CASE End
  <2>1. QueueInv' /\ (SelectQueued' <=> SelectQueued)
    BY <1>3, QueueStepProperties DEF End
  <2>2. op'.type = "none" /\ ~SelectComing'
    BY <1>3 DEF End, Finish, NoOp, SelectComing
  <2> QED BY <1>3, <2>1, <2>2 DEF End, TypeInv, TargetInv, RunsInItsMailbox
<1>4. ASSUME NEW m \in Mailbox, Reselect(m) PROVE RunInv'
  <2>1. QueueInv' /\ SelectQueued'
    BY <1>4, ReselectProperties
  <2>2. TypeInv'
    BY <1>4, ViewAssumption DEF Reselect, TypeInv
  <2> QED BY <1>4, <2>1, <2>2 DEF Reselect, TargetInv, RunsInItsMailbox
<1>5. ASSUME NEW m \in Mailbox, Renew(m) PROVE RunInv'
  <2>1. /\ UNCHANGED <<current, uv, queue, op, stage, reply, selected>>
        /\ validity' \in [Mailbox -> Validity]
    BY <1>5, RenewProperties
  <2>2. TypeInv' /\ QueueInv' /\ RunsInItsMailbox'
    BY <2>1 DEF TypeInv, QueueInv, RunsInItsMailbox
  <2> QED BY <2>1, <2>2 DEF TargetInv, SelectQueued, SelectComing
<1>6. CASE PumpPop
  <2>1. /\ QueueInv' /\ ~SelectQueued'
        /\ op'.view = current
        /\ op'.type = "SelectMailbox" => op'.mailbox = current /\ stage' = "start"
        /\ op'.type # "SelectMailbox" => ~SelectQueued
    BY <1>6, PopProperties
  <2>2. op.type = "none" /\ UNCHANGED <<current, uv, selected, validity>>
    BY <1>6 DEF PumpPop, server, NoOp
  <2>3. TypeInv'
    BY <2>1, <2>2 DEF TypeInv
  <2>4. op'.type # "SelectMailbox" => selected \in {current, NoMailbox}
    BY <2>1, <2>2 DEF TargetInv, SelectComing
  <2> QED
    BY <2>1, <2>2, <2>3, <2>4 DEF TargetInv, SelectComing, RunsInItsMailbox
<1>7. CASE SelectCommand
  <2>1. /\ UNCHANGED <<current, uv, queue, op, validity>>
        /\ SelectComing /\ op.mailbox \in Mailbox /\ stage' = "apply"
        /\ selected' \in {op.mailbox, NoMailbox}
        /\ reply'.validity \in 0..MaxValidity
    BY <1>7, SelectCommandProperties
  <2>2. TypeInv' /\ QueueInv' /\ RunsInItsMailbox'
    BY <2>1 DEF TypeInv, QueueInv, RunsInItsMailbox, SelectComing
  <2> QED BY <2>1, <2>2 DEF TargetInv, SelectQueued, SelectComing
<1>8. CASE SelectApply
  <2>1. /\ UNCHANGED <<current, queue, op, selected, validity, reply>>
        /\ op.type = "SelectMailbox" /\ stage = "apply" /\ stage' = "range"
        /\ uv' = reply.validity /\ ~SelectComing /\ ~SelectComing'
    BY <1>8, SelectApplyProperties
  <2>2. TypeInv' /\ QueueInv' /\ RunsInItsMailbox'
    BY <2>1 DEF TypeInv, QueueInv, RunsInItsMailbox
  <2> QED BY <2>1, <2>2 DEF TargetInv, SelectQueued
<1>9. CASE UNCHANGED vars
  <2>1. Quiet
    BY <1>9 DEF Quiet, QueueStep, vars, pump, server
  <2> QED BY <1>1, <2>1
<1>10. CASE User
  <2>1. Quiet \/ \E m \in Mailbox : Reselect(m)
    BY <1>10, QuietActions, ReselectActions DEF User
  <2> QED BY <1>1, <1>4, <2>1
<1>11. CASE Background
  <2>1. Quiet \/ (\E m \in Mailbox : Reselect(m)) \/ (\E m \in Mailbox : Renew(m))
    BY <1>11, QuietActions, ReselectActions DEF Background
  <2> QED BY <1>1, <1>4, <1>5, <2>1
<1>12. CASE Dispatch
  <2>1. PumpPop \/ SelectCommand \/ SelectApply \/ Proceed \/ End
    BY <1>12, ProceedActions, EndActions DEF Dispatch
  <2> QED BY <1>2, <1>3, <1>6, <1>7, <1>8, <2>1
<1> QED BY <1>9, <1>10, <1>11, <1>12 DEF Next

\* Whatever the user clicks and the server refuses or leaves unanswered, an
\* operation that dispatchImapOperation runs meets the mailbox that was on
\* display when it was enqueued, or none.
THEOREM RunInvInductive == Spec => []RunInv
<1>1. Init => RunInv
  BY RunInvInit
<1>2. RunInv /\ [Next]_vars => RunInv'
  BY RunInvStep
<1> QED BY <1>1, <1>2, PTL DEF Spec

THEOREM RunsInItsMailboxTheorem == Spec => []RunsInItsMailbox
<1>1. RunInv => RunsInItsMailbox
  BY DEF RunInv
<1> QED BY <1>1, RunInvInductive, PTL

-----------------------------------------------------------------------------
(* Bodies and the keys they are cached and displayed under.                *)

\* What is current on the Qt thread is what the server has selected: an
\* operation other than a re-selection is being dispatched, or no re-selection
\* is queued or still has to be applied.
Settled ==
  \/ op.type \notin {"none", "SelectMailbox"}
  \/ ~SelectQueued /\ ~SelectComing /\ ~(op.type = "SelectMailbox" /\ stage = "apply")

UvInv == Settled /\ uv # 0 /\ selected # NoMailbox =>
           selected = current /\ uv = validity[selected]

\* The answer to a SELECT that has not been applied is about the selected
\* mailbox.
SelectReplyInv ==
  op.type = "SelectMailbox" /\ stage = "apply" =>
    IF reply.ok THEN selected = op.mailbox /\ reply.validity \in {0, validity[selected]}
    ELSE selected = NoMailbox

CacheInv  == /\ cache = [k \in Message |-> cache[k]]
             /\ \A k \in Message : cache[k] \in {NoKey, k}
ReaderInv == IsValid(shownKey) =>
               reader = shownKey /\ shownKey = KeyOf(shownKey.uid)

PumpInv == UvInv /\ SelectReplyInv /\ LoadReplyInv
BodyInv == faults # "lost" => PumpInv /\ CacheInv /\ ReaderInv

\* faults never gets better.
LEMMA FaultsGrow ==
  ASSUME [Next]_vars
  PROVE  faults = "lost" => faults' = "lost"
<1>1. User => UNCHANGED faults
  BY DEF User, SelectMailbox, ConfirmMove, ClickEmail, ChangeFlag, Ask, LoadMore,
         ConfirmDelete, Cancel, MailSent
<1>2. Background => UNCHANGED faults
  BY DEF Background, HandleNotice, Evict, Deliver, Renew, OtherExpunge, Change
<1>3. (\E p, x, y : Outcome(p, x, y)) \/ Refused => (faults = "lost" => faults' = "lost")
  BY DEF Outcome, Refused
<1>4. SelectCommand \/ DeleteCommand \/ MoveCommand =>
        (faults = "lost" => faults' = "lost")
  <2> HIDE DEF Outcome, Refused
  <2>1. SelectCommand => \E p, x, y : Outcome(p, x, y)
    BY DEF SelectCommand
  <2>2. DeleteCommand => \E p, x, y : Outcome(p, x, y)
    BY DEF DeleteCommand
  <2>3. MoveCommand => (\E p, x, y : Outcome(p, x, y)) \/ Refused \/ faults' = "lost"
    BY DEF MoveCommand
  <2> QED BY <2>1, <2>2, <2>3, <1>3
<1>5. PageFetch \/ LoadCommand => (faults = "lost" => faults' = "lost")
  BY <1>3 DEF PageFetch, LoadCommand
<1>6. \/ PumpPop \/ SelectStart \/ SelectFailed \/ SelectApply \/ PageRange
      \/ PageNothing \/ PageApply \/ LoadApply \/ FlagCommand \/ RemoveApply
      => UNCHANGED faults
  BY DEF PumpPop, SelectStart, SelectFailed, SelectApply, PageRange, PageNothing,
         PageApply, LoadApply, FlagCommand, RemoveApply
<1>7. Dispatch => (faults = "lost" => faults' = "lost")
  BY <1>4, <1>5, <1>6 DEF Dispatch
<1> QED BY <1>1, <1>2, <1>7 DEF Next, vars

LEMMA PumpInvStep ==
  ASSUME RunInv, PumpInv, [Next]_vars, faults' # "lost"
  PROVE  PumpInv'
<1> USE DEF RunInv, PumpInv
<1>1. CASE Quiet
  <2>1. SelectQueued' <=> SelectQueued
    BY <1>1, QueueStepProperties DEF Quiet
  <2>2. UvInv'
    BY <1>1, <2>1 DEF Quiet, UvInv, Settled, SelectComing
  <2> QED BY <1>1, <2>2 DEF Quiet, SelectReplyInv, LoadReplyInv, Found
<1>2. CASE Proceed
  <2>1. SelectQueued' <=> SelectQueued
    BY <1>2 DEF Proceed, SelectQueued
  <2>2. UvInv'
    BY <1>2, <2>1 DEF Proceed, UvInv, Settled
  <2> QED BY <1>2, <2>2 DEF Proceed, SelectReplyInv
<1>3. CASE End
  <2>1. SelectQueued' <=> SelectQueued
    BY <1>3, QueueStepProperties DEF End
  <2>2. op'.type = "none" /\ ~SelectComing'
    BY <1>3 DEF End, Finish, NoOp, SelectComing
  <2>3. UvInv'
    <3>1. CASE op.type = "SelectMailbox" /\ stage = "apply"
      BY <1>3, <3>1 DEF End, SelectReplyInv, UvInv
    <3>2. CASE ~(op.type = "SelectMailbox" /\ stage = "apply")
      <4>1. Settled' => Settled
        BY <1>3, <2>1, <2>2, <3>2 DEF Settled, End
      <4> QED BY <1>3, <4>1 DEF End, UvInv
    <3> QED BY <3>1, <3>2
  <2> QED BY <2>2, <2>3 DEF SelectReplyInv, LoadReplyInv
<1>4. ASSUME NEW m \in Mailbox, Reselect(m) PROVE PumpInv'
  <2>1. SelectQueued'
    BY <1>4, ReselectProperties
  <2>2. Settled' => op.type \notin {"none", "SelectMailbox"}
    BY <1>4, <2>1 DEF Settled, Reselect
  <2>3. UvInv'
    BY <1>4, <2>2 DEF Reselect, UvInv, Settled
  <2> QED BY <1>4, <2>3 DEF Reselect, SelectReplyInv, LoadReplyInv, Found
<1>5. ASSUME NEW m \in Mailbox, Renew(m) PROVE PumpInv'
  <2>1. /\ UNCHANGED <<current, uv, queue, op, stage, reply, selected>>
        /\ m # selected
        /\ \A b \in Mailbox : b # m => validity'[b] = validity[b]
    BY <1>5, RenewProperties
  <2>2. selected # NoMailbox => validity'[selected] = validity[selected]
    BY <2>1 DEF TypeInv
  <2>3. UvInv'
    BY <2>1, <2>2 DEF UvInv, Settled, SelectQueued, SelectComing
  <2>4. SelectReplyInv'
    <3>1. op.type = "SelectMailbox" => op.mailbox # NoMailbox
      BY MailboxAssumption DEF TypeInv
    <3> QED BY <2>1, <2>2, <3>1 DEF SelectReplyInv
  <2> QED BY <2>1, <2>2, <2>3, <2>4 DEF LoadReplyInv, Found
<1>6. CASE PumpPop
  <2>1. /\ op'.type = "SelectMailbox" => stage' = "start"
        /\ op'.type # "SelectMailbox" => ~SelectQueued
    BY <1>6, PopProperties
  <2>2. op.type = "none" /\ UNCHANGED <<current, uv, selected, validity>>
    BY <1>6 DEF PumpPop, server, NoOp
  <2>3. op'.type = "LoadEmail" => stage' = "command"
    BY <1>6 DEF PumpPop, FirstStage
  <2>4. Settled' => Settled
    BY <2>1, <2>2 DEF Settled, SelectComing
  <2> QED BY <2>1, <2>2, <2>3, <2>4 DEF UvInv, SelectReplyInv, LoadReplyInv
<1>7. CASE SelectCommand
  <2>1. /\ UNCHANGED <<uv, op, validity>>
        /\ SelectComing /\ stage' = "apply"
        /\ reply'.validity \in {0, validity[op.mailbox]}
        /\ selected' = IF reply'.ok THEN op.mailbox ELSE NoMailbox
    BY <1>7, SelectCommandProperties
  <2>2. op.type = "SelectMailbox" /\ ~Settled'
    BY <2>1 DEF Settled, SelectComing
  <2> QED BY <2>1, <2>2 DEF UvInv, SelectReplyInv, LoadReplyInv
<1>8. CASE SelectApply
  <2>1. /\ UNCHANGED <<current, queue, op, selected, validity, reply>>
        /\ op.type = "SelectMailbox" /\ stage = "apply" /\ stage' = "range"
        /\ reply.ok /\ uv' = reply.validity /\ ~SelectComing /\ ~SelectComing'
    BY <1>8, SelectApplyProperties
  <2>2. selected # NoMailbox /\ reply.validity \in {0, validity[selected]}
    BY <2>1, MailboxAssumption DEF SelectReplyInv, TypeInv
  <2>3. Settled' => selected = current
    BY <2>1, <2>2 DEF Settled, SelectQueued, TargetInv
  <2>4. UvInv'
    BY <2>1, <2>2, <2>3 DEF UvInv
  <2> QED BY <2>1, <2>4 DEF SelectReplyInv, LoadReplyInv
<1>9. CASE UNCHANGED vars
  <2>1. Quiet
    BY <1>9 DEF Quiet, QueueStep, vars, pump, server
  <2> QED BY <1>1, <2>1
<1>10. CASE User
  <2>1. Quiet \/ \E m \in Mailbox : Reselect(m)
    BY <1>10, QuietActions, ReselectActions DEF User
  <2> QED BY <1>1, <1>4, <2>1
<1>11. CASE Background
  <2>1. Quiet \/ (\E m \in Mailbox : Reselect(m)) \/ (\E m \in Mailbox : Renew(m))
    BY <1>11, QuietActions, ReselectActions DEF Background
  <2> QED BY <1>1, <1>4, <1>5, <2>1
<1>12. CASE Dispatch
  <2>1. PumpPop \/ SelectCommand \/ SelectApply \/ Proceed \/ End
    BY <1>12, ProceedActions, EndActions DEF Dispatch
  <2> QED BY <1>2, <1>3, <1>6, <1>7, <1>8, <2>1
<1> QED BY <1>9, <1>10, <1>11, <1>12 DEF Next

\* Caching and showing a body.
LEMMA ApplyBodyKeeps ==
  ASSUME CacheInv, ReaderInv, UNCHANGED <<current, uv>>,
         NEW u, NEW content, NEW pending, ApplyBody(content, u, pending),
         content # NoKey /\ IsValid(KeyOf(u)) => content = KeyOf(u)
  PROVE  CacheInv' /\ ReaderInv'
<1> DEFINE key == KeyOf(u)
<1>1. cache' = cache \/ (cache' = [cache EXCEPT ![key] = key])
  BY DEF ApplyBody
<1>2. CacheInv'
  <2>1. CASE cache' = cache
    BY <2>1 DEF CacheInv
  <2>2. CASE cache' = [cache EXCEPT ![key] = key]
    <3> HIDE DEF key
    <3>1. cache' = [k \in Message |-> IF k = key THEN key ELSE cache[k]]
      BY <2>2 DEF CacheInv
    <3> QED BY <3>1 DEF CacheInv
  <2> QED BY <1>1, <2>1, <2>2
<1>3. \/ UNCHANGED <<shownKey, reader>>
      \/ shownKey' = NoKey
      \/ shownKey' = key /\ reader' = content /\ content # NoKey
  BY DEF ApplyBody, ResetReader
<1>4. ~IsValid(NoKey)
  BY DEF NoKey, IsValid
<1>5. ReaderInv'
  <2>1. CASE UNCHANGED <<shownKey, reader>>
    BY <2>1 DEF ReaderInv, KeyOf, IsValid
  <2>2. CASE shownKey' = NoKey
    BY <1>4, <2>2 DEF ReaderInv, IsValid
  <2>3. CASE shownKey' = key /\ reader' = content /\ content # NoKey
    BY <2>3 DEF ReaderInv, IsValid, KeyOf
  <2> QED BY <1>3, <2>1, <2>2, <2>3
<1> QED BY <1>2, <1>5

\* The actions that leave the bodies, the reader and the key's parts alone.
BodiesKept == UNCHANGED <<current, uv, cache, shownKey, reader>>

LEMMA BodiesKeptActions ==
  ASSUME \/ \E m \in Mailbox : ConfirmMove(m) \/ Deliver(m) \/ Renew(m)
         \/ \E type \in {"MarkRead", "ToggleFlag"} : ChangeFlag(type)
         \/ \E question \in {"delete", "move"} : Ask(question)
         \/ \E m \in Mailbox, u \in Uid : OtherExpunge(m, u)
         \/ LoadMore \/ ConfirmDelete \/ Cancel \/ MailSent \/ HandleNotice
         \/ PumpPop \/ SelectStart \/ SelectCommand
         \/ PageRange \/ PageNothing \/ PageFetch \/ PageApply
         \/ LoadCommand \/ FlagCommand \/ DeleteCommand \/ MoveCommand
         \/ UNCHANGED vars
  PROVE  BodiesKept
<1> USE DEF BodiesKept, shown, bodies
<1>1. ASSUME NEW m \in Mailbox, ConfirmMove(m) \/ Deliver(m) \/ Renew(m)
      PROVE  BodiesKept
  BY <1>1 DEF ConfirmMove, Deliver, Renew, Change
<1>2. ASSUME NEW type \in {"MarkRead", "ToggleFlag"}, ChangeFlag(type) PROVE BodiesKept
  BY <1>2 DEF ChangeFlag
<1>3. ASSUME NEW question \in {"delete", "move"}, Ask(question) PROVE BodiesKept
  BY <1>3 DEF Ask
<1>4. ASSUME NEW m \in Mailbox, NEW u \in Uid, OtherExpunge(m, u) PROVE BodiesKept
  BY <1>4 DEF OtherExpunge, Change
<1>5. CASE LoadMore \/ ConfirmDelete \/ Cancel \/ MailSent \/ HandleNotice
  BY <1>5 DEF LoadMore, ConfirmDelete, Cancel, MailSent, HandleNotice
<1>6. CASE PumpPop \/ SelectStart \/ SelectCommand
  BY <1>6 DEF PumpPop, SelectStart, SelectCommand
<1>7. CASE PageRange \/ PageNothing \/ PageFetch \/ PageApply
  BY <1>7 DEF PageRange, PageNothing, PageFetch, PageApply
<1>8. CASE LoadCommand \/ FlagCommand \/ DeleteCommand \/ MoveCommand
  BY <1>8 DEF LoadCommand, FlagCommand, DeleteCommand, MoveCommand
<1>9. CASE UNCHANGED vars
  BY <1>9 DEF vars
<1> QED BY <1>1, <1>2, <1>3, <1>4, <1>5, <1>6, <1>7, <1>8, <1>9

\* Resetting the reader leaves nothing to be said of what it shows.
LEMMA ResetReaderProperties ==
  ASSUME NEW more, ResetReader(more)
  PROVE  ReaderInv'
<1>1. shownKey' = NoKey
  BY DEF ResetReader
<1> QED BY <1>1 DEF ReaderInv, IsValid, NoKey

\* Entries are dropped, or none is touched.
CacheDrops ==
  \/ cache' = cache
  \/ \E k : cache' = [cache EXCEPT ![k] = NoKey]
  \/ \E m : cache' = [k \in Message |-> IF k.mailbox = m THEN NoKey ELSE cache[k]]

LEMMA CacheDropsProperties ==
  ASSUME CacheInv, CacheDrops
  PROVE  CacheInv'
<1>1. CASE cache' = cache
  BY <1>1 DEF CacheInv
<1>2. ASSUME NEW k, cache' = [cache EXCEPT ![k] = NoKey] PROVE CacheInv'
  <2>1. cache' = [j \in Message |-> IF j = k THEN NoKey ELSE cache[j]]
    BY <1>2 DEF CacheInv
  <2> QED BY <2>1 DEF CacheInv
<1>3. ASSUME NEW m,
             cache' = [k \in Message |-> IF k.mailbox = m THEN NoKey ELSE cache[k]]
      PROVE  CacheInv'
  BY <1>3 DEF CacheInv
<1> QED BY <1>1, <1>2, <1>3 DEF CacheDrops

LEMMA BodiesStep ==
  ASSUME RunInv, PumpInv, CacheInv, ReaderInv, [Next]_vars
  PROVE  CacheInv' /\ ReaderInv'
<1>1. CASE BodiesKept
  BY <1>1 DEF BodiesKept, CacheInv, ReaderInv, KeyOf
<1>2. ASSUME NEW m \in Mailbox, SelectMailbox(m) PROVE CacheInv' /\ ReaderInv'
  BY <1>2, ResetReaderProperties DEF SelectMailbox, CacheInv
<1>3. ASSUME NEW u \in Uid, ClickEmail(u) PROVE CacheInv' /\ ReaderInv'
  <2>1. UNCHANGED <<current, uv>>
    BY <1>3 DEF ClickEmail
  <2>2. CASE UNCHANGED <<shown, bodies>>
    <3>1. BodiesKept
      BY <2>1, <2>2 DEF BodiesKept, shown, bodies
    <3> QED BY <1>1, <3>1
  <2>3. CASE ShowCached(u)
    <3>1. IsValid(KeyOf(u)) /\ KeyOf(u) \in Message
      <4>1. IsValid(KeyOf(u)) /\ u \in Uid
        BY <2>3 DEF ShowCached
      <4>2. current \in Mailbox /\ uv \in Validity
        BY <4>1, ViewAssumption DEF RunInv, TypeInv, Validity, IsValid, KeyOf
      <4> QED BY <4>1, <4>2 DEF KeyOf, Message
    <3>2. cache[KeyOf(u)] = KeyOf(u)
      BY <2>3, <3>1 DEF ShowCached, CacheInv
    <3>3. ApplyBody(cache[KeyOf(u)], u, KeyOf(u))
      BY <2>3 DEF ShowCached
    <3> QED BY <2>1, <3>2, <3>3, ApplyBodyKeeps
  <2>4. CASE AwaitFetch(u)
    <3>1. BodiesKept
      BY <2>1, <2>4 DEF AwaitFetch, BodiesKept, bodies
    <3> QED BY <1>1, <3>1
  <2>5. CASE FetchBody(u)
    <3>1. shownKey' = NoKey /\ cache' = cache
      BY <2>5 DEF FetchBody
    <3> QED BY <3>1 DEF CacheInv, ReaderInv, IsValid, NoKey
  <2> QED BY <1>3, <2>2, <2>3, <2>4, <2>5 DEF ClickEmail
<1>4. ASSUME NEW k \in Message, Evict(k) PROVE CacheInv' /\ ReaderInv'
  <2>1. CacheDrops /\ UNCHANGED <<current, uv, shownKey, reader>>
    BY <1>4 DEF Evict, CacheDrops, shown
  <2> QED BY <2>1, CacheDropsProperties DEF ReaderInv, KeyOf
<1>5. CASE SelectFailed
  BY <1>5, ResetReaderProperties DEF SelectFailed, CacheInv
<1>6. CASE SelectApply
  <2>1. CacheDrops /\ ResetReader({})
    BY <1>6 DEF SelectApply, CacheDrops
  <2> QED BY <2>1, CacheDropsProperties, ResetReaderProperties
<1>7. CASE LoadApply
  <2>1. /\ op.type = "LoadEmail" /\ stage = "apply"
        /\ ApplyBody(reply.body, op.uid, pendingKey) /\ UNCHANGED <<current, uv>>
    BY <1>7 DEF LoadApply, Running
  <2>2. ASSUME reply.body # NoKey, IsValid(KeyOf(op.uid))
        PROVE  reply.body = KeyOf(op.uid)
    <3>1. selected # NoMailbox /\ reply.body = Found
      BY <2>1, <2>2 DEF PumpInv, LoadReplyInv
    <3>2. uv # 0 /\ Settled
      BY <2>1, <2>2 DEF IsValid, KeyOf, Settled
    <3>3. selected = current /\ uv = validity[selected]
      BY <3>1, <3>2 DEF PumpInv, UvInv
    <3> QED BY <3>1, <3>3 DEF Found, KeyOf
  <2> QED BY <2>1, <2>2, ApplyBodyKeeps
<1>8. CASE RemoveApply
  <2>1. CASE reply.ok
    <3>1. CacheDrops /\ ResetReader({})
      BY <1>8, <2>1 DEF RemoveApply, CacheDrops
    <3> QED BY <3>1, CacheDropsProperties, ResetReaderProperties
  <2>2. CASE ~reply.ok
    <3>1. BodiesKept
      BY <1>8, <2>2 DEF RemoveApply, BodiesKept
    <3> QED BY <1>1, <3>1
  <2> QED BY <2>1, <2>2
<1>9. CASE User
  <2>1. \/ \E m \in Mailbox : SelectMailbox(m)
        \/ \E u \in Uid : ClickEmail(u)
        \/ BodiesKept
    BY <1>9, BodiesKeptActions DEF User
  <2> QED BY <1>1, <1>2, <1>3, <2>1
<1>10. CASE Background
  <2>1. (\E k \in Message : Evict(k)) \/ BodiesKept
    BY <1>10, BodiesKeptActions DEF Background
  <2> QED BY <1>1, <1>4, <2>1
<1>11. CASE Dispatch
  <2>1. SelectFailed \/ SelectApply \/ LoadApply \/ RemoveApply \/ BodiesKept
    BY <1>11, BodiesKeptActions DEF Dispatch
  <2> QED BY <1>1, <1>5, <1>6, <1>7, <1>8, <2>1
<1>12. CASE UNCHANGED vars
  <2>1. BodiesKept
    BY <1>12, BodiesKeptActions
  <2> QED BY <1>1, <2>1
<1> QED BY <1>9, <1>10, <1>11, <1>12 DEF Next

LEMMA BodyInvInit ==
  ASSUME Init
  PROVE  BodyInv
<1>1. op.type = "none" /\ uv = 0
  BY DEF Init, NoOp
<1>2. PumpInv
  BY <1>1 DEF PumpInv, UvInv, SelectReplyInv, LoadReplyInv
<1>3. CacheInv
  BY DEF Init, CacheInv
<1>4. ReaderInv
  BY DEF Init, ReaderInv, IsValid, NoKey
<1> QED BY <1>2, <1>3, <1>4 DEF BodyInv

\* While no answer has been lost, what the server has selected and what is
\* current agree whenever a body comes in.
THEOREM BodyInvInductive == Spec => []BodyInv
<1>1. Init => BodyInv
  BY BodyInvInit
<1>2. RunInv /\ BodyInv /\ [Next]_vars => BodyInv'
  BY FaultsGrow, PumpInvStep, BodiesStep DEF BodyInv
<1> QED BY <1>1, <1>2, RunInvInductive, PTL DEF Spec

\* A cached body is that of the message its key names, for any number of
\* mailboxes, messages and clicks and whatever the server refuses, as long as
\* the answer of no executed command is lost.
THEOREM CachedBodyTheorem == Spec => []CachedBodyIsItsKeys
<1>1. BodyInv => CachedBodyIsItsKeys
  BY DEF BodyInv, CacheInv, CachedBodyIsItsKeys
<1> QED BY <1>1, BodyInvInductive, PTL

\* Under the same condition the reader shows the message of the displayed key,
\* which is a message of the mailbox on display.
THEOREM ReaderTheorem == Spec => []ReaderMatchesKey
<1>1. BodyInv => ReaderMatchesKey
  BY DEF BodyInv, ReaderInv, ReaderMatchesKey
<1> QED BY <1>1, BodyInvInductive, PTL

-----------------------------------------------------------------------------
(* Types.                                                                  *)

Rows    == Message \union {NoKey}
Items   == [Uid -> Rows]
Entries == [valid : BOOLEAN, emails : Seq(Message), count : Nat]
Lists   == [mailbox : Mailbox, items : Items, chosen : Rows, count : Nat,
            oldest : Nat, more : BOOLEAN, cache : [Mailbox -> Entries]]
Replies == [ok : BOOLEAN, validity : 0..MaxValidity, exists : Nat, body : Rows,
            page : Seq(Message), first : Nat, last : Nat]
Notices == [kind : {"EXISTS", "EXPUNGE"}, count : Nat]

\* What goes to another mailbox names it.
Ops == {o \in Operation : o.type \in {"SelectMailbox", "Move"} => o.mailbox \in Mailbox}

WindowTypes ==
  /\ current \in Mailbox /\ uv \in 0..MaxValidity
  /\ pendingKey \in Key /\ shownKey \in Key /\ reader \in Rows
  /\ cache \in [Message -> Rows] /\ reserved \subseteq Message
  /\ dialog \in {"none", "delete", "move"}
ListTypes   == list \in Lists /\ list.mailbox = current /\ notices \in Seq(Notices)
QueueTypes  == queue \in Seq(Ops) /\ op \in Ops \union {NoOp}
ReplyTypes  == reply \in Replies /\ (stage = "fetch" => reply.first # 0)
ServerTypes ==
  /\ selected \in Mailbox \union {NoMailbox} /\ validity \in [Mailbox -> Validity]
  /\ box \in [Mailbox -> Seq(Uid)] /\ uidnext \in [Mailbox -> 1..(MaxUid + 1)]
  /\ missed \subseteq Message /\ faults \in {"none", "refused", "lost"}

AllTypes == WindowTypes /\ ListTypes /\ QueueTypes /\ ReplyTypes /\ ServerTypes

\* A set of numbers has a greatest.
LEMMA LastOf ==
  ASSUME NEW n \in Nat, NEW I \in SUBSET (1..n), I # {}
  PROVE  \E i \in I : \A j \in I : j <= i
<1> DEFINE R == {p \in Nat \X Nat : p[1] < p[2]}
           T == {n - i : i \in I}
<1>1. IsWellFoundedOn(R, Nat)
  BY NatLessThanWellFounded DEF OpToRel
<1>2. T \in SUBSET Nat /\ T # {}
  <2>1. \A i \in I : n - i \in Nat
    OBVIOUS
  <2>2. PICK i : i \in I
    OBVIOUS
  <2>3. n - i \in T
    BY <2>2
  <2> QED BY <2>1, <2>3
<1>3. \E x \in T : \A y \in T : <<y, x>> \notin R
  <2> HIDE DEF R, T
  <2> QED BY <1>1, <1>2, WFMin, Zenon
<1>4. PICK i \in I : \A y \in T : <<y, n - i>> \notin R
  BY <1>3
<1>5. ASSUME NEW j \in I PROVE j <= i
  <2>1. n - j \in T /\ n - i \in Nat /\ n - j \in Nat
    BY <1>2
  <2>2. <<n - j, n - i>> \notin R
    BY <1>4, <2>1
  <2>3. ~(n - j < n - i)
    BY <2>1, <2>2
  <2> QED BY <2>3
<1> QED BY <1>5

\* The window's list of emails.
LEMMA RowsTypes ==
  ASSUME NEW items \in Items, NEW emails \in Seq(Message)
  PROVE  /\ AddRows(items, emails) \in Items
         /\ \A u \in Uid :
              \/ AddRows(items, emails)[u] = items[u]
              \/ \E i \in DOMAIN emails : AddRows(items, emails)[u] = emails[i] /\ emails[i].uid = u
<1> SUFFICES ASSUME NEW u \in Uid
             PROVE  /\ AddRows(items, emails)[u] \in Rows
                    /\ \/ AddRows(items, emails)[u] = items[u]
                       \/ \E i \in DOMAIN emails : AddRows(items, emails)[u] = emails[i] /\ emails[i].uid = u
  BY DEF AddRows, Items
<1> DEFINE I == {i \in DOMAIN emails : emails[i].uid = u}
<1>1. CASE I = {}
  <2>1. AddRows(items, emails)[u] = items[u]
    BY <1>1 DEF AddRows
  <2> QED BY <2>1 DEF Items
<1>2. CASE I # {}
  <2>1. DOMAIN emails = 1..Len(emails) /\ Len(emails) \in Nat /\ I \subseteq 1..Len(emails)
    OBVIOUS
  <2>2. IsFiniteSet(1..Len(emails))
    BY <2>1, FS_Interval
  <2>3. PICK i \in I : \A j \in I : j <= i
    BY <1>2, <2>1, LastOf
  <2> DEFINE k == CHOOSE n \in DOMAIN emails :
                    /\ emails[n].uid = u
                    /\ \A j \in DOMAIN emails : emails[j].uid = u => j <= n
  <2>4. k \in DOMAIN emails /\ emails[k].uid = u
    BY <2>3
  <2>5. AddRows(items, emails)[u] = emails[k]
    BY <1>2 DEF AddRows
  <2> HIDE DEF k
  <2> QED BY <2>4, <2>5 DEF Rows
<1> QED BY <1>1, <1>2

\* A listing turned round is of the same emails.
LEMMA BackwardsTypes ==
  ASSUME NEW s \in Seq(Message)
  PROVE  /\ Backwards(s) \in Seq(Message)
         /\ \A i \in DOMAIN Backwards(s) : \E j \in DOMAIN s : Backwards(s)[i] = s[j]
<1>1. Len(s) \in Nat /\ DOMAIN s = 1..Len(s) /\ \A i \in 1..Len(s) : s[i] \in Message
  OBVIOUS
<1>2. \A i \in 1..Len(s) : Len(s) + 1 - i \in 1..Len(s)
  BY <1>1
<1> QED BY <1>1, <1>2 DEF Backwards

\* erase keeps the emails with another UID.
LEMMA WithoutUidTypes ==
  ASSUME NEW s \in Seq(Message), NEW u
  PROVE  WithoutUid(s, u) \in Seq(Message)
<1> DEFINE kept == {i \in DOMAIN s : s[i].uid # u}
           n    == Cardinality(kept)
           uids == [i \in DOMAIN s |-> s[i].uid]
           at(k) == CHOOSE i \in kept : Cardinality({j \in kept : j <= i}) = k
<1>1. Len(s) \in Nat /\ DOMAIN s = 1..Len(s) /\ \A i \in 1..Len(s) : s[i] \in Message
  OBVIOUS
<1>2. PICK S : S = {s[i].uid : i \in DOMAIN s}
  OBVIOUS
<1>3. uids \in Seq(S) /\ DOMAIN uids = DOMAIN s /\ \A i \in DOMAIN s : uids[i] = s[i].uid
  BY <1>1, <1>2
<1>4. Kept(uids, u) = kept
  BY <1>3 DEF Kept
<1>5. n \in Nat
  <2> HIDE DEF kept, uids
  <2> QED BY <1>3, <1>4, RankProperties
<1>6. ASSUME NEW k \in 1..n PROVE s[at(k)] \in Message
  <2>1. PICK i : i \in Kept(uids, u) /\ Rank(uids, u, i) = k
    <3> HIDE DEF kept, uids
    <3> QED BY <1>3, <1>4, KeptPositionProperties
  <2>2. i \in kept
    BY <2>1, <1>4
  <2>3. {j \in kept : j <= i} = {j \in 1..i : uids[j] # u}
    BY <2>2, <1>1
  <2>4. Cardinality({j \in kept : j <= i}) = k
    BY <2>1, <2>3 DEF Rank
  <2>5. at(k) \in kept
    BY <2>2, <2>4
  <2> HIDE DEF at
  <2> QED BY <2>5, <1>1
<1>7. WithoutUid(s, u) = [k \in 1..n |-> s[at(k)]]
  BY DEF WithoutUid
<1> HIDE DEF at, n
<1> QED BY <1>5, <1>6, <1>7

LEMMA OneLessType == ASSUME NEW n \in Nat PROVE OneLess(n) \in Nat
BY DEF OneLess

\* The "Load More" button changes nothing else of the list.
LEMMA MoreTypes ==
  ASSUME NEW l \in Lists
  PROVE  /\ UpdateLoadMore(l) \in Lists /\ UpdateLoadMore(l).mailbox = l.mailbox
         /\ UpdateLoadMore(l).items = l.items
<1> DEFINE more == l.oldest > 1
<1>1. l.oldest \in Nat
  BY DEF Lists
<1>2. more \in BOOLEAN
  BY <1>1
<1>3. UpdateLoadMore(l) = [l EXCEPT !.more = more]
  BY DEF UpdateLoadMore
<1> HIDE DEF more
<1> QED BY <1>2, <1>3 DEF Lists

LEMMA ClearTypes ==
  ASSUME NEW l \in Lists
  PROVE  /\ ClearEmailList(l) \in Lists /\ ClearEmailList(l).mailbox = l.mailbox
         /\ ClearEmailList(l).items = NoRows
<1>1. NoRows \in Items /\ NoKey \in Rows
  BY DEF NoRows, Items, Rows
<1> HIDE DEF NoRows, NoKey
<1> QED BY <1>1 DEF ClearEmailList, Lists

LEMMA SetTypes ==
  ASSUME NEW l \in Lists, NEW m \in Mailbox, NEW n \in Nat, NEW row \in Rows
  PROVE  /\ SetCurrentMailbox(l, m) \in Lists /\ SetCurrentMailbox(l, m).mailbox = m
         /\ SetMessageCount(l, n) \in Lists /\ SetMessageCount(l, n).mailbox = l.mailbox
         /\ SetMessageCount(l, n).items = l.items
         /\ Select(l, row) \in Lists /\ Select(l, row).mailbox = l.mailbox
         /\ Select(l, row).items = l.items
<1>1. SetCurrentMailbox(l, m) \in Lists /\ SetCurrentMailbox(l, m).mailbox = m
  BY DEF SetCurrentMailbox, Lists
<1>2. SetMessageCount(l, n) \in Lists /\ SetMessageCount(l, n).mailbox = l.mailbox /\ SetMessageCount(l, n).items = l.items
  BY DEF SetMessageCount, Lists
<1>3. Select(l, row) \in Lists /\ Select(l, row).mailbox = l.mailbox /\ Select(l, row).items = l.items
  BY DEF Select, Lists
<1> QED BY <1>1, <1>2, <1>3

LEMMA NoEntryType == NoEntry \in Entries
<1>1. <<>> \in Seq(Message)
  OBVIOUS
<1> QED BY <1>1 DEF NoEntry, Entries

LEMMA NewListTypes ==
  ASSUME NEW m \in Mailbox
  PROVE  NewList(m) \in Lists /\ NewList(m).mailbox = m /\ NewList(m).items = NoRows
<1>1. NoRows \in Items /\ NoKey \in Rows
  BY DEF NoRows, Items, Rows
<1>2. NoEntry \in Entries
  BY NoEntryType
<1> HIDE DEF NoRows, NoKey, NoEntry
<1> QED BY <1>1, <1>2 DEF NewList, Lists

LEMMA InvalidateTypes ==
  ASSUME NEW l \in Lists, NEW m \in Mailbox
  PROVE  /\ InvalidateMailboxCache(l, m) \in Lists
         /\ InvalidateMailboxCache(l, m).mailbox = l.mailbox
         /\ InvalidateMailboxCache(l, m).items = l.items
<1>1. NoEntry \in Entries
  BY NoEntryType
<1> HIDE DEF NoEntry
<1> QED BY <1>1 DEF InvalidateMailboxCache, Lists

LEMMA RemoveTypes ==
  ASSUME NEW l \in Lists, NEW u
  PROVE  /\ RemoveEmail(l, u) \in Lists /\ RemoveEmail(l, u).mailbox = l.mailbox
         /\ RemoveEmail(l, u).items = [l.items EXCEPT ![u] = NoKey]
<1> DEFINE entry == l.cache[l.mailbox]
           new   == [entry EXCEPT !.emails = WithoutUid(@, u), !.count = OneLess(@)]
           items == [l.items EXCEPT ![u] = NoKey]
           row   == IF l.chosen.uid = u THEN NoKey ELSE l.chosen
           left  == [l EXCEPT !.items = items, !.cache[l.mailbox] = new, !.count = OneLess(@), !.chosen = row]
<1>1. /\ l.mailbox \in Mailbox /\ l.items \in Items /\ l.chosen \in Rows /\ l.count \in Nat
      /\ l.cache \in [Mailbox -> Entries]
  BY DEF Lists
<1>2. entry \in Entries
  BY <1>1
<1>3. new \in Entries
  <2> HIDE DEF entry
  <2>1. WithoutUid(entry.emails, u) \in Seq(Message) /\ OneLess(entry.count) \in Nat
    BY <1>2, WithoutUidTypes, OneLessType DEF Entries
  <2> QED BY <1>2, <2>1 DEF Entries
<1>4. items \in Items
  BY <1>1 DEF Items, Rows
<1>5. row \in Rows
  BY <1>1 DEF Rows
<1>6. OneLess(l.count) \in Nat
  BY <1>1, OneLessType
<1>7. RemoveEmail(l, u) = UpdateLoadMore(left)
  BY DEF RemoveEmail
<1> HIDE DEF entry, new, items, row
<1>8. left \in Lists /\ left.mailbox = l.mailbox /\ left.items = items
  BY <1>3, <1>4, <1>5, <1>6 DEF Lists
<1> HIDE DEF left
<1> QED BY <1>7, <1>8, MoreTypes DEF items

\* A remembered listing files its rows under their UIDs.
LEMMA DisplayTypes ==
  ASSUME NEW l \in Lists, NEW m \in Mailbox
  PROVE  /\ DisplayCachedEmails(l, m) \in Lists /\ DisplayCachedEmails(l, m).mailbox = m
         /\ \A u \in Uid : DisplayCachedEmails(l, m).items[u] = NoKey \/ DisplayCachedEmails(l, m).items[u].uid = u
<1> DEFINE entry  == l.cache[m]
           loaded == Len(entry.emails)
           items  == AddRows(NoRows, Backwards(entry.emails))
           oldest == IF entry.count > loaded THEN entry.count - loaded + 1 ELSE 1
           c      == ClearEmailList(l)
           d      == [c EXCEPT !.mailbox = m, !.items = items, !.count = entry.count, !.oldest = oldest]
<1>1. entry \in Entries
  BY DEF Lists
<1>2. entry.emails \in Seq(Message) /\ entry.count \in Nat /\ loaded \in Nat
  BY <1>1 DEF Entries
<1>3. items \in Items /\ \A u \in Uid : items[u] = NoKey \/ items[u].uid = u
  <2>1. NoRows \in Items /\ \A u \in Uid : NoRows[u] = NoKey
    BY DEF NoRows, Items, Rows
  <2> HIDE DEF NoRows, NoKey
  <2>2. Backwards(entry.emails) \in Seq(Message)
    BY <1>2, BackwardsTypes
  <2>3. PICK back \in Seq(Message) : back = Backwards(entry.emails)
    BY <2>2
  <2>4. /\ AddRows(NoRows, back) \in Items
        /\ \A u \in Uid : \/ AddRows(NoRows, back)[u] = NoRows[u]
                          \/ \E i \in DOMAIN back : AddRows(NoRows, back)[u] = back[i] /\ back[i].uid = u
    BY <2>1, RowsTypes
  <2> QED BY <2>1, <2>3, <2>4
<1>4. oldest \in Nat
  BY <1>2
<1>5. c \in Lists
  BY ClearTypes
<1>6. DisplayCachedEmails(l, m) = UpdateLoadMore(d)
  BY DEF DisplayCachedEmails
<1> HIDE DEF entry, items, oldest, c
<1>7. d \in Lists /\ d.mailbox = m /\ d.items = items
  BY <1>2, <1>3, <1>4, <1>5 DEF Lists
<1> HIDE DEF d
<1> QED BY <1>3, <1>6, <1>7, MoreTypes

\* A fetched page, with the rows it is added to or instead of them.
LEMMA ApplyTypes ==
  ASSUME NEW l \in Lists, NEW emails \in Seq(Message), NEW append \in BOOLEAN,
         NEW n \in Nat, NEW startSeq \in Nat
  PROVE  /\ ApplyFetchResults(l, emails, append, n, startSeq) \in Lists
         /\ ApplyFetchResults(l, emails, append, n, startSeq).mailbox = l.mailbox
         /\ ApplyFetchResults(l, emails, append, n, startSeq).items =
              AddRows(IF append THEN l.items ELSE NoRows, IF append THEN Backwards(emails) ELSE emails)
<1> DEFINE kept   == IF append THEN l.cache[l.mailbox].emails ELSE <<>>
           rows   == IF append THEN l ELSE ClearEmailList(l)
           adding == IF append THEN Backwards(emails) ELSE emails
           entry  == [valid |-> TRUE, emails |-> kept \o Backwards(emails), count |-> n]
           items  == AddRows(rows.items, adding)
           a      == [rows EXCEPT !.cache[l.mailbox] = entry, !.items = items, !.count = n, !.oldest = startSeq]
<1>1. /\ l.mailbox \in Mailbox /\ l.items \in Items /\ l.cache \in [Mailbox -> Entries]
  BY DEF Lists
<1>2. l.cache[l.mailbox] \in Entries /\ l.cache[l.mailbox].emails \in Seq(Message)
  BY <1>1 DEF Entries
<1>3. kept \in Seq(Message)
  BY <1>2
<1>4. Backwards(emails) \in Seq(Message) /\ adding \in Seq(Message)
  BY BackwardsTypes
<1>5. entry \in Entries
  <2> HIDE DEF kept
  <2>1. kept \o Backwards(emails) \in Seq(Message)
    BY <1>3, <1>4
  <2> QED BY <2>1 DEF Entries
<1>6. rows \in Lists /\ rows.mailbox = l.mailbox /\ rows.items = IF append THEN l.items ELSE NoRows
  BY ClearTypes
<1>7. rows.items \in Items
  BY <1>6 DEF Lists
<1>8. items \in Items
  <2> HIDE DEF rows, adding
  <2> QED BY <1>4, <1>7, RowsTypes
<1>9. ApplyFetchResults(l, emails, append, n, startSeq) = UpdateLoadMore(a)
  BY DEF ApplyFetchResults
<1> HIDE DEF entry, items, rows, adding
<1>10. a \in Lists /\ a.mailbox = l.mailbox /\ a.items = items
  BY <1>1, <1>5, <1>6, <1>8 DEF Lists
<1> HIDE DEF a
<1> QED BY <1>6, <1>9, <1>10, MoreTypes DEF items, adding

-----------------------------------------------------------------------------
(* Every step keeps the types.                                             *)

LEMMA RowProperties ==
  /\ NoKey \in Key /\ NoKey \in Rows /\ Message \subseteq Key /\ Rows \subseteq Key
  /\ \A row \in Rows : row.uid \in 0..MaxUid
  /\ 0 \in 0..MaxUid /\ Uid \subseteq 0..MaxUid /\ \A u \in 0..MaxUid : u # 0 => u \in Uid
<1>1. MaxUid \in Nat /\ MaxValidity \in Nat
  BY MailboxAssumption, ViewAssumption
<1>2. 0 \in 0..MaxUid /\ Uid \subseteq 0..MaxUid /\ \A u \in 0..MaxUid : u # 0 => u \in Uid
  BY <1>1 DEF Uid
<1>3. Validity \subseteq 0..MaxValidity /\ 0 \in 0..MaxValidity
  BY <1>1 DEF Validity
<1>4. NoKey \in Key /\ NoKey \in Rows /\ NoKey.uid = 0
  BY <1>2, <1>3 DEF NoKey, Key, Rows
<1> HIDE DEF NoKey
<1>5. Message \subseteq Key
  BY <1>2, <1>3 DEF Message, Key
<1>6. \A row \in Rows : row.uid \in 0..MaxUid
  BY <1>2, <1>4 DEF Rows, Message
<1> QED BY <1>2, <1>4, <1>5, <1>6 DEF Rows

\* A valid key of the mailbox on display names a message.
LEMMA KeyTypes ==
  ASSUME WindowTypes, NEW u \in 0..MaxUid
  PROVE  KeyOf(u) \in Key /\ (IsValid(KeyOf(u)) => KeyOf(u) \in Message)
<1>1. current \in Mailbox /\ uv \in 0..MaxValidity
  BY DEF WindowTypes
<1>2. u # 0 => u \in Uid
  BY RowProperties
<1>3. uv # 0 => uv \in Validity
  BY <1>1, ViewAssumption DEF Validity
<1> QED BY <1>1, <1>2, <1>3 DEF KeyOf, Key, Message, IsValid

\* An operation is queued, or none is.
Enqueuing ==
  \/ queue' = queue
  \/ \E o \in Ops : o.type # "SelectMailbox" /\ queue' = EnqueueOp(queue, o)

LEMMA OperationTypes ==
  ASSUME WindowTypes, NEW type \in ImapOpType \ {"SelectMailbox"}, NEW u \in 0..MaxUid,
         NEW m \in Mailbox \union {NoMailbox}, NEW append \in BOOLEAN, type = "Move" => m \in Mailbox,
         Enqueues(type, u, m, append)
  PROVE  Enqueuing
<1> DEFINE o == ImapOperation(type, u, m, append)
<1>1. current \in Mailbox
  BY DEF WindowTypes
<1>2. o \in Operation /\ o.type = type /\ o.mailbox = m
  BY <1>1 DEF ImapOperation, Operation
<1>3. queue' = EnqueueOp(queue, o)
  BY DEF Enqueues
<1> HIDE DEF o
<1> QED BY <1>2, <1>3 DEF Enqueuing, Ops

LEMMA ApplyBodyQueue ==
  ASSUME WindowTypes, NEW content, NEW u \in 0..MaxUid, NEW pending, ApplyBody(content, u, pending)
  PROVE  Enqueuing
<1>1. CASE queue' = queue
  BY <1>1 DEF Enqueuing
<1>2. CASE Enqueues("MarkRead", u, NoMailbox, TRUE)
  <2>1. "MarkRead" \in ImapOpType \ {"SelectMailbox"}
    BY DEF ImapOpType
  <2> QED BY <1>2, <2>1, OperationTypes
<1> QED BY <1>1, <1>2 DEF ApplyBody

LEMMA OpUidType == ASSUME QueueTypes PROVE op.uid \in 0..MaxUid
<1>1. NoOp.uid = 0
  BY DEF NoOp
<1> QED BY <1>1, RowProperties DEF QueueTypes, Ops, Operation

\* The actions that queue an operation queue a well formed one.
LEMMA EnqueuingActions ==
  ASSUME WindowTypes, ListTypes, QueueTypes,
         \/ \E m \in Mailbox : ConfirmMove(m)
         \/ \E u \in Uid : ClickEmail(u)
         \/ \E type \in {"MarkRead", "ToggleFlag"} : ChangeFlag(type)
         \/ LoadMore \/ ConfirmDelete \/ MailSent \/ LoadApply
  PROVE  Enqueuing
<1> USE RowProperties
<1>0. /\ "MarkRead" \in ImapOpType \ {"SelectMailbox"} /\ "ToggleFlag" \in ImapOpType \ {"SelectMailbox"}
      /\ "LoadEmail" \in ImapOpType \ {"SelectMailbox"} /\ "FetchMailboxPage" \in ImapOpType \ {"SelectMailbox"}
      /\ "Delete" \in ImapOpType \ {"SelectMailbox"} /\ "Move" \in ImapOpType \ {"SelectMailbox"}
      /\ "FetchMailboxPage" # "Move" /\ "LoadEmail" # "Move" /\ "Delete" # "Move"
  BY DEF ImapOpType
<1>1. list.chosen.uid \in 0..MaxUid
  BY DEF ListTypes, Lists
<1>2. ASSUME NEW m \in Mailbox, ConfirmMove(m) PROVE Enqueuing
  BY <1>0, <1>1, <1>2, OperationTypes DEF ConfirmMove
<1>3. ASSUME NEW u \in Uid, ClickEmail(u) PROVE Enqueuing
  <2>1. CASE queue' = queue
    BY <2>1 DEF Enqueuing
  <2>2. CASE ShowCached(u)
    BY <2>2, ApplyBodyQueue DEF ShowCached
  <2>3. CASE FetchBody(u)
    <3>1. Enqueues("LoadEmail", u, NoMailbox, TRUE)
      BY <2>3 DEF FetchBody
    <3> QED BY <1>0, <3>1, OperationTypes
  <2> QED BY <1>3, <2>1, <2>2, <2>3 DEF ClickEmail, AwaitFetch
<1>4. ASSUME NEW type \in {"MarkRead", "ToggleFlag"}, ChangeFlag(type) PROVE Enqueuing
  <2>1. Enqueues(type, list.chosen.uid, NoMailbox, TRUE)
    BY <1>4 DEF ChangeFlag
  <2>2. type \in ImapOpType \ {"SelectMailbox"} /\ type # "Move"
    BY DEF ImapOpType
  <2> QED BY <1>1, <2>1, <2>2, OperationTypes
<1>5. CASE LoadMore
  <2>1. Enqueues("FetchMailboxPage", 0, NoMailbox, TRUE)
    BY <1>5 DEF LoadMore
  <2> QED BY <1>0, <2>1, OperationTypes
<1>6. CASE ConfirmDelete
  <2>1. Enqueues("Delete", list.chosen.uid, NoMailbox, TRUE)
    BY <1>6 DEF ConfirmDelete
  <2> QED BY <1>0, <1>1, <2>1, OperationTypes
<1>7. CASE MailSent
  <2>1. CASE Enqueues("FetchMailboxPage", 0, NoMailbox, FALSE)
    BY <1>0, <2>1, OperationTypes
  <2>2. CASE queue' = queue
    BY <2>2 DEF Enqueuing
  <2> QED BY <1>7, <2>1, <2>2 DEF MailSent
<1>8. CASE LoadApply
  <2>1. ApplyBody(reply.body, op.uid, pendingKey)
    BY <1>8 DEF LoadApply
  <2> QED BY <2>1, ApplyBodyQueue, OpUidType
<1> QED BY <1>2, <1>3, <1>4, <1>5, <1>6, <1>7, <1>8

LEMMA EnqueuingTypes ==
  ASSUME QueueInv, QueueTypes, Enqueuing
  PROVE  queue' \in Seq(Ops)
<1>1. CASE queue' = queue
  BY <1>1 DEF QueueTypes
<1>2. ASSUME NEW o \in Ops, o.type # "SelectMailbox", queue' = EnqueueOp(queue, o)
      PROVE  queue' \in Seq(Ops)
  <2>1. queue \in Seq(Ops) /\ \A i \in DOMAIN queue : queue[i].type = "SelectMailbox" => i = 1
    BY DEF QueueTypes, QueueInv
  <2>2. queue' \in Seq(Ops \union {o})
    BY <1>2, <2>1, EnqueueOpProperties
  <2>3. Ops \union {o} = Ops
    OBVIOUS
  <2> QED BY <2>2, <2>3
<1> QED BY <1>1, <1>2 DEF Enqueuing

LEMMA SelectOpType == ASSUME NEW m \in Mailbox PROVE SelectOp(m) \in Ops
BY RowProperties DEF SelectOp, Ops, Operation, ImapOpType

\* The actions that leave the queue and the operation alone.
QueueKept == queue' = queue /\ op' = op

LEMMA QueueKeptActions ==
  ASSUME \/ \E m \in Mailbox : Deliver(m) \/ Renew(m)
         \/ \E question \in {"delete", "move"} : Ask(question)
         \/ \E k \in Message : Evict(k)
         \/ \E m \in Mailbox, u \in Uid : OtherExpunge(m, u)
         \/ Cancel \/ SelectStart \/ SelectCommand \/ SelectApply
         \/ PageRange \/ PageFetch \/ LoadCommand \/ DeleteCommand \/ MoveCommand
         \/ UNCHANGED vars
  PROVE  QueueKept
<1> USE DEF QueueKept, pump
<1>1. ASSUME NEW m \in Mailbox, Deliver(m) \/ Renew(m) PROVE QueueKept
  BY <1>1 DEF Deliver, Renew, Change
<1>2. ASSUME NEW question \in {"delete", "move"}, Ask(question) PROVE QueueKept
  BY <1>2 DEF Ask
<1>3. ASSUME NEW k \in Message, Evict(k) PROVE QueueKept
  BY <1>3 DEF Evict
<1>4. ASSUME NEW m \in Mailbox, NEW u \in Uid, OtherExpunge(m, u) PROVE QueueKept
  BY <1>4 DEF OtherExpunge, Change
<1>5. CASE Cancel \/ SelectStart \/ SelectCommand \/ SelectApply
  BY <1>5 DEF Cancel, SelectStart, SelectCommand, SelectApply
<1>6. CASE PageRange \/ PageFetch \/ LoadCommand \/ DeleteCommand \/ MoveCommand
  BY <1>6 DEF PageRange, PageFetch, LoadCommand, DeleteCommand, MoveCommand
<1>7. CASE UNCHANGED vars
  BY <1>7 DEF vars
<1> QED BY <1>1, <1>2, <1>3, <1>4, <1>5, <1>6, <1>7

LEMMA QueueTypesNext ==
  ASSUME QueueInv, AllTypes, [Next]_vars
  PROVE  QueueTypes'
<1> USE DEF AllTypes
<1>1. CASE QueueKept
  BY <1>1 DEF QueueKept, QueueTypes
<1>2. CASE Enqueuing /\ op' \in {op, NoOp}
  BY <1>2, EnqueuingTypes DEF QueueTypes
<1>3. ASSUME NEW m \in Mailbox, SelectMailbox(m) PROVE QueueTypes'
  <2>1. queue' = <<SelectOp(m)>> /\ op' = op
    BY <1>3, EnqueueSelect DEF SelectMailbox, pump
  <2> QED BY <2>1, SelectOpType DEF QueueTypes
<1>4. CASE HandleNotice
  <2>1. queue' = <<SelectOp(current)>> /\ op' = op /\ current \in Mailbox
    BY <1>4, EnqueueSelect DEF HandleNotice, pump, WindowTypes
  <2> QED BY <2>1, SelectOpType DEF QueueTypes
<1>5. CASE PumpPop
  <2>1. queue \in Seq(Ops) /\ queue # <<>> /\ op' = Head(queue) /\ queue' = Tail(queue)
    BY <1>5 DEF PumpPop, QueueEmpty, QueueTypes
  <2>2. Head(queue) \in Ops /\ Tail(queue) \in Seq(Ops)
    BY <2>1
  <2> QED BY <2>1, <2>2 DEF QueueTypes
<1>6. CASE User
  <2>1. ASSUME \/ \E m \in Mailbox : ConfirmMove(m)
               \/ \E u \in Uid : ClickEmail(u)
               \/ \E type \in {"MarkRead", "ToggleFlag"} : ChangeFlag(type)
               \/ LoadMore \/ ConfirmDelete \/ MailSent
        PROVE  op' = op
    BY <2>1 DEF ConfirmMove, ClickEmail, ChangeFlag, LoadMore, ConfirmDelete, MailSent, pump
  <2> QED BY <1>1, <1>2, <1>3, <1>6, <2>1, EnqueuingActions, QueueKeptActions DEF User
<1>7. CASE Background
  BY <1>1, <1>4, <1>7, QueueKeptActions DEF Background
<1>8. CASE Dispatch
  <2>1. CASE LoadApply
    BY <1>2, <2>1, EnqueuingActions DEF LoadApply, Finish
  <2>2. CASE SelectFailed \/ PageNothing \/ PageApply \/ FlagCommand \/ RemoveApply
    <3>1. queue' = queue /\ op' = NoOp
      BY <2>2 DEF SelectFailed, PageNothing, PageApply, FlagCommand, RemoveApply, Finish
    <3> QED BY <3>1 DEF QueueTypes
  <2> QED BY <1>1, <1>5, <1>8, <2>1, <2>2, QueueKeptActions DEF Dispatch
<1> QED BY <1>1, <1>6, <1>7, <1>8, QueueKeptActions DEF Next

\* What the window shows of a message, and the cache of bodies.
LEMMA ResetTypes ==
  ASSUME WindowTypes, NEW more, ResetReader(more)
  PROVE  shownKey' \in Key /\ reader' \in Rows /\ reserved' \subseteq Message
BY RowProperties DEF ResetReader, WindowTypes

LEMMA ApplyBodyTypes ==
  ASSUME WindowTypes, NEW content \in Rows, NEW u \in 0..MaxUid, NEW pending, ApplyBody(content, u, pending)
  PROVE  /\ shownKey' \in Key /\ reader' \in Rows /\ reserved' \subseteq Message
         /\ cache' \in [Message -> Rows]
<1> DEFINE key == KeyOf(u)
<1>1. key \in Key /\ (IsValid(key) => key \in Message)
  BY KeyTypes
<1>2. cache' \in [Message -> Rows]
  <2> HIDE DEF key
  <2>1. cache' = [cache EXCEPT ![key] = content] \/ cache' = cache
    BY DEF ApplyBody, key
  <2> QED BY <2>1 DEF WindowTypes
<1>3. shownKey' \in Key /\ reader' \in Rows /\ reserved' \subseteq Message
  <2>1. CASE UNCHANGED <<shownKey, reader>> /\ reserved' = reserved \ {key}
    BY <2>1 DEF WindowTypes
  <2>2. CASE ResetReader({key})
    BY <2>2, ResetTypes
  <2>3. CASE reserved' = reserved \ {key} /\ shownKey' = key /\ reader' = content
    BY <1>1, <2>3 DEF WindowTypes
  <2> QED BY <2>1, <2>2, <2>3 DEF ApplyBody
<1> QED BY <1>2, <1>3

\* The actions that leave the window alone, but for its dialog.
WindowKept == UNCHANGED <<current, uv, pendingKey, shownKey, reader, cache, reserved>>
Dialog     == dialog' \in {dialog, "none", "delete", "move"}

LEMMA WindowKeptActions ==
  ASSUME \/ \E m \in Mailbox : ConfirmMove(m) \/ Deliver(m) \/ Renew(m)
         \/ \E type \in {"MarkRead", "ToggleFlag"} : ChangeFlag(type)
         \/ \E question \in {"delete", "move"} : Ask(question)
         \/ \E m \in Mailbox, u \in Uid : OtherExpunge(m, u)
         \/ LoadMore \/ ConfirmDelete \/ Cancel \/ MailSent \/ HandleNotice
         \/ PumpPop \/ SelectStart \/ SelectCommand
         \/ PageRange \/ PageNothing \/ PageFetch \/ PageApply
         \/ LoadCommand \/ FlagCommand \/ DeleteCommand \/ MoveCommand
         \/ UNCHANGED vars
  PROVE  WindowKept /\ Dialog
<1> USE DEF WindowKept, Dialog, shown, bodies
<1>1. ASSUME NEW m \in Mailbox, ConfirmMove(m) \/ Deliver(m) \/ Renew(m)
      PROVE  WindowKept /\ Dialog
  BY <1>1 DEF ConfirmMove, Deliver, Renew, Change
<1>2. ASSUME NEW type \in {"MarkRead", "ToggleFlag"}, ChangeFlag(type) PROVE WindowKept /\ Dialog
  BY <1>2 DEF ChangeFlag
<1>3. ASSUME NEW question \in {"delete", "move"}, Ask(question) PROVE WindowKept /\ Dialog
  BY <1>3 DEF Ask
<1>4. ASSUME NEW m \in Mailbox, NEW u \in Uid, OtherExpunge(m, u) PROVE WindowKept /\ Dialog
  BY <1>4 DEF OtherExpunge, Change
<1>5. CASE LoadMore \/ ConfirmDelete \/ Cancel \/ MailSent \/ HandleNotice
  BY <1>5 DEF LoadMore, ConfirmDelete, Cancel, MailSent, HandleNotice
<1>6. CASE PumpPop \/ SelectStart \/ SelectCommand
  BY <1>6 DEF PumpPop, SelectStart, SelectCommand
<1>7. CASE PageRange \/ PageNothing \/ PageFetch \/ PageApply
  BY <1>7 DEF PageRange, PageNothing, PageFetch, PageApply
<1>8. CASE LoadCommand \/ FlagCommand \/ DeleteCommand \/ MoveCommand
  BY <1>8 DEF LoadCommand, FlagCommand, DeleteCommand, MoveCommand
<1>9. CASE UNCHANGED vars
  BY <1>9 DEF vars
<1> QED BY <1>1, <1>2, <1>3, <1>4, <1>5, <1>6, <1>7, <1>8, <1>9

LEMMA WindowTypesNext ==
  ASSUME AllTypes, [Next]_vars
  PROVE  WindowTypes'
<1> USE DEF AllTypes
<1>1. CASE WindowKept /\ Dialog
  BY <1>1 DEF WindowKept, Dialog, WindowTypes
<1>2. ASSUME NEW m \in Mailbox, SelectMailbox(m) PROVE WindowTypes'
  <2>1. shownKey' \in Key /\ reader' \in Rows /\ reserved' \subseteq Message
    BY <1>2, ResetTypes DEF SelectMailbox
  <2>2. uv' \in 0..MaxValidity
    BY <1>2, ViewAssumption DEF SelectMailbox, ValidityUpon, WindowTypes
  <2> QED BY <1>2, <2>1, <2>2 DEF SelectMailbox, WindowTypes
<1>3. ASSUME NEW u \in Uid, ClickEmail(u) PROVE WindowTypes'
  <2>1. u \in 0..MaxUid
    BY RowProperties
  <2>2. KeyOf(u) \in Key /\ (IsValid(KeyOf(u)) => KeyOf(u) \in Message)
    BY <2>1, KeyTypes
  <2>3. UNCHANGED <<current, uv, dialog>> /\ (pendingKey' = KeyOf(u) \/ pendingKey' = pendingKey)
    BY <1>3 DEF ClickEmail, shown
  <2>4. /\ shownKey' \in Key /\ reader' \in Rows /\ reserved' \subseteq Message
        /\ cache' \in [Message -> Rows]
    <3>1. CASE UNCHANGED <<shownKey, reader, cache, reserved>>
      BY <3>1 DEF WindowTypes
    <3>2. CASE ShowCached(u)
      <4>1. cache[KeyOf(u)] \in Rows
        BY <2>2, <3>2 DEF ShowCached, WindowTypes
      <4>2. ApplyBody(cache[KeyOf(u)], u, KeyOf(u))
        BY <3>2 DEF ShowCached
      <4> QED BY <2>1, <4>1, <4>2, ApplyBodyTypes
    <3>3. CASE FetchBody(u)
      BY <2>2, <3>3, RowProperties DEF FetchBody, WindowTypes
    <3> QED BY <1>3, <3>1, <3>2, <3>3 DEF ClickEmail, AwaitFetch, shown, bodies
  <2> QED BY <2>2, <2>3, <2>4 DEF WindowTypes
<1>4. ASSUME NEW k \in Message, Evict(k) PROVE WindowTypes'
  BY <1>4, RowProperties DEF Evict, WindowTypes, shown
<1>5. CASE SelectFailed
  BY <1>5, ResetTypes DEF SelectFailed, WindowTypes
<1>6. CASE SelectApply
  <2>1. shownKey' \in Key /\ reader' \in Rows /\ reserved' \subseteq Message
    BY <1>6, ResetTypes DEF SelectApply
  <2>2. uv' \in 0..MaxValidity
    BY <1>6 DEF SelectApply, ReplyTypes, Replies
  <2>3. cache' \in [Message -> Rows]
    BY <1>6, RowProperties DEF SelectApply, WindowTypes
  <2> QED BY <1>6, <2>1, <2>2, <2>3 DEF SelectApply, WindowTypes
<1>7. CASE LoadApply
  <2>1. reply.body \in Rows /\ op.uid \in 0..MaxUid
    BY OpUidType DEF ReplyTypes, Replies
  <2>2. ApplyBody(reply.body, op.uid, pendingKey) /\ UNCHANGED <<current, uv, pendingKey, dialog>>
    BY <1>7 DEF LoadApply
  <2>3. /\ shownKey' \in Key /\ reader' \in Rows /\ reserved' \subseteq Message
        /\ cache' \in [Message -> Rows]
    BY <2>1, <2>2, ApplyBodyTypes
  <2> QED BY <2>2, <2>3 DEF WindowTypes
<1>8. CASE RemoveApply
  <2>1. UNCHANGED <<current, uv, pendingKey, dialog>>
    BY <1>8 DEF RemoveApply
  <2>2. CASE reply.ok
    <3>1. shownKey' \in Key /\ reader' \in Rows /\ reserved' \subseteq Message
      BY <1>8, <2>2, ResetTypes DEF RemoveApply
    <3>2. cache' \in [Message -> Rows]
      BY <1>8, <2>2, RowProperties DEF RemoveApply, WindowTypes
    <3> QED BY <2>1, <3>1, <3>2 DEF WindowTypes
  <2>3. CASE ~reply.ok
    BY <1>8, <2>1, <2>3 DEF RemoveApply, WindowTypes
  <2> QED BY <2>2, <2>3
<1>9. CASE User
  BY <1>1, <1>2, <1>3, <1>9, WindowKeptActions DEF User
<1>10. CASE Background
  BY <1>1, <1>4, <1>10, WindowKeptActions DEF Background
<1>11. CASE Dispatch
  BY <1>1, <1>5, <1>6, <1>7, <1>8, <1>11, WindowKeptActions DEF Dispatch
<1> QED BY <1>1, <1>9, <1>10, <1>11, WindowKeptActions DEF Next

-----------------------------------------------------------------------------
\* The actions that leave the rows and the notices alone, or take a notice
\* and count it.
ListKept == UNCHANGED <<current, list, notices>>

LEMMA ListKeptActions ==
  ASSUME \/ \E m \in Mailbox : ConfirmMove(m) \/ Renew(m)
         \/ \E type \in {"MarkRead", "ToggleFlag"} : ChangeFlag(type)
         \/ \E question \in {"delete", "move"} : Ask(question)
         \/ \E k \in Message : Evict(k)
         \/ LoadMore \/ ConfirmDelete \/ Cancel
         \/ PumpPop \/ SelectCommand \/ SelectFailed
         \/ PageRange \/ PageFetch
         \/ LoadCommand \/ LoadApply \/ FlagCommand \/ DeleteCommand \/ MoveCommand
         \/ UNCHANGED vars
  PROVE  ListKept
<1> USE DEF ListKept
<1>1. ASSUME NEW m \in Mailbox, ConfirmMove(m) \/ Renew(m) PROVE ListKept
  BY <1>1 DEF ConfirmMove, Renew, Change
<1>2. ASSUME NEW type \in {"MarkRead", "ToggleFlag"}, ChangeFlag(type) PROVE ListKept
  BY <1>2 DEF ChangeFlag
<1>3. ASSUME NEW question \in {"delete", "move"}, Ask(question) PROVE ListKept
  BY <1>3 DEF Ask
<1>4. ASSUME NEW k \in Message, Evict(k) PROVE ListKept
  BY <1>4 DEF Evict
<1>5. CASE LoadMore \/ ConfirmDelete \/ Cancel
  BY <1>5 DEF LoadMore, ConfirmDelete, Cancel
<1>6. CASE PumpPop \/ SelectCommand \/ SelectFailed
  BY <1>6 DEF PumpPop, SelectCommand, SelectFailed
<1>7. CASE PageRange \/ PageFetch
  BY <1>7 DEF PageRange, PageFetch
<1>8. CASE LoadCommand \/ LoadApply \/ FlagCommand \/ DeleteCommand \/ MoveCommand
  BY <1>8 DEF LoadCommand, LoadApply, FlagCommand, DeleteCommand, MoveCommand
<1>9. CASE UNCHANGED vars
  BY <1>9 DEF vars
<1> QED BY <1>1, <1>2, <1>3, <1>4, <1>5, <1>6, <1>7, <1>8, <1>9

LEMMA NoticedTypes ==
  ASSUME NEW l \in Lists, NEW n \in Notices
  PROVE  Noticed(l, n) \in Lists /\ Noticed(l, n).mailbox = l.mailbox /\ Noticed(l, n).items = l.items
<1>1. l.count \in Nat /\ n.count \in Nat /\ l.mailbox \in Mailbox /\ l.chosen \in Rows
  BY DEF Lists, Notices
<1>2. OneLess(l.count) \in Nat
  BY <1>1, OneLessType
<1> QED BY <1>1, <1>2, SetTypes DEF Noticed

LEMMA AnnouncedTypes ==
  ASSUME notices \in Seq(Notices), NEW m, NEW kind \in {"EXISTS", "EXPUNGE"}, NEW n \in Nat, Announced(m, kind, n)
  PROVE  notices' \in Seq(Notices)
<1>1. [kind |-> kind, count |-> n] \in Notices
  BY DEF Notices
<1> QED BY <1>1 DEF Announced

LEMMA RemovedTypes ==
  ASSUME NEW l \in Lists, op.type = "Move" => op.mailbox \in Mailbox
  PROVE  /\ Removed(l) \in Lists /\ Removed(l).mailbox = l.mailbox
         /\ Removed(l).items = [l.items EXCEPT ![op.uid] = NoKey]
<1>1. /\ RemoveEmail(l, op.uid) \in Lists /\ RemoveEmail(l, op.uid).mailbox = l.mailbox
      /\ RemoveEmail(l, op.uid).items = [l.items EXCEPT ![op.uid] = NoKey]
  BY RemoveTypes
<1> QED BY <1>1, InvalidateTypes DEF Removed

\* What a select, a page and its absence make of the rows.
LEMMA GoesTo ==
  ASSUME QueueTypes, op.type \in {"SelectMailbox", "Move"}
  PROVE  op.mailbox \in Mailbox
<1>1. NoOp.type = "none"
  BY DEF NoOp
<1>2. op \in Ops
  BY <1>1 DEF QueueTypes
<1> QED BY <1>2 DEF Ops

LEMMA SelectApplyList ==
  ASSUME AllTypes, SelectApply
  PROVE  list' \in Lists /\ list'.mailbox = list.mailbox /\ list'.items = list.items
<1> DEFINE counted == SetMessageCount(list, reply.exists)
<1>1. op.mailbox \in Mailbox
  BY GoesTo DEF SelectApply, Running, AllTypes
<1>2. list \in Lists /\ reply.exists \in Nat
  BY DEF AllTypes, ListTypes, ReplyTypes, Replies
<1>3. list.mailbox \in Mailbox /\ list.chosen \in Rows
  BY <1>2 DEF Lists
<1>4. counted \in Lists /\ counted.mailbox = list.mailbox /\ counted.items = list.items
  BY <1>2, <1>3, SetTypes
<1>5. list' = counted \/ list' = InvalidateMailboxCache(counted, op.mailbox)
  BY DEF SelectApply
<1> HIDE DEF counted
<1> QED BY <1>1, <1>4, <1>5, InvalidateTypes

\* A listing of nothing shows nothing, or what was shown.
LEMMA PageNothingList ==
  ASSUME AllTypes, PageNothing
  PROVE  /\ list' \in Lists /\ list'.mailbox = list.mailbox
         /\ \/ stage = "empty" /\ list'.items = NoRows
            \/ stage = "end" /\ list'.items = list.items
<1>1. list \in Lists
  BY DEF AllTypes, ListTypes
<1>2. CASE stage = "empty" /\ list' = ApplyFetchResults(list, <<>>, FALSE, 0, 0)
  <2>1. PICK page \in Seq(Message) : page = <<>>
    <3>1. <<>> \in Seq(Message)
      OBVIOUS
    <3> QED BY <3>1
  <2>2. list' \in Lists /\ list'.mailbox = list.mailbox /\ list'.items = AddRows(NoRows, page)
    <3>1. PICK append \in BOOLEAN : append = FALSE
      OBVIOUS
    <3>2. list' = ApplyFetchResults(list, page, append, 0, 0)
      BY <1>2, <2>1, <3>1
    <3>3. /\ list' \in Lists /\ list'.mailbox = list.mailbox
          /\ list'.items = AddRows(IF append THEN list.items ELSE NoRows, IF append THEN Backwards(page) ELSE page)
      BY <1>1, <3>2, ApplyTypes
    <3> QED BY <3>1, <3>3
  <2>3. AddRows(NoRows, <<>>) = NoRows
    BY DEF AddRows, NoRows
  <2> QED BY <1>2, <2>1, <2>2, <2>3
<1>3. CASE stage = "end" /\ list' = UpdateLoadMore(list)
  BY <1>1, <1>3, MoreTypes
<1> QED BY <1>2, <1>3 DEF PageNothing

\* A page brings rows of its own; those shown before stay when it is appended
\* or empty.
LEMMA PageApplyList ==
  ASSUME AllTypes, PageApply
  PROVE  /\ list' \in Lists /\ list'.mailbox = list.mailbox
         /\ \A u \in Uid :
              \/ /\ list'.items[u] = list.items[u]
                 /\ reply.page = <<>> \/ op.type = "FetchMailboxPage"
              \/ list'.items[u] = NoKey
              \/ \E i \in DOMAIN reply.page : list'.items[u] = reply.page[i] /\ reply.page[i].uid = u
<1> DEFINE append == op.type = "FetchMailboxPage" /\ op.append
<1>1. list \in Lists /\ list.count \in Nat /\ reply.first \in Nat /\ reply.page \in Seq(Message)
  BY DEF AllTypes, ListTypes, ReplyTypes, Lists, Replies
<1>2. CASE reply.page = <<>>
  <2>1. list' = list \/ list' = UpdateLoadMore(list)
    BY <1>2 DEF PageApply
  <2> QED BY <1>1, <1>2, <2>1, MoreTypes
<1>3. CASE reply.page # <<>>
  <2>1. append \in BOOLEAN
    <3>1. op.type = "FetchMailboxPage" => op.append \in BOOLEAN
      BY DEF AllTypes, QueueTypes, Ops, Operation, NoOp
    <3> QED BY <3>1
  <2>2. list' = ApplyFetchResults(list, reply.page, append, list.count, reply.first)
    BY <1>3 DEF PageApply
  <2> DEFINE old == IF append THEN list.items ELSE NoRows
             add == IF append THEN Backwards(reply.page) ELSE reply.page
  <2>3. append => op.type = "FetchMailboxPage"
    OBVIOUS
  <2> HIDE DEF append
  <2>4. list' \in Lists /\ list'.mailbox = list.mailbox /\ list'.items = AddRows(old, add)
    BY <1>1, <2>1, <2>2, ApplyTypes
  <2>5. old \in Items /\ add \in Seq(Message)
    BY <1>1, BackwardsTypes DEF NoRows, Items, Rows, Lists
  <2>6. \A i \in DOMAIN add : \E j \in DOMAIN reply.page : add[i] = reply.page[j]
    BY <1>1, BackwardsTypes
  <2>7. ASSUME NEW u \in Uid
        PROVE  \/ list'.items[u] = list.items[u] /\ append
               \/ list'.items[u] = NoKey
               \/ \E i \in DOMAIN reply.page : list'.items[u] = reply.page[i] /\ reply.page[i].uid = u
    <3> HIDE DEF add
    <3>1. \/ list'.items[u] = old[u]
          \/ \E i \in DOMAIN add : list'.items[u] = add[i] /\ add[i].uid = u
      BY <2>4, <2>5, RowsTypes
    <3>2. (old[u] = list.items[u] /\ append) \/ old[u] = NoKey
      BY DEF NoRows
    <3> HIDE DEF old
    <3> QED BY <2>6, <3>1, <3>2
  <2> QED BY <2>3, <2>4, <2>7
<1> QED BY <1>2, <1>3

LEMMA ListTypesNext ==
  ASSUME AllTypes, [Next]_vars
  PROVE  ListTypes'
<1> USE DEF AllTypes
<1>0. list \in Lists /\ list.mailbox = current /\ notices \in Seq(Notices) /\ current \in Mailbox
  BY DEF ListTypes, WindowTypes
<1>1. CASE ListKept
  BY <1>1 DEF ListKept, ListTypes
<1>2. ASSUME NEW m \in Mailbox, SelectMailbox(m) PROVE ListTypes'
  <2> DEFINE l == SetCurrentMailbox(list, m)
  <2>1. list' \in {DisplayCachedEmails(l, m), ClearEmailList(l)}
        /\ current' = m /\ notices' = notices
    BY <1>2 DEF SelectMailbox
  <2>2. l \in Lists /\ l.mailbox = m
    BY <1>0, SetTypes, RowProperties
  <2> HIDE DEF l
  <2>3. list' \in Lists /\ list'.mailbox = m
    BY <2>1, <2>2, DisplayTypes, ClearTypes
  <2> QED BY <1>0, <2>1, <2>3 DEF ListTypes
<1>3. ASSUME NEW u \in Uid, ClickEmail(u) PROVE ListTypes'
  <2>1. list.items[u] \in Rows
    BY <1>0 DEF Lists, Items
  <2>2. list' = Select(list, list.items[u]) /\ current' = current /\ notices' = notices
    BY <1>3 DEF ClickEmail
  <2> QED BY <1>0, <2>1, <2>2, SetTypes DEF ListTypes
<1>4. CASE MailSent
  <2>1. list' = InvalidateMailboxCache(list, Sent) /\ Sent \in Mailbox /\ current' = current /\ notices' = notices
    BY <1>4, ViewAssumption DEF MailSent
  <2> QED BY <1>0, <2>1, InvalidateTypes DEF ListTypes
<1>5. CASE HandleNotice
  <2>1. /\ notices # <<>> /\ notices' = Tail(notices) /\ current' = current
        /\ list' = Noticed(list, Head(notices))
    BY <1>5 DEF HandleNotice
  <2>2. Head(notices) \in Notices /\ Tail(notices) \in Seq(Notices)
    BY <1>0, <2>1
  <2> QED BY <1>0, <2>1, <2>2, NoticedTypes DEF ListTypes
<1>6. ASSUME NEW m \in Mailbox, Deliver(m) PROVE ListTypes'
  <2>1. box[m] \in Seq(Uid)
    BY DEF ServerTypes
  <2>2. /\ Announced(m, "EXISTS", Len(box[m]) + 1) \/ UNCHANGED notices
        /\ Len(box[m]) + 1 \in Nat /\ UNCHANGED <<current, list>>
    BY <1>6, <2>1 DEF Deliver, Change
  <2> QED BY <1>0, <2>2, AnnouncedTypes DEF ListTypes
<1>7. ASSUME NEW m \in Mailbox, NEW u \in Uid, OtherExpunge(m, u) PROVE ListTypes'
  <2>1. (Announced(m, "EXPUNGE", 0) \/ UNCHANGED notices) /\ UNCHANGED <<current, list>>
    BY <1>7 DEF OtherExpunge, Change
  <2> QED BY <1>0, <2>1, AnnouncedTypes DEF ListTypes
<1>8. CASE SelectStart
  <2>1. list' = [list EXCEPT !.count = 0, !.oldest = 0] /\ UNCHANGED <<current, notices>>
    BY <1>8 DEF SelectStart
  <2> QED BY <1>0, <2>1 DEF ListTypes, Lists
<1>9. CASE SelectApply
  BY <1>0, <1>9, SelectApplyList DEF SelectApply, ListTypes
<1>10. CASE PageNothing
  BY <1>0, <1>10, PageNothingList DEF PageNothing, ListTypes
<1>11. CASE PageApply
  BY <1>0, <1>11, PageApplyList DEF PageApply, ListTypes
<1>12. CASE RemoveApply
  <2>1. op.type = "Move" => op.mailbox \in Mailbox
    BY DEF QueueTypes, Ops, NoOp
  <2>2. list' \in {list, Removed(list)} /\ UNCHANGED <<current, notices>>
    BY <1>12 DEF RemoveApply
  <2> QED BY <1>0, <2>1, <2>2, RemovedTypes DEF ListTypes
<1>13. CASE User
  BY <1>1, <1>2, <1>3, <1>4, <1>13, ListKeptActions DEF User
<1>14. CASE Background
  BY <1>1, <1>5, <1>6, <1>7, <1>14, ListKeptActions DEF Background
<1>15. CASE Dispatch
  BY <1>1, <1>8, <1>9, <1>10, <1>11, <1>12, <1>15, ListKeptActions DEF Dispatch
<1> QED BY <1>1, <1>13, <1>14, <1>15, ListKeptActions DEF Next

-----------------------------------------------------------------------------
\* The actions that leave the answer and the stage alone.
ReplyKept == UNCHANGED <<stage, reply>>

LEMMA ReplyKeptActions ==
  ASSUME User \/ Background \/ UNCHANGED vars
  PROVE  ReplyKept /\ op' = op
<1> USE DEF ReplyKept, pump
<1>1. CASE User
  BY <1>1 DEF User, SelectMailbox, ConfirmMove, ClickEmail, ChangeFlag, Ask, LoadMore, ConfirmDelete, Cancel, MailSent
<1>2. CASE Background
  BY <1>2 DEF Background, HandleNotice, Evict, Deliver, Renew, OtherExpunge, Change
<1>3. CASE UNCHANGED vars
  BY <1>3 DEF vars
<1> QED BY <1>1, <1>2, <1>3

LEMMA NoReplyType ==
  /\ NoReply \in Replies /\ NoReply.page = <<>> /\ ~NoReply.ok
  /\ \A body \in Rows : [NoReply EXCEPT !.ok = TRUE, !.body = body] \in Replies
<1>1. <<>> \in Seq(Message)
  OBVIOUS
<1>2. 0 \in 0..MaxValidity
  BY ViewAssumption
<1> QED BY <1>1, <1>2, RowProperties DEF NoReply, Replies

\* What the first and the last of a page are.
LEMMA PageRangeReply ==
  ASSUME AllTypes, PageRange
  PROVE  /\ reply' \in Replies /\ UNCHANGED <<op, list, box, selected>>
         /\ reply'.page = reply.page /\ reply'.ok = reply.ok /\ reply'.exists = reply.exists
         /\ stage = "range" /\ stage' \in {"empty", "end", "fetch"}
         /\ stage' = "fetch" =>
              /\ reply'.first \in Nat \ {0} /\ reply'.last \in Nat /\ reply'.first <= reply'.last
              /\ op.type = "SelectMailbox" => reply'.last = reply.exists
         /\ stage' = "end" => op.type # "SelectMailbox"
<1> DEFINE append == op.type = "FetchMailboxPage" /\ op.append
           count  == IF op.type = "SelectMailbox" THEN reply.exists ELSE list.count
           oldest == IF op.type = "SelectMailbox" THEN 0 ELSE list.oldest
           last   == IF append THEN OneLess(oldest) ELSE count
           first  == IF last > PageSize THEN last - PageSize + 1 ELSE 1
<1>1. reply \in Replies /\ reply.exists \in Nat /\ list.count \in Nat /\ list.oldest \in Nat
  BY DEF AllTypes, ReplyTypes, ListTypes, Replies, Lists
<1>2. last \in Nat
  BY <1>1, OneLessType
<1>3. op.type = "SelectMailbox" => last = count /\ count = reply.exists
  OBVIOUS
<1>4. \/ count = 0 /\ stage' = "empty" /\ UNCHANGED reply
      \/ count # 0 /\ last = 0 /\ stage' = "end" /\ UNCHANGED reply
      \/ count # 0 /\ last # 0 /\ reply' = [reply EXCEPT !.first = first, !.last = last] /\ stage' = "fetch"
  BY DEF PageRange
<1>5. UNCHANGED <<op, list, box, selected>> /\ stage = "range"
  BY DEF PageRange, server
<1> HIDE DEF append, count, oldest, last
<1>6. first \in Nat \ {0} /\ (last # 0 => first <= last)
  BY <1>2, ViewAssumption
<1> HIDE DEF first
<1>7. [reply EXCEPT !.first = first, !.last = last] \in Replies
  BY <1>1, <1>2, <1>6 DEF Replies
<1>8. ASSUME reply' = [reply EXCEPT !.first = first, !.last = last]
      PROVE  /\ reply'.first = first /\ reply'.last = last /\ reply'.page = reply.page /\ reply'.ok = reply.ok
             /\ reply'.exists = reply.exists
  BY <1>1, <1>8 DEF Replies
<1> QED BY <1>1, <1>2, <1>3, <1>4, <1>5, <1>6, <1>7, <1>8

\* The messages between two sequence numbers.
LEMMA MessagesTypes ==
  ASSUME ServerTypes, NEW m \in Mailbox, NEW first \in Nat \ {0}, NEW last \in Nat
  PROVE  /\ Messages(m, first, last) \in Seq(Message)
         /\ \A i \in DOMAIN Messages(m, first, last) : Holds(m, Messages(m, first, last)[i])
         /\ first <= last /\ last <= Len(box[m]) => Messages(m, first, last) # <<>>
<1> DEFINE end == IF last > Len(box[m]) THEN Len(box[m]) ELSE last
           n   == IF end < first THEN 0 ELSE end - first + 1
           at(i) == [mailbox |-> m, validity |-> validity[m], uid |-> box[m][first + i - 1]]
<1>1. box[m] \in Seq(Uid) /\ validity[m] \in Validity
  BY DEF ServerTypes
<1>2. Len(box[m]) \in Nat /\ DOMAIN box[m] = 1..Len(box[m])
  BY <1>1
<1>3. end \in Nat /\ end <= Len(box[m])
  BY <1>2
<1>4. n \in Nat
  BY <1>3
<1>5. ASSUME NEW i \in 1..n PROVE first + i - 1 \in DOMAIN box[m]
  BY <1>2, <1>3, <1>5
<1>6. Messages(m, first, last) = [i \in 1..n |-> at(i)]
  BY DEF Messages
<1>7. ASSUME NEW i \in 1..n PROVE at(i) \in Message /\ Holds(m, at(i))
  <2>1. box[m][first + i - 1] \in Uid
    BY <1>1, <1>5
  <2>2. at(i) \in Message
    BY <1>1, <2>1 DEF Message
  <2>3. Holds(m, at(i))
    BY <1>5 DEF Holds
  <2> QED BY <2>2, <2>3
<1>8. first <= last /\ last <= Len(box[m]) => n # 0
  BY <1>2
<1> HIDE DEF at, n, end
<1>9. Messages(m, first, last) \in Seq(Message) /\ DOMAIN Messages(m, first, last) = 1..n
      /\ Len(Messages(m, first, last)) = n
  BY <1>4, <1>6, <1>7
<1> QED BY <1>4, <1>6, <1>7, <1>8, <1>9

LEMMA PageFetchReply ==
  ASSUME AllTypes, PageFetch
  PROVE  /\ reply' \in Replies /\ stage = "fetch" /\ stage' = "rows" /\ UNCHANGED <<op, list, notices, box, selected, validity>>
         /\ \/ UNCHANGED reply
            \/ selected # NoMailbox /\ \A i \in DOMAIN reply'.page : Holds(selected, reply'.page[i])
         /\ faults' = "none" /\ selected # NoMailbox /\ reply.first <= reply.last /\ reply.last <= Len(box[selected])
              => reply'.page # <<>>
<1>1. stage = "fetch" /\ stage' = "rows" /\ UNCHANGED <<op, list, notices, box, selected, validity>>
  BY DEF PageFetch, server
<1>2. reply \in Replies /\ reply.first \in Nat \ {0} /\ reply.last \in Nat
  BY <1>1 DEF AllTypes, ReplyTypes, Replies
<1>3. CASE UNCHANGED reply /\ (selected = NoMailbox \/ Refused)
  BY <1>1, <1>2, <1>3 DEF Refused
<1>4. CASE selected # NoMailbox /\ reply' = [reply EXCEPT !.page = Messages(selected, reply.first, reply.last)]
  <2>1. ServerTypes /\ selected \in Mailbox
    BY <1>4 DEF AllTypes, ServerTypes
  <2>2. PICK page : page = Messages(selected, reply.first, reply.last)
    OBVIOUS
  <2>3. /\ page \in Seq(Message) /\ \A i \in DOMAIN page : Holds(selected, page[i])
        /\ reply.first <= reply.last /\ reply.last <= Len(box[selected]) => page # <<>>
    BY <1>2, <2>1, <2>2, MessagesTypes
  <2>4. reply' \in Replies /\ reply'.page = page
    BY <1>2, <1>4, <2>2, <2>3 DEF Replies
  <2> QED BY <1>1, <1>4, <2>3, <2>4
<1> QED BY <1>3, <1>4 DEF PageFetch

LEMMA FoundType ==
  ASSUME AllTypes, selected # NoMailbox, op.uid # 0
  PROVE  Found \in Rows
<1>1. selected \in Mailbox /\ validity[selected] \in Validity
  BY DEF AllTypes, ServerTypes
<1>2. op.uid \in Uid
  BY OpUidType, RowProperties DEF AllTypes
<1> QED BY <1>1, <1>2 DEF Found, Message, Rows

LEMMA PresentUid ==
  ASSUME AllTypes, Present
  PROVE  selected # NoMailbox /\ op.uid # 0
<1>1. selected \in Mailbox /\ selected # NoMailbox
  BY DEF AllTypes, ServerTypes, Present
<1>2. box[selected] \in Seq(Uid)
  BY <1>1 DEF AllTypes, ServerTypes
<1>3. op.uid \in Uid
  BY <1>2 DEF Present
<1> QED BY <1>1, <1>3 DEF Uid

LEMMA ReplyTypesNext ==
  ASSUME AllTypes, [Next]_vars
  PROVE  ReplyTypes'
<1>0. reply \in Replies
  BY DEF AllTypes, ReplyTypes
<1>1. CASE ReplyKept
  BY <1>1 DEF ReplyKept, AllTypes, ReplyTypes
<1>2. CASE reply' = NoReply /\ stage' # "fetch"
  BY <1>2, NoReplyType DEF ReplyTypes
<1>3. CASE PumpPop
  <2>1. reply' = NoReply /\ stage' # "fetch"
    BY <1>3 DEF PumpPop, FirstStage
  <2> QED BY <1>2, <2>1
<1>4. CASE SelectFailed \/ PageNothing \/ PageApply \/ LoadApply \/ FlagCommand \/ RemoveApply
  <2>1. reply' = NoReply /\ stage' # "fetch"
    BY <1>4 DEF SelectFailed, PageNothing, PageApply, LoadApply, FlagCommand, RemoveApply, Finish
  <2> QED BY <1>2, <2>1
<1>5. CASE SelectStart \/ SelectApply
  BY <1>0, <1>5 DEF SelectStart, SelectApply, ReplyTypes
<1>6. CASE SelectCommand
  <2>1. stage' = "apply" /\ Running("SelectMailbox", "command")
    BY <1>6 DEF SelectCommand
  <2>2. op.mailbox \in Mailbox
    BY <2>1, GoesTo DEF Running, AllTypes
  <2>3. PICK v \in {0, validity[op.mailbox]} :
          reply' \in {[NoReply EXCEPT !.ok = TRUE, !.validity = v, !.exists = Len(box[op.mailbox])], NoReply}
    BY <1>6 DEF SelectCommand
  <2>4. v \in 0..MaxValidity /\ Len(box[op.mailbox]) \in Nat
    <3>1. validity[op.mailbox] \in Validity /\ box[op.mailbox] \in Seq(Uid)
      BY <2>2 DEF AllTypes, ServerTypes
    <3>2. Validity \subseteq 0..MaxValidity /\ 0 \in 0..MaxValidity
      BY ViewAssumption DEF Validity
    <3> QED BY <3>1, <3>2
  <2>5. [NoReply EXCEPT !.ok = TRUE, !.validity = v, !.exists = Len(box[op.mailbox])] \in Replies
    <3> HIDE DEF NoReply
    <3> QED BY <2>4, NoReplyType DEF Replies
  <2> QED BY <2>1, <2>3, <2>5, NoReplyType DEF ReplyTypes
<1>7. CASE PageRange
  BY <1>7, PageRangeReply DEF ReplyTypes
<1>8. CASE PageFetch
  BY <1>8, PageFetchReply DEF ReplyTypes
<1>9. CASE LoadCommand
  <2>1. stage' = "apply" /\ \/ reply' = NoReply
                            \/ Present /\ reply' = [NoReply EXCEPT !.ok = TRUE, !.body = Found]
    BY <1>9 DEF LoadCommand
  <2>2. Present => Found \in Rows
    BY PresentUid, FoundType
  <2> QED BY <2>1, <2>2, NoReplyType DEF ReplyTypes
<1>10. CASE DeleteCommand \/ MoveCommand
  <2>1. stage' = "apply" /\ \/ reply' = NoReply
                            \/ Executable /\ reply' = [NoReply EXCEPT !.ok = TRUE, !.body = Found]
    <3>1. CASE DeleteCommand
      BY <3>1 DEF DeleteCommand, Outcome
    <3>2. CASE MoveCommand
      BY <3>2 DEF MoveCommand, Outcome
    <3> QED BY <1>10, <3>1, <3>2
  <2>2. Executable => Found \in Rows
    BY FoundType DEF Executable
  <2> QED BY <2>1, <2>2, NoReplyType DEF ReplyTypes
<1>11. CASE Dispatch
  BY <1>3, <1>4, <1>5, <1>6, <1>7, <1>8, <1>9, <1>10, <1>11 DEF Dispatch
<1> QED BY <1>1, <1>11, ReplyKeptActions DEF Next

-----------------------------------------------------------------------------
LEMMA ExpungedTypes ==
  ASSUME ServerTypes, NEW m, NEW u
  PROVE  /\ Expunged(m, u) \in [Mailbox -> Seq(Uid)]
         /\ \A b \in Mailbox : b # m => Expunged(m, u)[b] = box[b]
         /\ \A b \in Mailbox : \A i \in DOMAIN box[b] : box[b][i] # u =>
              \E k \in DOMAIN Expunged(m, u)[b] : Expunged(m, u)[b][k] = box[b][i]
<1>1. box \in [Mailbox -> Seq(Uid)]
  BY DEF ServerTypes
<1>2. CASE m \notin Mailbox
  <2>1. Expunged(m, u) = box
    BY <1>1, <1>2 DEF Expunged
  <2> QED BY <1>1, <2>1
<1>3. CASE m \in Mailbox
  <2> DEFINE W == Without(box[m], u)
  <2>1. box[m] \in Seq(Uid)
    BY <1>1, <1>3
  <2>2. /\ W \in Seq(Uid)
        /\ \A k \in DOMAIN W : W[k] = box[m][KeptPosition(box[m], u, k)]
        /\ \A i \in Kept(box[m], u) : \E k \in DOMAIN W : KeptPosition(box[m], u, k) = i
    BY <2>1, WithoutProperties
  <2>3. Expunged(m, u) = [box EXCEPT ![m] = W]
    BY DEF Expunged
  <2> HIDE DEF W
  <2>4. ASSUME NEW i \in DOMAIN box[m], box[m][i] # u PROVE \E k \in DOMAIN W : W[k] = box[m][i]
    BY <2>2, <2>4 DEF Kept
  <2> QED BY <1>1, <1>3, <2>2, <2>3, <2>4
<1> QED BY <1>2, <1>3

\* The actions that leave the server alone.
ServerKept == UNCHANGED <<selected, validity, box, uidnext, missed, faults>>

LEMMA ServerKeptActions ==
  ASSUME \/ User \/ HandleNotice \/ (\E k \in Message : Evict(k))
         \/ PumpPop \/ SelectStart \/ SelectFailed \/ SelectApply
         \/ PageRange \/ PageNothing \/ PageApply \/ LoadApply \/ FlagCommand \/ RemoveApply
         \/ UNCHANGED vars
  PROVE  ServerKept
<1> USE DEF ServerKept, server
<1>1. CASE User
  BY <1>1 DEF User, SelectMailbox, ConfirmMove, ClickEmail, ChangeFlag, Ask, LoadMore, ConfirmDelete, Cancel, MailSent
<1>2. CASE HandleNotice \/ (\E k \in Message : Evict(k))
  BY <1>2 DEF HandleNotice, Evict
<1>3. CASE PumpPop \/ SelectStart \/ SelectFailed \/ SelectApply
  BY <1>3 DEF PumpPop, SelectStart, SelectFailed, SelectApply
<1>4. CASE PageRange \/ PageNothing \/ PageApply \/ LoadApply \/ FlagCommand \/ RemoveApply
  BY <1>4 DEF PageRange, PageNothing, PageApply, LoadApply, FlagCommand, RemoveApply
<1>5. CASE UNCHANGED vars
  BY <1>5 DEF vars
<1> QED BY <1>1, <1>2, <1>3, <1>4, <1>5

\* A message more in a mailbox.
LEMMA AppendedTypes ==
  ASSUME ServerTypes, NEW left \in [Mailbox -> Seq(Uid)], NEW m \in Mailbox, uidnext[m] <= MaxUid
  PROVE  /\ [left EXCEPT ![m] = Append(@, uidnext[m])] \in [Mailbox -> Seq(Uid)]
         /\ [uidnext EXCEPT ![m] = @ + 1] \in [Mailbox -> 1..(MaxUid + 1)]
<1>1. MaxUid \in Nat /\ uidnext \in [Mailbox -> 1..(MaxUid + 1)]
  BY MailboxAssumption DEF ServerTypes
<1>2. uidnext[m] \in Uid /\ uidnext[m] + 1 \in 1..(MaxUid + 1)
  BY <1>1 DEF Uid
<1>3. Append(left[m], uidnext[m]) \in Seq(Uid)
  BY <1>2
<1> QED BY <1>1, <1>2, <1>3

LEMMA MoveCommandServer ==
  ASSUME AllTypes, MoveCommand
  PROVE  /\ op.type = "Move" /\ op.mailbox \in Mailbox
         /\ \E left \in {box, Expunged(selected, op.uid)} :
              \/ box' = left /\ uidnext' = uidnext
              \/ /\ box' = [left EXCEPT ![op.mailbox] = Append(@, uidnext[op.mailbox])]
                 /\ uidnext[op.mailbox] <= MaxUid /\ uidnext' = [uidnext EXCEPT ![op.mailbox] = @ + 1]
<1>1. op.type = "Move"
  BY DEF MoveCommand, Running
<1>2. op.mailbox \in Mailbox
  BY <1>1, GoesTo DEF AllTypes
<1> QED BY <1>1, <1>2 DEF MoveCommand

LEMMA FaultsTypes ==
  ASSUME ServerTypes, [Next]_vars
  PROVE  faults' \in {"none", "refused", "lost"}
<1>1. faults \in {"none", "refused", "lost"}
  BY DEF ServerTypes
<1>2. CASE ServerKept
  BY <1>1, <1>2 DEF ServerKept
<1>3. CASE Background
  <2>1. (\E m \in Mailbox : Deliver(m) \/ Renew(m)) \/ (\E m \in Mailbox, u \in Uid : OtherExpunge(m, u)) => faults' = faults
    BY DEF Deliver, Renew, OtherExpunge, Change
  <2> QED BY <1>1, <1>2, <1>3, <2>1, ServerKeptActions DEF Background
<1>4. Refused => faults' \in {"none", "refused", "lost"}
  BY <1>1 DEF Refused
<1>5. \A p, x, y : Outcome(p, x, y) => faults' \in {"none", "refused", "lost"}
  BY <1>1, <1>4 DEF Outcome
<1>6. CASE SelectCommand
  <2>1. \E p, x, y : Outcome(p, x, y)
    BY <1>6 DEF SelectCommand
  <2> QED BY <1>5, <2>1
<1>7. CASE DeleteCommand
  <2>1. \E p, x, y : Outcome(p, x, y)
    BY <1>7 DEF DeleteCommand
  <2> QED BY <1>5, <2>1
<1>8. CASE MoveCommand
  <2>1. (\E p, x, y : Outcome(p, x, y)) \/ Refused \/ faults' = "lost"
    BY <1>8 DEF MoveCommand
  <2> QED BY <1>4, <1>5, <2>1
<1>9. CASE PageFetch \/ LoadCommand
  BY <1>1, <1>4, <1>9 DEF PageFetch, LoadCommand
<1>10. CASE Dispatch
  BY <1>2, <1>6, <1>7, <1>8, <1>9, <1>10, ServerKeptActions DEF Dispatch
<1> QED BY <1>2, <1>3, <1>10, ServerKeptActions DEF Next

\* The server keeps its types.
LEMMA ServerTypesNext ==
  ASSUME AllTypes, TypeInv, [Next]_vars
  PROVE  ServerTypes'
<1> USE DEF AllTypes
<1>0. faults' \in {"none", "refused", "lost"}
  BY FaultsTypes
<1>1. CASE UNCHANGED <<selected, validity, box, uidnext, missed>>
  BY <1>0, <1>1 DEF ServerTypes
<1>2. ASSUME NEW m \in Mailbox, Deliver(m) PROVE ServerTypes'
  <2>1. /\ uidnext[m] <= MaxUid /\ UNCHANGED <<selected, validity, missed>>
        /\ box' = [box EXCEPT ![m] = Append(@, uidnext[m])] /\ uidnext' = [uidnext EXCEPT ![m] = @ + 1]
    BY <1>2 DEF Deliver, Change
  <2>2. box \in [Mailbox -> Seq(Uid)]
    BY DEF ServerTypes
  <2>3. box' \in [Mailbox -> Seq(Uid)] /\ uidnext' \in [Mailbox -> 1..(MaxUid + 1)]
    BY <2>1, <2>2, AppendedTypes
  <2> QED BY <1>0, <2>1, <2>3 DEF ServerTypes
<1>3. ASSUME NEW m \in Mailbox, NEW u \in Uid, OtherExpunge(m, u) PROVE ServerTypes'
  <2>1. box' = Expunged(m, u) /\ UNCHANGED <<selected, validity, uidnext>>
    BY <1>3 DEF OtherExpunge, Change
  <2>2. [mailbox |-> m, validity |-> validity[m], uid |-> u] \in Message
    BY DEF ServerTypes, Message
  <2>3. missed' \subseteq Message
    BY <1>3, <2>2 DEF OtherExpunge, ServerTypes
  <2> QED BY <1>0, <2>1, <2>3, ExpungedTypes DEF ServerTypes
<1>4. ASSUME NEW m \in Mailbox, Renew(m) PROVE ServerTypes'
  <2>1. UNCHANGED <<selected, box, uidnext, missed>>
    BY <1>4 DEF Renew, Change
  <2>2. validity' \in [Mailbox -> Validity]
    BY <1>4, RenewProperties
  <2> QED BY <1>0, <2>1, <2>2 DEF ServerTypes
<1>5. CASE SelectCommand
  <2>1. UNCHANGED <<validity, box, uidnext>> /\ missed' = {}
    BY <1>5 DEF SelectCommand
  <2>2. selected' \in Mailbox \union {NoMailbox}
    BY <1>5, SelectCommandProperties
  <2> QED BY <1>0, <2>1, <2>2 DEF ServerTypes
<1>6. CASE DeleteCommand
  <2>1. box' \in {box, Expunged(selected, op.uid)} /\ UNCHANGED <<selected, validity, uidnext, missed>>
    BY <1>6 DEF DeleteCommand
  <2> QED BY <1>0, <2>1, ExpungedTypes DEF ServerTypes
<1>7. CASE MoveCommand
  <2>1. UNCHANGED <<selected, validity, missed>>
    BY <1>7 DEF MoveCommand
  <2>2. op.mailbox \in Mailbox
    BY <1>7, MoveCommandServer
  <2>3. PICK left \in {box, Expunged(selected, op.uid)} :
          \/ box' = left /\ uidnext' = uidnext
          \/ /\ box' = [left EXCEPT ![op.mailbox] = Append(@, uidnext[op.mailbox])]
             /\ uidnext[op.mailbox] <= MaxUid /\ uidnext' = [uidnext EXCEPT ![op.mailbox] = @ + 1]
    BY <1>7, MoveCommandServer
  <2>4. left \in [Mailbox -> Seq(Uid)]
    BY ExpungedTypes DEF ServerTypes
  <2>5. box' \in [Mailbox -> Seq(Uid)] /\ uidnext' \in [Mailbox -> 1..(MaxUid + 1)]
    <3>1. CASE box' = left /\ uidnext' = uidnext
      BY <2>4, <3>1 DEF ServerTypes
    <3>2. CASE /\ box' = [left EXCEPT ![op.mailbox] = Append(@, uidnext[op.mailbox])]
               /\ uidnext[op.mailbox] <= MaxUid /\ uidnext' = [uidnext EXCEPT ![op.mailbox] = @ + 1]
      BY <2>2, <2>4, <3>2, AppendedTypes
    <3> QED BY <2>3, <3>1, <3>2
  <2> QED BY <1>0, <2>1, <2>5 DEF ServerTypes
<1>8. CASE ServerKept
  BY <1>1, <1>8 DEF ServerKept
<1>9. CASE Background
  BY <1>2, <1>3, <1>4, <1>8, <1>9, ServerKeptActions DEF Background
<1>10. CASE PageFetch \/ LoadCommand
  BY <1>1, <1>10 DEF PageFetch, LoadCommand, server
<1>11. CASE Dispatch
  BY <1>5, <1>6, <1>7, <1>8, <1>10, <1>11, ServerKeptActions DEF Dispatch
<1> QED BY <1>8, <1>9, <1>11, ServerKeptActions DEF Next

LEMMA AllTypesInit ==
  ASSUME Init
  PROVE  AllTypes
<1>1. 0 \in 0..MaxValidity /\ 1 \in Validity /\ Inbox \in Mailbox /\ MaxUid \in Nat /\ InitialMail \in 0..MaxUid
  BY ViewAssumption, MailboxAssumption DEF Validity
<1>2. WindowTypes
  BY <1>1, RowProperties DEF Init, WindowTypes
<1>3. ListTypes
  <2>1. list = NewList(Inbox) /\ current = Inbox /\ notices = <<>>
    BY DEF Init
  <2> QED BY <1>1, <2>1, NewListTypes DEF ListTypes
<1>4. QueueTypes
  BY <1>1, SelectOpType DEF Init, QueueTypes
<1>5. ReplyTypes
  BY NoReplyType DEF Init, ReplyTypes
<1>6. ServerTypes
  <2>1. [i \in 1..InitialMail |-> i] \in Seq(Uid)
    BY <1>1 DEF Uid
  <2>2. InitialMail + 1 \in 1..(MaxUid + 1)
    BY <1>1
  <2> QED BY <1>1, <2>1, <2>2 DEF Init, ServerTypes
<1> QED BY <1>2, <1>3, <1>4, <1>5, <1>6 DEF AllTypes

LEMMA AllTypesOK ==
  ASSUME AllTypes
  PROVE  TypeOK
<1>1. list.items \in [Uid -> Message \union {NoKey}] /\ list.chosen \in Message \union {NoKey}
      /\ list.mailbox = current /\ list.count \in Nat /\ list.oldest \in Nat
  BY DEF AllTypes, ListTypes, Lists, Items, Rows
<1>2. queue \in Seq(Operation) /\ op \in Operation \union {NoOp}
  <2>1. Ops \subseteq Operation
    BY DEF Ops
  <2> HIDE DEF Ops
  <2> QED BY <2>1 DEF AllTypes, QueueTypes
<1> QED BY <1>1, <1>2 DEF AllTypes, WindowTypes, ServerTypes, Rows, TypeOK

\* Whatever is clicked, announced and answered, everything keeps its type.
THEOREM AllTypesInductive == Spec => []AllTypes
<1>1. Init => AllTypes
  BY AllTypesInit
<1>2. RunInv /\ AllTypes /\ [Next]_vars => AllTypes'
  <2> SUFFICES ASSUME RunInv, AllTypes, [Next]_vars PROVE AllTypes'
    OBVIOUS
  <2>1. QueueInv /\ TypeInv
    BY DEF RunInv
  <2>2. QueueTypes'
    BY <2>1, QueueTypesNext
  <2>3. WindowTypes' /\ ListTypes' /\ ReplyTypes'
    BY WindowTypesNext, ListTypesNext, ReplyTypesNext
  <2>4. ServerTypes'
    BY <2>1, ServerTypesNext
  <2> QED BY <2>2, <2>3, <2>4 DEF AllTypes
<1> QED BY <1>1, <1>2, RunInvInductive, PTL DEF Spec

\* The types of the window, the pump and the server, for any mailboxes, UIDs
\* and bounds.
THEOREM ViewTypesTheorem == Spec => []TypeOK
<1> QED BY AllTypesOK, AllTypesInductive, PTL

-----------------------------------------------------------------------------
(* What is on display when nothing is left to do.                          *)

\* The stages of a listing and of what removes a message.
Listing == {"range", "fetch", "rows", "empty", "end"}

StageInv ==
  /\ op = NoOp <=> stage = "none"
  /\ stage \in Listing => op.type \in {"SelectMailbox", "FetchMailboxPage"}
  /\ stage = "end" => op.type = "FetchMailboxPage"

\* A page that has not been displayed is of messages the selected mailbox has.
PageInv ==
  /\ stage # "rows" => reply.page = <<>>
  /\ \A i \in DOMAIN reply.page : selected # NoMailbox /\ Holds(selected, reply.page[i])

\* A row is filed under its UID.
RowInv == \A u \in Uid : list.items[u] = NoKey \/ list.items[u].uid = u

\* While no mailbox is selected one is about to be.
SelectInv == selected = NoMailbox => SelectQueued \/ SelectComing

\* The listing of a re-selection is of messages the mailbox has, if not of the
\* last ones delivered, and it has a page unless it is empty.
ReloadInv ==
  op.type = "SelectMailbox" =>
    /\ stage \in {"apply", "range", "fetch"} =>
         selected = op.mailbox /\ reply.ok /\ reply.exists <= Len(box[selected])
    /\ stage = "fetch" => reply.first <= reply.last /\ reply.last = reply.exists
    /\ stage = "rows"  => reply.page # <<>>

\* Unless a re-selection is queued, running or about to be queued, every row
\* is a message of the mailbox, but for those removed without a notice and for
\* one whose removal has been carried out and is about to be completed.
Removing(u) == op.type \in {"Delete", "Move"} /\ stage = "apply" /\ reply.ok /\ u = op.uid
FreshInv ==
  ~SelectQueued /\ notices = <<>> /\ op.type # "SelectMailbox" =>
    \A u \in Uid : \/ list.items[u] = NoKey
                   \/ Holds(current, list.items[u])
                   \/ list.items[u] \in missed
                   \/ Removing(u)

FaultlessInv == faults = "none" => SelectInv /\ ReloadInv /\ FreshInv
ViewInv == StageInv /\ PageInv /\ RowInv /\ FaultlessInv

\* What has befallen no command so far had befallen none before.
LEMMA FaultlessBefore ==
  ASSUME [Next]_vars, faults' = "none"
  PROVE  faults = "none"
<1>1. CASE ServerKept
  BY <1>1 DEF ServerKept
<1>2. CASE Background
  <2>1. (\E m \in Mailbox : Deliver(m) \/ Renew(m)) \/ (\E m \in Mailbox, u \in Uid : OtherExpunge(m, u)) => faults' = faults
    BY DEF Deliver, Renew, OtherExpunge, Change
  <2> QED BY <1>1, <1>2, <2>1, ServerKeptActions DEF Background
<1>3. ~Refused
  BY DEF Refused
<1>4. ASSUME NEW p, NEW x, NEW y, Outcome(p, x, y) PROVE faults = "none"
  BY <1>3, <1>4 DEF Outcome
<1>5. CASE SelectCommand
  <2>1. \E p, x, y : Outcome(p, x, y)
    BY <1>5 DEF SelectCommand
  <2> QED BY <1>4, <2>1
<1>6. CASE DeleteCommand
  <2>1. \E p, x, y : Outcome(p, x, y)
    BY <1>6 DEF DeleteCommand
  <2> QED BY <1>4, <2>1
<1>7. CASE MoveCommand
  <2>1. \E p, x, y : Outcome(p, x, y)
    BY <1>3, <1>7 DEF MoveCommand
  <2> QED BY <1>4, <2>1
<1>8. CASE PageFetch \/ LoadCommand
  BY <1>3, <1>8 DEF PageFetch, LoadCommand
<1>9. CASE Dispatch
  BY <1>1, <1>5, <1>6, <1>7, <1>8, <1>9, ServerKeptActions DEF Dispatch
<1> QED BY <1>1, <1>2, <1>9, ServerKeptActions DEF Next

LEMMA PopStage ==
  ASSUME QueueTypes, PumpPop
  PROVE  /\ op = NoOp /\ op'.type \in ImapOpType /\ op' # NoOp /\ stage' \in {"start", "range", "command"}
         /\ stage' = "range" => op'.type = "FetchMailboxPage"
<1>1. queue \in Seq(Ops) /\ queue # <<>> /\ op = NoOp /\ op' = Head(queue) /\ stage' = FirstStage(op'.type)
  BY DEF PumpPop, QueueEmpty, QueueTypes
<1>2. op' \in Ops
  BY <1>1
<1>3. op'.type \in ImapOpType
  BY <1>2 DEF Ops, Operation
<1>4. NoOp.type = "none" /\ "none" \notin ImapOpType
  BY DEF NoOp, ImapOpType
<1> QED BY <1>1, <1>3, <1>4 DEF FirstStage

\* What each command leaves of the answer.
LEMMA CommandReply ==
  ASSUME AllTypes, SelectCommand \/ LoadCommand \/ DeleteCommand \/ MoveCommand
  PROVE  stage = "command" /\ stage' = "apply" /\ op' = op /\ op # NoOp /\ reply'.page = <<>>
<1>1. /\ NoReply.page = <<>> /\ \A b : [NoReply EXCEPT !.ok = TRUE, !.body = b].page = <<>>
      /\ \A v, n : [NoReply EXCEPT !.ok = TRUE, !.validity = v, !.exists = n].page = <<>>
  BY DEF NoReply
<1>2. NoOp.type = "none"
  BY DEF NoOp
<1> HIDE DEF NoReply, NoOp
<1>3. CASE SelectCommand
  <2>1. \E v, n : reply' \in {[NoReply EXCEPT !.ok = TRUE, !.validity = v, !.exists = n], NoReply}
    BY <1>3 DEF SelectCommand
  <2> QED BY <1>1, <1>2, <1>3, <2>1 DEF SelectCommand, Running
<1>4. CASE LoadCommand
  <2>1. \E b : reply' \in {[NoReply EXCEPT !.ok = TRUE, !.body = b], NoReply}
    BY <1>4 DEF LoadCommand
  <2> QED BY <1>1, <1>2, <1>4, <2>1 DEF LoadCommand, Running
<1>5. CASE DeleteCommand
  <2>1. \E b : reply' \in {[NoReply EXCEPT !.ok = TRUE, !.body = b], NoReply}
    BY <1>5 DEF DeleteCommand
  <2> QED BY <1>1, <1>2, <1>5, <2>1 DEF DeleteCommand, Running
<1>6. CASE MoveCommand
  <2>1. \E b : reply' \in {[NoReply EXCEPT !.ok = TRUE, !.body = b], NoReply}
    BY <1>6 DEF MoveCommand
  <2> QED BY <1>1, <1>2, <1>6, <2>1 DEF MoveCommand, Running
<1> QED BY <1>3, <1>4, <1>5, <1>6

\* The stages follow one another as the dispatching of an operation does.
LEMMA StageNext ==
  ASSUME AllTypes, StageInv, [Next]_vars
  PROVE  StageInv'
<1>1. CASE ReplyKept /\ op' = op
  BY <1>1 DEF ReplyKept, StageInv
<1>2. CASE Finish
  BY <1>2 DEF Finish, StageInv, Listing
<1>3. CASE PumpPop
  BY <1>3, PopStage DEF AllTypes, StageInv, Listing
<1>4. CASE SelectStart \/ SelectApply
  <2>1. op.type = "SelectMailbox" /\ op' = op /\ stage' \in {"command", "range"}
    BY <1>4 DEF SelectStart, SelectApply, Running
  <2>2. op # NoOp
    BY <2>1 DEF NoOp
  <2> QED BY <2>1, <2>2 DEF StageInv, Listing
<1>5. CASE SelectCommand \/ LoadCommand \/ DeleteCommand \/ MoveCommand
  BY <1>5, CommandReply DEF StageInv, Listing
<1>6. CASE PageRange
  BY <1>6, PageRangeReply DEF StageInv, Listing
<1>7. CASE PageFetch
  BY <1>7, PageFetchReply DEF StageInv, Listing
<1>8. CASE SelectFailed \/ PageNothing \/ PageApply \/ LoadApply \/ FlagCommand \/ RemoveApply
  <2>1. Finish
    BY <1>8 DEF SelectFailed, PageNothing, PageApply, LoadApply, FlagCommand, RemoveApply
  <2> QED BY <1>2, <2>1
<1>9. CASE Dispatch
  BY <1>3, <1>4, <1>5, <1>6, <1>7, <1>8, <1>9 DEF Dispatch
<1> QED BY <1>1, <1>9, ReplyKeptActions DEF Next

\* While the numbers of a listing are in use nothing but what is delivered
\* changes the selected mailbox: every message keeps its place.
LEMMA SelectedStill ==
  ASSUME AllTypes, TypeInv, [Next]_vars, op.type \in ByNumber, stage # "command", selected # NoMailbox
  PROVE  /\ selected' = selected /\ validity'[selected] = validity[selected]
         /\ Len(box[selected]) <= Len(box'[selected])
         /\ \A i \in DOMAIN box[selected] : i \in DOMAIN box'[selected] /\ box'[selected][i] = box[selected][i]
<1>1. selected \in Mailbox /\ box \in [Mailbox -> Seq(Uid)] /\ uidnext \in [Mailbox -> 1..(MaxUid + 1)]
  BY DEF AllTypes, ServerTypes
<1>2. CASE UNCHANGED <<selected, validity>> /\ box'[selected] = box[selected]
  BY <1>1, <1>2
<1>3. ASSUME NEW m \in Mailbox, Deliver(m), m = selected
      PROVE  /\ UNCHANGED <<selected, validity>>
             /\ Len(box[selected]) <= Len(box'[selected])
             /\ \A i \in DOMAIN box[selected] : i \in DOMAIN box'[selected] /\ box'[selected][i] = box[selected][i]
  <2> DEFINE s == box[selected]
             e == uidnext[selected]
  <2>1. box' = [box EXCEPT ![m] = Append(@, uidnext[m])] /\ UNCHANGED <<selected, validity>>
    BY <1>3 DEF Deliver, Change
  <2>2. box'[selected] = Append(s, e) /\ s \in Seq(Uid)
    BY <1>1, <1>3, <2>1
  <2> HIDE DEF s, e
  <2>3. Len(s) <= Len(Append(s, e)) /\ \A i \in DOMAIN s : i \in DOMAIN Append(s, e) /\ Append(s, e)[i] = s[i]
    BY <2>2
  <2> QED BY <2>1, <2>2, <2>3 DEF s
<1>4. ASSUME NEW m \in Mailbox, Deliver(m), m # selected
      PROVE  box'[selected] = box[selected] /\ UNCHANGED <<selected, validity>>
  BY <1>1, <1>4 DEF Deliver, Change
<1>5. ASSUME NEW m \in Mailbox, NEW u \in Uid, OtherExpunge(m, u)
      PROVE  box'[selected] = box[selected] /\ UNCHANGED <<selected, validity>>
  BY <1>1, <1>5 DEF OtherExpunge, Change, Expunged
<1>6. ASSUME NEW m \in Mailbox, Renew(m) PROVE selected' = selected /\ validity'[selected] = validity[selected] /\ box' = box
  <2>1. m # selected /\ selected' = selected /\ \A b \in Mailbox : b # m => validity'[b] = validity[b]
    BY <1>6, RenewProperties
  <2>2. box' = box
    BY <1>6 DEF Renew
  <2> QED BY <1>1, <2>1, <2>2
<1>7. CASE ServerKept
  BY <1>2, <1>7 DEF ServerKept
<1>8. ASSUME NEW m \in Mailbox, Renew(m)
      PROVE  /\ Len(box[selected]) <= Len(box'[selected])
             /\ \A i \in DOMAIN box[selected] : i \in DOMAIN box'[selected] /\ box'[selected][i] = box[selected][i]
  BY <1>1, <1>6, <1>8
<1>9. CASE Background
  BY <1>2, <1>3, <1>4, <1>5, <1>6, <1>7, <1>8, <1>9, ServerKeptActions DEF Background
<1>10. CASE PageFetch \/ LoadCommand
  BY <1>2, <1>10 DEF PageFetch, LoadCommand, server
<1>11. CASE Dispatch
  <2>1. ~(SelectCommand \/ DeleteCommand \/ MoveCommand)
    BY CommandReply
  <2> QED BY <1>7, <1>10, <1>11, <2>1, ServerKeptActions DEF Dispatch
<1> QED BY <1>7, <1>9, <1>11, ServerKeptActions DEF Next

\* The page fetched stays true of the mailbox until it is shown.
LEMMA PageNext ==
  ASSUME AllTypes, TypeInv, StageInv, PageInv, [Next]_vars
  PROVE  PageInv'
<1>1. CASE ReplyKept /\ op' = op
  <2>1. CASE stage # "rows"
    BY <1>1, <2>1 DEF ReplyKept, PageInv
  <2>2. CASE stage = "rows"
    <3>1. op.type \in ByNumber
      BY <2>2 DEF StageInv, Listing, ByNumber
    <3> SUFFICES ASSUME NEW i \in DOMAIN reply.page
                 PROVE  selected' # NoMailbox /\ Holds(selected, reply.page[i])'
      BY <1>1, <2>2 DEF ReplyKept, PageInv
    <3>2. selected # NoMailbox /\ Holds(selected, reply.page[i])
      BY DEF PageInv
    <3>3. /\ selected' = selected /\ validity'[selected] = validity[selected]
          /\ \A k \in DOMAIN box[selected] : k \in DOMAIN box'[selected] /\ box'[selected][k] = box[selected][k]
      BY <2>2, <3>1, <3>2, SelectedStill
    <3> QED BY <1>1, <3>2, <3>3 DEF Holds, ReplyKept
  <2> QED BY <2>1, <2>2
<1>2. CASE reply'.page = <<>>
  BY <1>2 DEF PageInv
<1>3. CASE PumpPop \/ SelectFailed \/ PageNothing \/ PageApply \/ LoadApply \/ FlagCommand \/ RemoveApply
  <2>1. reply' = NoReply
    BY <1>3 DEF PumpPop, SelectFailed, PageNothing, PageApply, LoadApply, FlagCommand, RemoveApply, Finish
  <2> QED BY <1>2, <2>1, NoReplyType
<1>4. CASE SelectStart \/ SelectApply
  <2>1. reply' = reply /\ stage # "rows"
    BY <1>4 DEF SelectStart, SelectApply, Running
  <2> QED BY <1>2, <2>1 DEF PageInv
<1>5. CASE SelectCommand \/ LoadCommand \/ DeleteCommand \/ MoveCommand
  BY <1>2, <1>5, CommandReply
<1>6. CASE PageRange
  BY <1>2, <1>6, PageRangeReply DEF PageInv
<1>7. CASE PageFetch
  <2>1. /\ stage = "fetch" /\ stage' = "rows" /\ UNCHANGED <<box, selected, validity>>
        /\ \/ UNCHANGED reply
           \/ selected # NoMailbox /\ \A i \in DOMAIN reply'.page : Holds(selected, reply'.page[i])
    BY <1>7, PageFetchReply
  <2>2. CASE UNCHANGED reply
    BY <1>2, <2>1, <2>2 DEF PageInv
  <2>3. CASE selected # NoMailbox /\ \A i \in DOMAIN reply'.page : Holds(selected, reply'.page[i])
    BY <2>1, <2>3 DEF PageInv, Holds
  <2> QED BY <2>1, <2>2, <2>3
<1>8. CASE Dispatch
  BY <1>3, <1>4, <1>5, <1>6, <1>7, <1>8 DEF Dispatch
<1> QED BY <1>1, <1>8, ReplyKeptActions DEF Next

\* The actions that leave the rows as they are.
RowsKept == list'.items = list.items /\ current' = current

LEMMA RowsKeptActions ==
  ASSUME AllTypes,
         \/ ListKept \/ MailSent \/ HandleNotice \/ SelectStart \/ SelectApply
         \/ \E u \in Uid : ClickEmail(u)
         \/ \E m \in Mailbox : Deliver(m)
         \/ \E m \in Mailbox, u \in Uid : OtherExpunge(m, u)
  PROVE  RowsKept
<1> USE DEF AllTypes, RowsKept
<1>0. list \in Lists /\ notices \in Seq(Notices) /\ list.mailbox \in Mailbox /\ list.count \in Nat
  BY DEF ListTypes, Lists
<1>1. CASE ListKept
  BY <1>1 DEF ListKept
<1>2. CASE MailSent
  BY <1>0, <1>2, ViewAssumption, InvalidateTypes DEF MailSent
<1>3. CASE HandleNotice
  <2>1. notices # <<>> /\ current' = current /\ list' = Noticed(list, Head(notices))
    BY <1>3 DEF HandleNotice
  <2>2. Head(notices) \in Notices
    BY <1>0, <2>1
  <2> QED BY <1>0, <2>1, <2>2, NoticedTypes
<1>4. CASE SelectStart
  BY <1>0, <1>4 DEF SelectStart, Lists
<1>5. CASE SelectApply
  BY <1>5, SelectApplyList DEF SelectApply
<1>6. ASSUME NEW u \in Uid, ClickEmail(u) PROVE RowsKept
  <2>1. list.items[u] \in Rows
    BY <1>0 DEF Lists, Items
  <2>2. list' = Select(list, list.items[u]) /\ current' = current
    BY <1>6 DEF ClickEmail
  <2> QED BY <1>0, <2>1, <2>2, SetTypes
<1>7. ASSUME NEW m \in Mailbox, Deliver(m) PROVE RowsKept
  BY <1>7 DEF Deliver, Change
<1>8. ASSUME NEW m \in Mailbox, NEW u \in Uid, OtherExpunge(m, u) PROVE RowsKept
  BY <1>8 DEF OtherExpunge, Change
<1> QED BY <1>1, <1>2, <1>3, <1>4, <1>5, <1>6, <1>7, <1>8

LEMMA RemoveApplyRows ==
  ASSUME AllTypes, RemoveApply
  PROVE  /\ current' = current /\ list.items \in Items
         /\ list'.items = IF reply.ok THEN [list.items EXCEPT ![op.uid] = NoKey] ELSE list.items
<1>1. list \in Lists /\ list.items \in Items
  BY DEF AllTypes, ListTypes, Lists
<1>2. op.type = "Move" => op.mailbox \in Mailbox
  BY GoesTo DEF AllTypes
<1>3. list' = (IF reply.ok THEN Removed(list) ELSE list) /\ current' = current
  BY DEF RemoveApply
<1> QED BY <1>1, <1>2, <1>3, RemovedTypes

LEMMA RowsNext ==
  ASSUME AllTypes, RowInv, [Next]_vars
  PROVE  RowInv'
<1>0. list \in Lists
  BY DEF AllTypes, ListTypes
<1>1. CASE RowsKept
  BY <1>1 DEF RowsKept, RowInv
<1>2. ASSUME NEW m \in Mailbox, SelectMailbox(m) PROVE RowInv'
  <2> DEFINE l == SetCurrentMailbox(list, m)
  <2>1. list' \in {DisplayCachedEmails(l, m), ClearEmailList(l)}
    BY <1>2 DEF SelectMailbox
  <2>2. l \in Lists
    BY <1>0, SetTypes, RowProperties
  <2> HIDE DEF l
  <2>3. CASE list' = DisplayCachedEmails(l, m)
    BY <2>2, <2>3, DisplayTypes DEF RowInv
  <2>4. CASE list' = ClearEmailList(l)
    BY <2>2, <2>4, ClearTypes DEF RowInv, NoRows
  <2> QED BY <2>1, <2>3, <2>4
<1>3. CASE PageNothing
  <2>1. list'.items \in {NoRows, list.items}
    BY <1>3, PageNothingList
  <2> QED BY <2>1 DEF RowInv, NoRows
<1>4. CASE PageApply
  <2>1. ASSUME NEW u \in Uid PROVE list'.items[u] = NoKey \/ list'.items[u].uid = u
    BY <1>4, PageApplyList DEF RowInv
  <2> QED BY <2>1 DEF RowInv
<1>5. CASE RemoveApply
  <2>1. ASSUME NEW u \in Uid PROVE list'.items[u] \in {NoKey, list.items[u]}
    BY <1>5, RemoveApplyRows DEF Items
  <2> QED BY <2>1 DEF RowInv
<1>6. CASE User
  BY <1>1, <1>2, <1>6, ListKeptActions, RowsKeptActions DEF User
<1>7. CASE Background
  BY <1>1, <1>7, ListKeptActions, RowsKeptActions DEF Background
<1>8. CASE Dispatch
  BY <1>1, <1>3, <1>4, <1>5, <1>8, ListKeptActions, RowsKeptActions DEF Dispatch
<1> QED BY <1>1, <1>6, <1>7, <1>8, ListKeptActions, RowsKeptActions DEF Next

\* The kinds of steps, by what they do to the queue and the pump.
LEMMA StepKinds ==
  ASSUME TypeInv, [Next]_vars
  PROVE  \/ Quiet \/ Proceed \/ End \/ PumpPop \/ SelectCommand \/ SelectApply
         \/ \E m \in Mailbox : Reselect(m)
         \/ \E m \in Mailbox : Renew(m)
<1>1. CASE UNCHANGED vars
  BY <1>1 DEF Quiet, QueueStep, vars, pump, server
<1>2. CASE User
  BY <1>2, QuietActions, ReselectActions DEF User
<1>3. CASE Background
  BY <1>3, QuietActions, ReselectActions DEF Background
<1>4. CASE Dispatch
  BY <1>4, ProceedActions, EndActions DEF Dispatch
<1> QED BY <1>1, <1>2, <1>3, <1>4 DEF Next

\* A re-selection is queued by the steps that queue one and taken by PumpPop.
LEMMA QueuedNext ==
  ASSUME RunInv, [Next]_vars
  PROVE  SelectQueued' \/ PumpPop \/ ~SelectQueued
<1>1. QueueInv /\ TypeInv
  BY DEF RunInv
<1>2. CASE Quiet
  BY <1>1, <1>2, QueueStepProperties DEF Quiet
<1>3. CASE End
  BY <1>1, <1>3, QueueStepProperties DEF End
<1>4. CASE Proceed
  BY <1>4 DEF Proceed, SelectQueued
<1>5. ASSUME NEW m \in Mailbox, Reselect(m) PROVE SelectQueued'
  BY <1>5, ReselectProperties
<1>6. ASSUME NEW m \in Mailbox, Renew(m) PROVE SelectQueued' <=> SelectQueued
  BY <1>1, <1>6, RenewProperties DEF SelectQueued
<1>7. CASE SelectCommand
  BY <1>1, <1>7, SelectCommandProperties DEF SelectQueued
<1>8. CASE SelectApply
  BY <1>8, SelectApplyProperties DEF SelectQueued
<1> QED BY <1>1, <1>2, <1>3, <1>4, <1>5, <1>6, <1>7, <1>8, StepKinds

\* Unless it is refused or its answer lost, SELECT selects what it was sent
\* for and says how many messages there are.
LEMMA SelectCommandFaultless ==
  ASSUME AllTypes, SelectCommand, faults' = "none"
  PROVE  /\ op' = op /\ op.type = "SelectMailbox" /\ op.mailbox \in Mailbox /\ stage' = "apply"
         /\ reply'.ok /\ selected' = op.mailbox /\ reply'.exists = Len(box[op.mailbox]) /\ box' = box
<1>1. op.type = "SelectMailbox" /\ op' = op /\ stage' = "apply" /\ box' = box
  BY DEF SelectCommand, Running
<1>2. op.mailbox \in Mailbox
  BY <1>1, GoesTo DEF AllTypes
<1>3. PICK ok \in BOOLEAN, done \in BOOLEAN :
        /\ Outcome(TRUE, ok, done)
        /\ selected' = IF done THEN op.mailbox ELSE NoMailbox
        /\ \E v \in {0, validity[op.mailbox]} :
             reply' = IF ok THEN [NoReply EXCEPT !.ok = TRUE, !.validity = v,
                                                 !.exists = Len(box[op.mailbox])]
                      ELSE NoReply
  BY DEF SelectCommand
<1>4. ok /\ done
  <2>1. ~Refused
    BY DEF Refused
  <2> QED BY <1>3, <2>1 DEF Outcome
<1>5. PICK v : reply' = [NoReply EXCEPT !.ok = TRUE, !.validity = v, !.exists = Len(box[op.mailbox])]
  BY <1>3, <1>4
<1>6. reply'.ok /\ reply'.exists = Len(box[op.mailbox])
  BY <1>5 DEF NoReply
<1> QED BY <1>1, <1>2, <1>3, <1>4, <1>6

\* While no mailbox is selected a re-selection stays due.
LEMMA SelectNext ==
  ASSUME AllTypes, RunInv, SelectInv, [Next]_vars, faults' = "none"
  PROVE  SelectInv'
<1>1. TypeInv /\ QueueInv
  BY DEF RunInv
<1>2. CASE Quiet
  <2>1. SelectQueued' <=> SelectQueued
    BY <1>1, <1>2, QueueStepProperties DEF Quiet
  <2> QED BY <1>2, <2>1 DEF Quiet, SelectInv, SelectComing
<1>3. CASE End
  <2>1. SelectQueued' <=> SelectQueued
    BY <1>1, <1>3, QueueStepProperties DEF End
  <2> QED BY <1>3, <2>1 DEF End, SelectInv
<1>4. CASE Proceed
  BY <1>4 DEF Proceed, SelectInv, SelectQueued
<1>5. ASSUME NEW m \in Mailbox, Reselect(m) PROVE SelectInv'
  BY <1>5, ReselectProperties DEF SelectInv
<1>6. ASSUME NEW m \in Mailbox, Renew(m) PROVE SelectInv'
  BY <1>1, <1>6, RenewProperties DEF SelectInv, SelectQueued, SelectComing
<1>7. CASE PumpPop
  <2>1. /\ op'.type = "SelectMailbox" => stage' = "start"
        /\ op'.type # "SelectMailbox" => ~SelectQueued
    BY <1>1, <1>7, PopProperties
  <2>2. op.type = "none" /\ selected' = selected
    BY <1>7 DEF PumpPop, server, NoOp
  <2> QED BY <2>1, <2>2 DEF SelectInv, SelectComing
<1>8. CASE SelectCommand
  BY <1>8, SelectCommandFaultless, MailboxAssumption DEF SelectInv
<1>9. CASE SelectApply
  BY <1>9, SelectApplyProperties DEF SelectInv, SelectQueued
<1> QED BY <1>1, <1>2, <1>3, <1>4, <1>5, <1>6, <1>7, <1>8, <1>9, StepKinds

\* What a re-selection brings stays true of the mailbox until it is shown.
LEMMA ReloadNext ==
  ASSUME AllTypes, RunInv, StageInv, ReloadInv, [Next]_vars, faults' = "none"
  PROVE  ReloadInv'
<1> SUFFICES ASSUME op'.type = "SelectMailbox"
             PROVE  /\ stage' \in {"apply", "range", "fetch"} =>
                         selected' = op'.mailbox /\ reply'.ok /\ reply'.exists <= Len(box'[selected'])
                    /\ stage' = "fetch" => reply'.first <= reply'.last /\ reply'.last = reply'.exists
                    /\ stage' = "rows"  => reply'.page # <<>>
  BY DEF ReloadInv
<1>1. TypeInv
  BY DEF RunInv
<1>2. CASE ReplyKept /\ op' = op
  <2>1. op.type = "SelectMailbox" /\ stage' = stage /\ reply' = reply
    BY <1>2 DEF ReplyKept
  <2>2. op.mailbox \in Mailbox
    BY <2>1, GoesTo DEF AllTypes
  <2>3. ASSUME stage \in {"apply", "range", "fetch"}
        PROVE  selected' = op.mailbox /\ reply.ok /\ reply.exists <= Len(box'[selected'])
    <3>1. selected = op.mailbox /\ reply.ok /\ reply.exists <= Len(box[selected])
      BY <2>1, <2>3 DEF ReloadInv
    <3>2. op.type \in ByNumber /\ stage # "command"
      BY <2>1, <2>3 DEF ByNumber
    <3>3. selected' = selected /\ Len(box[selected]) <= Len(box'[selected])
      BY <1>1, <2>2, <3>1, <3>2, SelectedStill, MailboxAssumption
    <3>4. Len(box[selected]) \in Nat /\ reply.exists \in Nat
      BY <2>2, <3>1 DEF AllTypes, ServerTypes, ReplyTypes, Replies
    <3>5. box' \in [Mailbox -> Seq(Uid)]
      BY <1>1, ServerTypesNext DEF ServerTypes
    <3>6. Len(box'[selected]) \in Nat
      BY <2>2, <3>1, <3>5
    <3> QED BY <3>1, <3>3, <3>4, <3>6
  <2> QED BY <1>2, <2>1, <2>3 DEF ReloadInv
<1>3. CASE PumpPop
  <2>1. stage' = "start"
    BY <1>3, PopProperties DEF RunInv
  <2> QED BY <2>1
<1>4. CASE SelectStart
  <2>1. stage' = "command"
    BY <1>4 DEF SelectStart
  <2> QED BY <2>1
<1>5. CASE SelectCommand
  <2>1. /\ op' = op /\ op.mailbox \in Mailbox /\ stage' = "apply" /\ reply'.ok
        /\ selected' = op.mailbox /\ reply'.exists = Len(box[op.mailbox]) /\ box' = box
    BY <1>5, SelectCommandFaultless
  <2>2. Len(box[op.mailbox]) \in Nat
    BY <2>1 DEF AllTypes, ServerTypes
  <2> QED BY <2>1, <2>2
<1>6. CASE SelectApply
  <2>1. UNCHANGED <<op, reply, selected, box>> /\ stage = "apply" /\ stage' = "range"
    BY <1>6 DEF SelectApply, Running, server
  <2> QED BY <2>1 DEF ReloadInv
<1>7. CASE PageRange
  BY <1>7, PageRangeReply DEF ReloadInv
<1>8. CASE PageFetch
  <2>1. stage = "fetch" /\ stage' = "rows" /\ op' = op
    BY <1>8, PageFetchReply
  <2>2. op.mailbox \in Mailbox
    BY <2>1, GoesTo DEF AllTypes
  <2>3. selected = op.mailbox /\ reply.first <= reply.last /\ reply.last <= Len(box[selected])
    BY <2>1 DEF ReloadInv
  <2>4. selected # NoMailbox /\ box[selected] \in Seq(Uid) 
    BY <2>2, <2>3, MailboxAssumption DEF AllTypes, ServerTypes
  <2>5. reply.last <= Len(box[selected])
    BY <2>3, <2>4
  <2>6. reply'.page # <<>>
    BY <1>8, <2>3, <2>4, <2>5, PageFetchReply
  <2> QED BY <2>1, <2>6
<1>9. CASE SelectFailed \/ PageNothing \/ PageApply \/ LoadApply \/ FlagCommand \/ RemoveApply
  <2>1. op' = NoOp
    BY <1>9 DEF SelectFailed, PageNothing, PageApply, LoadApply, FlagCommand, RemoveApply, Finish
  <2> QED BY <2>1 DEF NoOp
<1>10. CASE LoadCommand \/ DeleteCommand \/ MoveCommand
  <2>1. op' = op /\ op.type # "SelectMailbox"
    BY <1>10 DEF LoadCommand, DeleteCommand, MoveCommand, Running
  <2> QED BY <2>1
<1>11. CASE Dispatch
  BY <1>3, <1>4, <1>5, <1>6, <1>7, <1>8, <1>9, <1>10, <1>11 DEF Dispatch
<1> QED BY <1>2, <1>11, ReplyKeptActions DEF Next

\* What is announced is there to be handled.
LEMMA AnnouncedStays ==
  ASSUME AllTypes, NEW m, NEW kind, NEW n, Announced(m, kind, n)
  PROVE  notices' # <<>>
<1>1. notices \in Seq(Notices)
  BY DEF AllTypes, ListTypes
<1>2. \A e : Append(notices, e) # <<>>
  <2> TAKE e
  <2>1. notices \in Seq(Notices \union {e})
    BY <1>1
  <2>2. Len(Append(notices, e)) = Len(notices) + 1 /\ Len(notices) \in Nat
    BY <2>1
  <2>3. Len(<<>>) = 0
    OBVIOUS
  <2> QED BY <2>2, <2>3
<1> QED BY <1>2 DEF Announced

LEMMA NoticesNext ==
  ASSUME AllTypes, [Next]_vars, notices' = <<>>
  PROVE  \/ notices = <<>> \/ HandleNotice
<1>1. CASE User
  BY <1>1 DEF User, SelectMailbox, ConfirmMove, ClickEmail, ChangeFlag, Ask, LoadMore, ConfirmDelete, Cancel, MailSent
<1>2. CASE Background
  <2>1. \A m \in Mailbox : Deliver(m) => notices' = notices \/ \E kind, n : Announced(m, kind, n)
    BY DEF Deliver
  <2>2. \A m \in Mailbox, u \in Uid : OtherExpunge(m, u) => notices' = notices \/ \E kind, n : Announced(m, kind, n)
    BY DEF OtherExpunge
  <2>3. (\E m \in Mailbox : Renew(m)) \/ (\E k \in Message : Evict(k)) => notices' = notices
    BY DEF Renew, Evict
  <2> QED BY <1>2, <2>1, <2>2, <2>3, AnnouncedStays DEF Background
<1>3. CASE Dispatch
  <2>1. PumpPop \/ SelectStart \/ SelectCommand \/ SelectFailed \/ SelectApply => notices' = notices
    BY DEF PumpPop, SelectStart, SelectCommand, SelectFailed, SelectApply
  <2>2. PageRange \/ PageNothing \/ PageFetch \/ PageApply => notices' = notices
    BY DEF PageRange, PageNothing, PageFetch, PageApply
  <2>3. LoadCommand \/ LoadApply \/ FlagCommand \/ DeleteCommand \/ MoveCommand \/ RemoveApply => notices' = notices
    BY DEF LoadCommand, LoadApply, FlagCommand, DeleteCommand, MoveCommand, RemoveApply
  <2> QED BY <1>3, <2>1, <2>2, <2>3 DEF Dispatch
<1>4. CASE UNCHANGED vars
  BY <1>4 DEF vars
<1> QED BY <1>1, <1>2, <1>3, <1>4 DEF Next

\* A command that removes a message removes none but it.
LEMMA RemovalFaultless ==
  ASSUME AllTypes, DeleteCommand \/ MoveCommand, faults' = "none"
  PROVE  /\ op' = op /\ op.type \in {"Delete", "Move"} /\ stage = "command" /\ stage' = "apply"
         /\ UNCHANGED <<current, list, selected, validity>>
         /\ ~reply'.ok => \A m \in Mailbox : \A i \in DOMAIN box[m] :
                            \E k \in DOMAIN box'[m] : box'[m][k] = box[m][i]
         /\ \A m \in Mailbox : \A i \in DOMAIN box[m] : box[m][i] # op.uid =>
              \E k \in DOMAIN box'[m] : box'[m][k] = box[m][i]
<1>1. /\ op' = op /\ op.type \in {"Delete", "Move"} /\ stage = "command" /\ stage' = "apply"
      /\ UNCHANGED <<current, list, selected, validity>>
  BY DEF DeleteCommand, MoveCommand, Running
<1>2. ~Refused
  BY DEF Refused
<1>3. ServerTypes /\ box \in [Mailbox -> Seq(Uid)]
  BY DEF AllTypes, ServerTypes
<1>4. NoReply.ok = FALSE /\ \A b : [NoReply EXCEPT !.ok = TRUE, !.body = b].ok
  BY DEF NoReply
<1> DEFINE gone == Expunged(selected, op.uid)
<1>5. /\ gone \in [Mailbox -> Seq(Uid)]
      /\ \A b \in Mailbox : b # selected => gone[b] = box[b]
      /\ \A b \in Mailbox : \A i \in DOMAIN box[b] : box[b][i] # op.uid =>
           \E k \in DOMAIN gone[b] : gone[b][k] = box[b][i]
  BY <1>3, ExpungedTypes
<1> HIDE DEF gone, NoReply
<1>6. CASE DeleteCommand
  <2>1. PICK ok \in BOOLEAN, done \in BOOLEAN :
          /\ Outcome(Executable, ok, done)
          /\ box' = IF done THEN gone ELSE box
          /\ reply' = IF ok THEN [NoReply EXCEPT !.ok = TRUE, !.body = Found] ELSE NoReply
    BY <1>6 DEF DeleteCommand, gone
  <2>2. ok <=> done
    BY <1>2, <2>1 DEF Outcome
  <2>3. reply'.ok <=> ok
    BY <1>4, <2>1
  <2> QED BY <1>1, <1>5, <2>1, <2>2, <2>3
<1>7. CASE MoveCommand
  <2>1. PICK ok \in BOOLEAN, copied \in BOOLEAN, removed \in BOOLEAN :
          /\ \/ removed = copied /\ Outcome(Executable, ok, copied)
             \/ /\ copied /\ ~removed /\ Executable
                /\ IF ok THEN Refused ELSE faults' = "lost"
          /\ copied => uidnext[op.mailbox] <= MaxUid
          /\ reply' = IF ok THEN [NoReply EXCEPT !.ok = TRUE, !.body = Found] ELSE NoReply
          /\ LET left == IF removed THEN gone ELSE box
             IN \/ /\ copied /\ Present
                   /\ box' = [left EXCEPT ![op.mailbox] = Append(@, uidnext[op.mailbox])]
                   /\ uidnext' = [uidnext EXCEPT ![op.mailbox] = @ + 1]
                \/ /\ ~(copied /\ Present)
                   /\ box' = left
                   /\ UNCHANGED uidnext
    BY <1>7 DEF MoveCommand, gone
  <2>2. ok <=> removed
    BY <1>2, <2>1 DEF Outcome
  <2>3. reply'.ok <=> ok
    BY <1>4, <2>1
  <2> DEFINE left == IF removed THEN gone ELSE box
             uid  == uidnext[op.mailbox]
  <2>4. left \in [Mailbox -> Seq(Uid)]
    BY <1>3, <1>5
  <2>8. \A m \in Mailbox : \A i \in DOMAIN box[m] : box[m][i] # op.uid \/ ~removed =>
             \E k \in DOMAIN left[m] : left[m][k] = box[m][i]
    BY <1>3, <1>5
  <2>5. box' \in {left, [left EXCEPT ![op.mailbox] = Append(@, uid)]}
    BY <2>1
  <2> HIDE DEF left, uid
  <2>6. ASSUME NEW m \in Mailbox, NEW k \in DOMAIN left[m]
        PROVE  k \in DOMAIN box'[m] /\ box'[m][k] = left[m][k]
    <3>1. left[m] \in Seq(Uid)
      BY <2>4
    <3>2. k \in DOMAIN Append(left[m], uid) /\ Append(left[m], uid)[k] = left[m][k]
      BY <3>1
    <3>3. box'[m] \in {left[m], Append(left[m], uid)}
      BY <2>4, <2>5
    <3> QED BY <3>2, <3>3
  <2>7. ASSUME NEW m \in Mailbox, NEW i \in DOMAIN box[m], box[m][i] # op.uid \/ ~removed
        PROVE  \E k \in DOMAIN box'[m] : box'[m][k] = box[m][i]
    <3>1. PICK k \in DOMAIN left[m] : left[m][k] = box[m][i]
      BY <2>7, <2>8
    <3> QED BY <2>6, <3>1
  <2> QED BY <1>1, <2>2, <2>3, <2>7
<1> QED BY <1>6, <1>7

\* While nothing is being re-selected, what is current is selected.
LEMMA CurrentSelected ==
  ASSUME RunInv, SelectInv, ~SelectQueued, ~SelectComing
  PROVE  selected = current /\ selected \in Mailbox
BY DEF RunInv, TargetInv, TypeInv, SelectInv

\* What is right of a row, or about to be put right.
Shown(u) == \/ list.items[u] = NoKey
            \/ Holds(current, list.items[u])
            \/ list.items[u] \in missed
Fine(u)  == Shown(u) \/ Removing(u)

\* So does what others do to the mailbox, unless a notice of it is to be handled.
LEMMA FreshBackground ==
  ASSUME AllTypes, RunInv, SelectInv, Background,
         notices' = <<>>, ~SelectQueued, op.type # "SelectMailbox",
         NEW u \in Uid, Fine(u)
  PROVE  Fine(u)'
<1>1. ReplyKept /\ op' = op
  BY ReplyKeptActions
<1>2. Removing(u) => Removing(u)'
  BY <1>1 DEF ReplyKept, Removing
<1>3. TypeInv /\ box \in [Mailbox -> Seq(Uid)] /\ validity \in [Mailbox -> Validity]
  BY DEF RunInv, AllTypes, ServerTypes
<1>4. selected = current /\ current \in Mailbox
  <2>1. ~SelectComing
    BY DEF SelectComing
  <2> QED BY <2>1, CurrentSelected
<1>5. ASSUME RowsKept, validity'[current] = validity[current], missed' = missed,
             \A i \in DOMAIN box[current] : \E k \in DOMAIN box'[current] : box'[current][k] = box[current][i]
      PROVE  Fine(u)'
  <2>1. CASE Removing(u)
    BY <1>2, <2>1 DEF Fine
  <2>2. CASE list.items[u] = NoKey \/ list.items[u] \in missed
    BY <1>5, <2>2 DEF Fine, Shown, RowsKept
  <2>3. CASE Holds(current, list.items[u])
    BY <1>5, <2>3 DEF Fine, Shown, RowsKept, Holds
  <2> QED BY <2>1, <2>2, <2>3 DEF Fine, Shown
<1>6. ASSUME HandleNotice PROVE Fine(u)'
  <2>1. RowsKept /\ ServerKept
    BY <1>6, RowsKeptActions, ServerKeptActions
  <2> QED BY <1>5, <2>1 DEF ServerKept
<1>7. ASSUME NEW m \in Mailbox, Deliver(m) PROVE Fine(u)'
  <2>1. RowsKept
    BY <1>7, RowsKeptActions
  <2>2. UNCHANGED <<validity, missed>> /\ box' = [box EXCEPT ![m] = Append(@, uidnext[m])]
    BY <1>7 DEF Deliver
  <2>3. ASSUME NEW i \in DOMAIN box[current]
        PROVE  \E k \in DOMAIN box'[current] : box'[current][k] = box[current][i]
    <3> DEFINE s == box[current]
               e == uidnext[m]
    <3>1. box'[current] \in {s, Append(s, e)} /\ s \in Seq(Uid) /\ i \in DOMAIN s
      BY <1>3, <1>4, <2>2
    <3> HIDE DEF s, e
    <3>2. i \in DOMAIN Append(s, e) /\ Append(s, e)[i] = s[i]
      BY <3>1
    <3>3. i \in DOMAIN box'[current] /\ box'[current][i] = s[i]
      BY <3>1, <3>2
    <3> QED BY <3>3 DEF s
  <2> QED BY <1>5, <2>1, <2>2, <2>3
<1>8. ASSUME NEW m \in Mailbox, NEW x \in Uid, OtherExpunge(m, x) PROVE Fine(u)'
  <2>0. RowsKept
    BY <1>8, RowsKeptActions
  <2>1. validity' = validity /\ box' = Expunged(m, x)
        /\ missed' = IF m # selected THEN missed
                     ELSE missed \union {[mailbox |-> m, validity |-> validity[m], uid |-> x]}
    BY <1>8, AnnouncedStays DEF OtherExpunge, Announced
  <2>2. CASE m # selected
    <3>1. box'[current] = box[current] /\ missed' = missed
      BY <1>3, <1>4, <2>1, <2>2 DEF Expunged
    <3> QED BY <1>5, <2>0, <2>1, <3>1
  <2>3. CASE m = selected
    <3>1. CASE Removing(u) \/ list.items[u] = NoKey \/ list.items[u] \in missed
      BY <1>2, <2>0, <2>1, <3>1 DEF Fine, Shown, RowsKept
    <3>2. CASE Holds(current, list.items[u]) /\ list.items[u] # NoKey
      <4>1. list.items[u] \in Message
        BY <3>2 DEF AllTypes, ListTypes, Lists, Items, Rows
      <4>2. PICK i \in DOMAIN box[current] : box[current][i] = list.items[u].uid
        BY <3>2 DEF Holds
      <4>3. CASE list.items[u].uid = x
        <5>1. list.items[u] = [mailbox |-> m, validity |-> validity[m], uid |-> x]
          BY <1>4, <2>3, <3>2, <4>1, <4>3 DEF Holds, Message
        <5>2. list.items[u] \in missed'
          BY <2>1, <2>3, <5>1
        <5> QED BY <2>0, <5>2 DEF Fine, Shown, RowsKept
      <4>4. CASE list.items[u].uid # x
        <5>1. \E k \in DOMAIN box'[current] : box'[current][k] = list.items[u].uid
          BY <1>4, <2>1, <4>2, <4>4, ExpungedTypes DEF AllTypes
        <5> QED BY <2>0, <2>1, <3>2, <5>1 DEF Fine, Shown, RowsKept, Holds
      <4> QED BY <4>3, <4>4
    <3> QED BY <3>1, <3>2 DEF Fine, Shown
  <2> QED BY <2>2, <2>3
<1>9. ASSUME NEW m \in Mailbox, Renew(m) PROVE Fine(u)'
  <2>1. RowsKept
    BY <1>9, ListKeptActions, RowsKeptActions
  <2>2. m # selected /\ (\A b \in Mailbox : b # m => validity'[b] = validity[b]) /\ UNCHANGED <<box, missed>>
    BY <1>3, <1>9, RenewProperties DEF Renew
  <2> QED BY <1>4, <1>5, <2>1, <2>2
<1>10. ASSUME NEW k \in Message, Evict(k) PROVE Fine(u)'
  <2>1. RowsKept /\ ServerKept
    BY <1>10, ListKeptActions, RowsKeptActions, ServerKeptActions
  <2> QED BY <1>5, <2>1 DEF ServerKept
<1> QED BY <1>6, <1>7, <1>8, <1>9, <1>10 DEF Background

\* A step of the pump leaves every row right, or about to be.
LEMMA FreshDispatch ==
  ASSUME AllTypes, RunInv, StageInv, PageInv, RowInv, SelectInv, ReloadInv, FreshInv,
         Dispatch, faults' = "none", notices = <<>>, ~SelectQueued', op'.type # "SelectMailbox",
         NEW u \in Uid
  PROVE  Fine(u)'
<1>1. QueueInv /\ TypeInv
  BY DEF RunInv
<1>2. ~SelectQueued
  <2>1. PumpPop => ~SelectQueued
    BY <1>1, PopProperties
  <2> QED BY <2>1, QueuedNext DEF Next
<1>3. op.type # "SelectMailbox" => Fine(u)
  BY <1>2 DEF FreshInv, Fine, Shown
\* What is so of a row without being due to a removal stays so.
<1>4. ASSUME RowsKept, UNCHANGED <<validity, box, missed>>, op.type # "SelectMailbox", ~Removing(u)
      PROVE  Fine(u)'
  <2>1. Shown(u)
    BY <1>3, <1>4 DEF Fine
  <2> QED BY <1>4, <2>1 DEF Fine, Shown, RowsKept, Holds
<1>5. CASE PumpPop
  <2>1. op.type = "none"
    BY <1>5 DEF PumpPop, NoOp
  <2>2. RowsKept /\ ServerKept
    BY <1>5, ListKeptActions, RowsKeptActions, ServerKeptActions
  <2> QED BY <1>4, <2>1, <2>2 DEF ServerKept, Removing
<1>6. CASE SelectStart \/ SelectCommand \/ SelectApply
  BY <1>6 DEF SelectStart, SelectCommand, SelectApply, Running
<1>7. CASE SelectFailed
  BY <1>7 DEF SelectFailed, Running, ReloadInv
<1>8. CASE PageRange \/ PageFetch
  <2>1. UNCHANGED <<op, list, current, validity, box, missed>> /\ stage \in {"range", "fetch"}
    BY <1>8 DEF PageRange, PageFetch, server
  <2> QED BY <1>4, <2>1 DEF RowsKept, Removing
<1>9. CASE PageNothing
  <2>1. \/ stage = "empty" /\ list'.items = NoRows
        \/ stage = "end" /\ list'.items = list.items
    BY <1>9, PageNothingList
  <2>2. UNCHANGED <<current, validity, box, missed>>
    BY <1>9 DEF PageNothing, server
  <2>3. CASE stage = "empty" /\ list'.items = NoRows
    BY <2>3 DEF Fine, Shown, NoRows
  <2>4. CASE stage = "end" /\ list'.items = list.items
    BY <1>4, <2>2, <2>4 DEF RowsKept, Removing, StageInv
  <2> QED BY <2>1, <2>3, <2>4
<1>10. CASE PageApply
  <2>1. stage = "rows" /\ UNCHANGED <<current, validity, box, missed>>
    BY <1>10 DEF PageApply, server
  <2>2. \/ /\ list'.items[u] = list.items[u]
           /\ reply.page = <<>> \/ op.type = "FetchMailboxPage"
        \/ list'.items[u] = NoKey
        \/ \E i \in DOMAIN reply.page : list'.items[u] = reply.page[i] /\ reply.page[i].uid = u
    BY <1>10, PageApplyList
  <2>3. CASE list'.items[u] = list.items[u] /\ (reply.page = <<>> \/ op.type = "FetchMailboxPage")
    <3>1. op.type # "SelectMailbox"
      BY <2>1, <2>3 DEF ReloadInv
    <3>2. Shown(u)
      BY <1>3, <2>1, <3>1 DEF Fine, Removing
    <3> QED BY <2>1, <2>3, <3>2 DEF Fine, Shown, Holds
  <2>4. CASE list'.items[u] = NoKey
    BY <2>4 DEF Fine, Shown
  <2>5. CASE \E i \in DOMAIN reply.page : list'.items[u] = reply.page[i] /\ reply.page[i].uid = u
    <3>1. PICK i \in DOMAIN reply.page : list'.items[u] = reply.page[i]
      BY <2>5
    <3>2. ~SelectComing
      BY <2>1 DEF SelectComing
    <3>3. selected = current
      BY <1>2, <3>2, CurrentSelected
    <3>4. Holds(current, reply.page[i])
      BY <3>3 DEF PageInv
    <3> QED BY <2>1, <3>1, <3>4 DEF Fine, Shown, Holds
  <2> QED BY <2>2, <2>3, <2>4, <2>5
<1>11. CASE LoadCommand \/ LoadApply \/ FlagCommand
  <2>1. op.type \in {"LoadEmail", "MarkRead", "ToggleFlag"} /\ UNCHANGED <<validity, box, missed>>
    BY <1>11 DEF LoadCommand, LoadApply, FlagCommand, Running, server
  <2>2. RowsKept
    BY <1>11, ListKeptActions, RowsKeptActions
  <2> QED BY <1>4, <2>1, <2>2 DEF Removing
<1>12. CASE DeleteCommand \/ MoveCommand
  <2>1. /\ op' = op /\ op.type \in {"Delete", "Move"} /\ stage = "command" /\ stage' = "apply"
        /\ UNCHANGED <<current, list, selected, validity>>
        /\ ~reply'.ok => \A m \in Mailbox : \A i \in DOMAIN box[m] :
                           \E k \in DOMAIN box'[m] : box'[m][k] = box[m][i]
        /\ \A m \in Mailbox : \A i \in DOMAIN box[m] : box[m][i] # op.uid =>
             \E k \in DOMAIN box'[m] : box'[m][k] = box[m][i]
    BY <1>12, RemovalFaultless
  <2>2. Shown(u)
    BY <1>3, <2>1 DEF Fine, Removing
  <2>3. CASE list.items[u] = NoKey \/ list.items[u] \in missed
    <3>1. missed' = missed
      BY <1>12 DEF DeleteCommand, MoveCommand
    <3> QED BY <2>1, <2>3, <3>1 DEF Fine, Shown
  <2>4. CASE Holds(current, list.items[u]) /\ list.items[u] # NoKey
    <3>1. list.items[u].uid = u /\ current \in Mailbox
      BY <1>1, <2>4 DEF RowInv, TypeInv
    <3>2. PICK i \in DOMAIN box[current] : box[current][i] = u
      BY <2>4, <3>1 DEF Holds
    <3>3. CASE reply'.ok /\ u = op.uid
      BY <2>1, <3>3 DEF Fine, Removing
    <3>4. CASE ~(reply'.ok /\ u = op.uid)
      <4>1. \E k \in DOMAIN box'[current] : box'[current][k] = u
        BY <2>1, <3>1, <3>2, <3>4
      <4> QED BY <2>1, <2>4, <3>1, <4>1 DEF Fine, Shown, Holds
    <3> QED BY <3>3, <3>4
  <2> QED BY <2>2, <2>3, <2>4 DEF Shown
<1>13. CASE RemoveApply
  <2>1. /\ current' = current /\ list.items \in Items
        /\ list'.items = IF reply.ok THEN [list.items EXCEPT ![op.uid] = NoKey] ELSE list.items
    BY <1>13, RemoveApplyRows
  <2>2. op.type \in {"Delete", "Move"} /\ UNCHANGED <<validity, box, missed>>
    BY <1>13 DEF RemoveApply, Running, server
  <2>3. CASE reply.ok /\ u = op.uid
    <3>1. list'.items[u] = NoKey
      BY <2>1, <2>3 DEF Items
    <3> QED BY <3>1 DEF Fine, Shown
  <2>4. CASE ~(reply.ok /\ u = op.uid)
    <3>1. list'.items[u] = list.items[u]
      BY <2>1, <2>4 DEF Items
    <3>2. Shown(u)
      BY <1>3, <2>2, <2>4 DEF Fine, Removing
    <3> QED BY <2>1, <2>2, <3>1, <3>2 DEF Fine, Shown, Holds
  <2> QED BY <2>3, <2>4
<1> QED BY <1>5, <1>6, <1>7, <1>8, <1>9, <1>10, <1>11, <1>12, <1>13 DEF Dispatch

LEMMA FreshNext ==
  ASSUME AllTypes, RunInv, StageInv, PageInv, RowInv, SelectInv, ReloadInv, FreshInv,
         [Next]_vars, faults' = "none"
  PROVE  FreshInv'
<1> SUFFICES ASSUME ~SelectQueued', notices' = <<>>, op'.type # "SelectMailbox", NEW u \in Uid
             PROVE  Fine(u)'
  BY DEF FreshInv, Fine, Shown
<1>1. TypeInv
  BY DEF RunInv
<1>2. notices = <<>>
  <2>1. HandleNotice => \E m \in Mailbox : Reselect(m)
    BY <1>1, ReselectActions
  <2> QED BY <2>1, NoticesNext, ReselectProperties
<1>3. CASE Dispatch
  BY <1>2, <1>3, FreshDispatch
<1>4. CASE ~Dispatch
  <2>1. ~SelectQueued /\ ReplyKept /\ op' = op
    BY <1>4, QueuedNext, ReplyKeptActions DEF Next, Dispatch
  <2>2. Fine(u)
    BY <1>2, <2>1 DEF FreshInv, Fine, Shown
  <2>3. CASE RowsKept /\ ServerKept
    BY <2>1, <2>2, <2>3 DEF Fine, Shown, RowsKept, ServerKept, ReplyKept, Holds, Removing
  <2>4. CASE Background
    BY <1>2, <2>1, <2>2, <2>4, FreshBackground
  <2>5. CASE User
    <3>1. ~(\E m \in Mailbox : SelectMailbox(m))
      BY <1>1, ReselectActions, ReselectProperties
    <3>2. RowsKept
      BY <2>5, <3>1, ListKeptActions, RowsKeptActions DEF User
    <3> QED BY <2>3, <2>5, <3>2, ServerKeptActions
  <2>6. CASE UNCHANGED vars
    BY <2>3, <2>6, ListKeptActions, RowsKeptActions, ServerKeptActions
  <2> QED BY <1>4, <2>4, <2>5, <2>6 DEF Next
<1> QED BY <1>3, <1>4

\* While the server has refused nothing and left nothing unanswered, the rows
\* on display are messages of the mailbox, but for those removed without a
\* notice, or a re-selection is on its way to make them so.
THEOREM ViewInvInductive == Spec => []ViewInv
<1>1. Init => ViewInv
  <2> SUFFICES ASSUME Init PROVE ViewInv
    OBVIOUS
  <2>1. /\ op = NoOp /\ NoOp.type = "none" /\ stage = "none"
        /\ queue = <<SelectOp(Inbox)>> /\ SelectOp(Inbox).type = "SelectMailbox"
    BY DEF Init, NoOp, SelectOp
  <2>2. reply.page = <<>>
    BY DEF Init, NoReply
  <2>3. list.items = NoRows /\ \A u \in Uid : NoRows[u] = NoKey
    BY DEF Init, NewList, NoRows
  <2>4. SelectQueued
    BY <2>1 DEF SelectQueued
  <2>5. StageInv /\ PageInv /\ RowInv
    BY <2>1, <2>2, <2>3 DEF StageInv, PageInv, RowInv, Listing
  <2>6. SelectInv /\ ReloadInv /\ FreshInv
    BY <2>1, <2>4 DEF SelectInv, ReloadInv, FreshInv
  <2> QED BY <2>5, <2>6 DEF ViewInv, FaultlessInv
<1>2. AllTypes /\ RunInv /\ ViewInv /\ [Next]_vars => ViewInv'
  <2> SUFFICES ASSUME AllTypes, RunInv, ViewInv, [Next]_vars PROVE ViewInv'
    OBVIOUS
  <2>1. TypeInv /\ StageInv /\ PageInv /\ RowInv
    BY DEF RunInv, ViewInv
  <2>2. StageInv' /\ PageInv' /\ RowInv'
    BY <2>1, StageNext, PageNext, RowsNext
  <2>3. ASSUME faults' = "none" PROVE SelectInv' /\ ReloadInv' /\ FreshInv'
    <3>1. SelectInv /\ ReloadInv /\ FreshInv
      BY <2>3, FaultlessBefore DEF ViewInv, FaultlessInv
    <3> QED BY <2>1, <2>3, <3>1, SelectNext, ReloadNext, FreshNext
  <2> QED BY <2>2, <2>3 DEF ViewInv, FaultlessInv
<1> QED BY <1>1, <1>2, AllTypesInductive, RunInvInductive, PTL DEF Spec

\* When everything has been processed and the server refused nothing, the
\* window shows the mailbox that is selected, with its UIDVALIDITY, and none
\* but messages the server holds in it or others have removed from it without
\* a notice since the last SELECT, for any number of mailboxes, messages, clicks
\* and changes made by others, announced or not.
THEOREM QuiescentTheorem == Spec => []QuiescentView
<1>1. AllTypes /\ RunInv /\ BodyInv /\ ViewInv => QuiescentView
  <2> SUFFICES ASSUME AllTypes, RunInv, BodyInv, ViewInv,
                      queue = <<>>, op = NoOp, notices = <<>>, faults = "none"
               PROVE  /\ selected = current /\ uv \in {0, validity[current]}
                      /\ \A u \in Uid : Shown(u)
    BY DEF QuiescentView, Shown
  <2>1. op.type = "none"
    BY DEF NoOp
  <2>2. ~SelectQueued /\ ~SelectComing
    BY <2>1 DEF SelectQueued, SelectComing
  <2>3. SelectInv /\ FreshInv
    BY DEF ViewInv, FaultlessInv
  <2>4. selected = current /\ selected \in Mailbox
    BY <2>2, <2>3, CurrentSelected
  <2>5. uv \in {0, validity[current]}
    <3>1. UvInv /\ Settled
      BY <2>1, <2>2 DEF BodyInv, PumpInv, Settled
    <3> QED BY <2>4, <3>1, MailboxAssumption DEF UvInv
  <2>6. \A u \in Uid : Shown(u)
    BY <2>1, <2>2, <2>3 DEF FreshInv, Removing, Shown
  <2> QED BY <2>4, <2>5, <2>6
<1> QED BY <1>1, AllTypesInductive, RunInvInductive, BodyInvInductive, ViewInvInductive, PTL

=============================================================================
