---------------------------- MODULE MailboxView ----------------------------
(***************************************************************************)
(* What the main window shows of a mailbox and how it is brought there:    *)
(* the handlers of the Qt thread that enqueue IMAP operations, and         *)
(* dispatchImapOperation, which runs them one at a time on the io_context  *)
(* thread and hands each result back to the Qt thread.  The user goes on   *)
(* clicking while an operation is under way, so every completion may meet  *)
(* a mailbox, a UIDVALIDITY, a listing and a pending message other than    *)
(* those its operation was enqueued with.                                  *)
(*                                                                         *)
(* ImapSession says when the pump runs; here it runs whenever something is *)
(* queued.  The server executes a command in the mailbox selected then.    *)
(***************************************************************************)
EXTENDS ImapCommandQueue, EmailList

CONSTANTS
  Inbox,        \* the mailbox shown first
  Sent,         \* the mailbox copies of sent mail go to
  PageSize,     \* EMAILS_PER_PAGE
  InitialMail,  \* bound: messages of each mailbox at the start
  MaxValidity,  \* bound: values of UIDVALIDITY a mailbox takes
  MaxClicks,    \* bound: what the user asks for
  MaxChanges    \* bound: changes made by others than this client

ASSUME ViewAssumption ==
  /\ Inbox \in Mailbox /\ Sent \in Mailbox
  /\ PageSize \in Nat \ {0} /\ InitialMail \in 0..MaxUid
  /\ MaxValidity \in Nat \ {0} /\ MaxClicks \in Nat /\ MaxChanges \in Nat

VARIABLES
  \* MainWindow, on the Qt thread
  current,     \* m_currentMailbox
  uv,          \* m_currentMailboxUidValidity
  list,        \* m_emailListManager
  pendingKey,  \* m_pendingDisplayKey
  shownKey,    \* m_displayedMessageKey
  reader,      \* the message whose body is in the reader pane
  cache,       \* m_messageCache: [key -> body]
  reserved,    \* m_messageCache: the keys with a fetch in flight
  dialog,      \* the modal dialog on display
  notices,     \* queued calls of handleIdleServerNotification
  queue,       \* ImapCommandQueue, with the operations' parameters
  \* dispatchImapOperation
  op, stage, reply,
  \* the server
  selected, validity, box, uidnext,
  \* history and bounds
  missed,      \* messages of the selected mailbox that others removed without
               \* a notice to the window, since it was selected
  faults,      \* the worst that has befallen a command: it was refused, or
               \* its answer was lost after it had been executed
  clicks, changes

shown   == <<pendingKey, shownKey, reader>>
bodies  == <<cache, reserved>>
pump    == <<op, stage, reply>>
server  == <<selected, validity, box, uidnext, missed>>
bounds  == <<clicks, changes>>
vars == <<current, uv, list, shown, bodies, dialog, notices, queue, pump,
          server, faults, bounds>>

Validity == 1..MaxValidity
Message  == [mailbox : Mailbox, validity : Validity, uid : Uid]

KeyOf(u)   == [mailbox |-> current, validity |-> uv, uid |-> u]
IsValid(k) == k.mailbox # NoMailbox /\ k.validity # 0 /\ k.uid # 0

-----------------------------------------------------------------------------
(* The queue of operations, by their types the queue of ImapCommandQueue.  *)

Kinds(q) == [i \in DOMAIN q |-> q[i].type]

\* Mutated form of EnqueueOp: a re-selection overtakes what is queued.
EnqueueOpOvertakes(q, o) == IF o.type = "SelectMailbox" THEN <<o>> \o q ELSE Append(q, o)

EnqueueOp(q, o) ==
  CASE o.type = "SelectMailbox" -> <<o>>
    [] o.type \in Coalesced ->
         Append([k \in DOMAIN Without(Kinds(q), o.type) |->
                   q[KeptPosition(Kinds(q), o.type, k)]], o)
    [] OTHER -> Append(q, o)

\* An operation with its parameters and, as history, the mailbox on display
\* when it was enqueued.
ImapOperation(type, u, m, append) ==
  [type |-> type, uid |-> u, mailbox |-> m, append |-> append, view |-> current]

Enqueues(type, u, m, append) ==
  queue' = EnqueueOp(queue, ImapOperation(type, u, m, append))

SelectOp(m) ==
  [type |-> "SelectMailbox", uid |-> 0, mailbox |-> m, append |-> TRUE,
   view |-> m]

\* No operation is being dispatched.
NoOp == [type |-> "none", uid |-> 0, mailbox |-> NoMailbox, append |-> FALSE,
         view |-> NoMailbox]

\* What a command brings back: whether it was accepted, what SELECT says, a
\* message, a page of the listing and the range it was asked for.
NoReply == [ok |-> FALSE, validity |-> 0, exists |-> 0, body |-> NoKey,
            page |-> <<>>, first |-> 0, last |-> 0]

Init ==
  /\ current = Inbox /\ uv = 0 /\ list = NewList(Inbox)
  /\ pendingKey = NoKey /\ shownKey = NoKey /\ reader = NoKey
  /\ cache = [k \in Message |-> NoKey] /\ reserved = {}
  /\ dialog = "none" /\ notices = <<>>
  /\ queue = <<SelectOp(Inbox)>>
  /\ op = NoOp /\ stage = "none" /\ reply = NoReply
  /\ selected = NoMailbox
  /\ validity = [m \in Mailbox |-> 1]
  /\ box = [m \in Mailbox |-> [i \in 1..InitialMail |-> i]]
  /\ uidnext = [m \in Mailbox |-> InitialMail + 1]
  /\ missed = {}
  /\ faults = "none"
  /\ clicks = 0 /\ changes = 0

-----------------------------------------------------------------------------
(* The Qt thread: the user.                                                *)

Click == dialog = "none" /\ clicks < MaxClicks /\ clicks' = clicks + 1

\* Mutated form of ResetReader: m_displayedMessageKey is not cleared.
ResetReaderKeepsKey(more) ==
  /\ reader' = NoKey
  /\ reserved' = reserved \ (more \union {shownKey})
  /\ UNCHANGED shownKey

\* resetEmailReader; more is what the caller releases besides.
ResetReader(more) ==
  /\ shownKey' = NoKey /\ reader' = NoKey
  /\ reserved' = reserved \ (more \union {shownKey})

\* Mutated form of ValidityUpon: the UIDVALIDITY of the mailbox left is kept.
ValidityUponKept(m) == uv

\* Going to another mailbox forgets the UIDVALIDITY until SELECT tells it.
ValidityUpon(m) == IF m # current THEN 0 ELSE uv

SelectMailbox(m) ==
  /\ Click
  /\ uv' = ValidityUpon(m)
  /\ current' = m
  /\ list' = IF HasValidCache(list, m)
             THEN DisplayCachedEmails(SetCurrentMailbox(list, m), m)
             ELSE ClearEmailList(SetCurrentMailbox(list, m))
  /\ ResetReader({})
  /\ queue' = EnqueueOp(queue, SelectOp(m))
  /\ UNCHANGED <<pendingKey, cache, dialog, notices, pump, server, faults, changes>>

\* applyParsedEmailBodyOnQt: the body of UID u has come, or NoKey for none;
\* pending is the key the user waits for.
ApplyBody(content, u, pending) ==
  LET key   == KeyOf(u)
      stale == IsValid(pending) /\ IsValid(key) /\ key # pending
  IN /\ cache' = IF content # NoKey /\ IsValid(key)
                 THEN [cache EXCEPT ![key] = content] ELSE cache
     /\ \/ /\ stale
           /\ reserved' = reserved \ {key}
           /\ UNCHANGED <<shownKey, reader, queue>>
        \/ /\ ~stale /\ content = NoKey
           /\ ResetReader({key})
           /\ UNCHANGED queue
        \/ /\ ~stale /\ content # NoKey
           /\ reserved' = reserved \ {key}
           /\ shownKey' = key /\ reader' = content
           /\ Enqueues("MarkRead", u, NoMailbox, TRUE)

\* loadEmailContent's branches, once the click is recorded.
ShowCached(u) ==
  /\ IsValid(KeyOf(u)) /\ cache[KeyOf(u)] # NoKey
  /\ ApplyBody(cache[KeyOf(u)], u, KeyOf(u))

AwaitFetch(u) ==
  /\ IsValid(KeyOf(u)) /\ cache[KeyOf(u)] = NoKey /\ KeyOf(u) \in reserved
  /\ UNCHANGED <<shownKey, reader, bodies, queue>>

FetchBody(u) ==
  /\ IsValid(KeyOf(u)) => cache[KeyOf(u)] = NoKey /\ KeyOf(u) \notin reserved
  /\ shownKey' = NoKey /\ reader' = NoKey
  /\ reserved' = (reserved \union (IF IsValid(KeyOf(u)) THEN {KeyOf(u)} ELSE {}))
                   \ {shownKey}
  /\ Enqueues("LoadEmail", u, NoMailbox, TRUE)
  /\ UNCHANGED cache

ClickEmail(u) ==
  /\ Click /\ list.items[u] # NoKey
  /\ list' = Select(list, list.items[u])
  /\ \/ /\ IsValid(shownKey) /\ KeyOf(u) = shownKey
        /\ UNCHANGED <<shown, bodies, queue>>
     \/ /\ ~(IsValid(shownKey) /\ KeyOf(u) = shownKey)
        /\ pendingKey' = KeyOf(u)
        /\ ShowCached(u) \/ AwaitFetch(u) \/ FetchBody(u)
  /\ UNCHANGED <<current, uv, dialog, notices, pump, server, faults, changes>>

\* onLoadMoreClicked, or scrolling to the end.
LoadMore ==
  /\ Click /\ list.more
  /\ Enqueues("FetchMailboxPage", 0, NoMailbox, TRUE)
  /\ UNCHANGED <<current, uv, list, shown, bodies, dialog, notices, pump,
                 server, faults, changes>>

\* onToggleReadClicked, onToggleStarClicked.
ChangeFlag(type) ==
  /\ Click /\ list.chosen.uid # 0
  /\ Enqueues(type, list.chosen.uid, NoMailbox, TRUE)
  /\ UNCHANGED <<current, uv, list, shown, bodies, dialog, notices, pump,
                 server, faults, changes>>

\* onDeleteButtonClicked, onMoveButtonClicked up to the dialog, which runs a
\* nested event loop: completions and notifications go on.
Ask(question) ==
  /\ Click /\ list.chosen.uid # 0
  /\ dialog' = question
  /\ UNCHANGED <<current, uv, list, shown, bodies, notices, queue, pump, server,
                 faults, changes>>

\* The selected UID is read again after the dialog.
ConfirmDelete ==
  /\ dialog = "delete"
  /\ dialog' = "none"
  /\ Enqueues("Delete", list.chosen.uid, NoMailbox, TRUE)
  /\ UNCHANGED <<current, uv, list, shown, bodies, notices, pump, server,
                 faults, bounds>>

ConfirmMove(m) ==
  /\ dialog = "move" /\ m # current
  /\ dialog' = "none"
  /\ Enqueues("Move", list.chosen.uid, m, TRUE)
  /\ UNCHANGED <<current, uv, list, shown, bodies, notices, pump, server,
                 faults, bounds>>

Cancel ==
  /\ dialog # "none"
  /\ dialog' = "none"
  /\ UNCHANGED <<current, uv, list, shown, bodies, notices, queue, pump, server,
                 faults, bounds>>

\* onSendButtonClicked's completion: the listing of Sent is dropped, and
\* fetched again if on display.
MailSent ==
  /\ clicks < MaxClicks /\ clicks' = clicks + 1
  /\ list' = InvalidateMailboxCache(list, Sent)
  /\ IF current = Sent
     THEN Enqueues("FetchMailboxPage", 0, NoMailbox, FALSE)
     ELSE UNCHANGED queue
  /\ UNCHANGED <<current, uv, shown, bodies, dialog, notices, pump, server,
                 faults, changes>>

-----------------------------------------------------------------------------
(* The Qt thread: notifications and the cache's budgets.                   *)

\* The count of messages is brought up to date at once.
Noticed(l, n) ==
  CASE n.kind = "EXISTS" /\ n.count > l.count -> SetMessageCount(l, n.count)
    [] n.kind = "EXPUNGE"                     -> SetMessageCount(l, OneLess(l.count))
    [] OTHER                                  -> l

\* Mutated form of HandleNotice: the mailbox is not selected again.
HandleNoticeCountsOnly ==
  /\ notices # <<>>
  /\ notices' = Tail(notices)
  /\ list' = Noticed(list, Head(notices))
  /\ UNCHANGED <<current, uv, shown, bodies, dialog, queue, pump, server, faults,
                 bounds>>

\* handleIdleServerNotification.
HandleNotice ==
  /\ notices # <<>>
  /\ notices' = Tail(notices)
  /\ list' = Noticed(list, Head(notices))
  /\ queue' = EnqueueOp(queue, SelectOp(current))
  /\ UNCHANGED <<current, uv, shown, bodies, dialog, pump, server, faults,
                 bounds>>

\* The budgets of the cache push an entry out.
Evict(k) ==
  /\ cache[k] # NoKey
  /\ cache' = [cache EXCEPT ![k] = NoKey]
  /\ UNCHANGED <<current, uv, list, shown, reserved, dialog, notices, queue,
                 pump, server, faults, bounds>>

-----------------------------------------------------------------------------
(* The server, acted on by others at any time.  Of the selected mailbox    *)
(* this client meets a change when the server reports it.  A report during *)
(* the wait of IDLE becomes a notice.  One in the answer of another        *)
(* command, before IDLE's "+" or after DONE is read and dropped: the       *)
(* window registers no callback for it.  An EXPUNGE does not come while    *)
(* the numbers of SELECT and FETCH are in use (RFC 3501, 7.4.1).           *)

Announced(m, kind, n) ==
  /\ m = selected /\ op = NoOp
  /\ notices' = Append(notices, [kind |-> kind, count |-> n])

Change(m) ==
  /\ changes < MaxChanges /\ changes' = changes + 1
  /\ UNCHANGED <<current, uv, list, shown, bodies, dialog, queue, pump, selected,
                 faults, clicks>>

Deliver(m) ==
  /\ Change(m) /\ uidnext[m] <= MaxUid
  /\ box' = [box EXCEPT ![m] = Append(@, uidnext[m])]
  /\ uidnext' = [uidnext EXCEPT ![m] = @ + 1]
  /\ Announced(m, "EXISTS", Len(box[m]) + 1) \/ UNCHANGED notices
  /\ UNCHANGED <<validity, missed>>

Expunged(m, u) == [box EXCEPT ![m] = Without(@, u)]

ByNumber == {"SelectMailbox", "FetchMailboxPage"}

OtherExpunge(m, u) ==
  /\ Change(m) /\ \E i \in DOMAIN box[m] : box[m][i] = u
  /\ m = selected => op.type \notin ByNumber
  /\ box' = Expunged(m, u)
  /\ \/ Announced(m, "EXPUNGE", 0) /\ UNCHANGED missed
     \/ /\ missed' = IF m # selected THEN missed
                     ELSE missed \union
                            {[mailbox |-> m, validity |-> validity[m], uid |-> u]}
        /\ UNCHANGED notices
  /\ UNCHANGED <<validity, uidnext>>

\* The mailbox is deleted and created again, or its UIDs assigned anew.
Renew(m) ==
  /\ Change(m) /\ m # selected /\ validity[m] < MaxValidity
  /\ validity' = [validity EXCEPT ![m] = @ + 1]
  /\ UNCHANGED <<notices, box, uidnext, missed>>

-----------------------------------------------------------------------------
(* dispatchImapOperation.  The stages: "start", a call of Qt before the    *)
(* command; "command", an exchange with the server; "apply", a call of Qt  *)
(* with its result; "range", "fetch" and "rows" (or "empty", "end"), the   *)
(* same of fetchMailboxPageAwaitable.                                      *)

FirstStage(type) == CASE type = "SelectMailbox"    -> "start"
                      [] type = "FetchMailboxPage" -> "range"
                      [] OTHER                     -> "command"

\* runImapPumpSession takes the next operation.
PumpPop ==
  /\ op = NoOp /\ ~QueueEmpty(queue)
  /\ op' = Head(queue) /\ queue' = Tail(queue)
  /\ stage' = FirstStage(Head(queue).type)
  /\ reply' = NoReply
  /\ UNCHANGED <<current, uv, list, shown, bodies, dialog, notices, server,
                 faults, bounds>>

Running(type, s) == op.type = type /\ stage = s

Finish == op' = NoOp /\ stage' = "none" /\ reply' = NoReply

Refused == faults' = IF faults = "none" THEN "refused" ELSE faults

\* A command the server can execute (possible) is executed and accepted, or
\* refused, or executed although no answer comes.  A server whose answer
\* timed out stays connected, and the next command goes to it.
Outcome(possible, accepted, executed) ==
  \/ possible /\ accepted /\ executed /\ UNCHANGED faults
  \/ ~possible /\ ~accepted /\ ~executed /\ UNCHANGED faults
  \/ possible /\ ~accepted /\ ~executed /\ Refused
  \/ possible /\ ~accepted /\ executed /\ faults' = "lost"

SelectStart ==
  /\ Running("SelectMailbox", "start")
  /\ list' = [list EXCEPT !.count = 0, !.oldest = 0]
  /\ stage' = "command"
  /\ UNCHANGED <<current, uv, shown, bodies, dialog, notices, queue, op, reply,
                 server, faults, bounds>>

\* A server may leave UIDVALIDITY out; a refused SELECT leaves no mailbox
\* selected.
SelectCommand ==
  /\ Running("SelectMailbox", "command")
  /\ \E ok \in BOOLEAN, done \in BOOLEAN :
       /\ Outcome(TRUE, ok, done)
       /\ selected' = IF done THEN op.mailbox ELSE NoMailbox
       /\ missed' = {}
       /\ \E v \in {0, validity[op.mailbox]} :
            reply' = IF ok THEN [NoReply EXCEPT !.ok = TRUE, !.validity = v,
                                                !.exists = Len(box[op.mailbox])]
                     ELSE NoReply
  /\ stage' = "apply"
  /\ UNCHANGED <<current, uv, list, shown, bodies, dialog, notices, queue, op,
                 validity, box, uidnext, bounds>>

SelectFailed ==
  /\ Running("SelectMailbox", "apply") /\ ~reply.ok
  /\ ResetReader({})
  /\ Finish
  /\ UNCHANGED <<current, uv, list, pendingKey, cache, dialog, notices, queue,
                 server, faults, bounds>>

\* A changed UIDVALIDITY drops what is remembered of the mailbox.
SelectApply ==
  /\ Running("SelectMailbox", "apply") /\ reply.ok
  /\ LET changed == reply.validity # 0 /\ uv # 0 /\ reply.validity # uv
         counted == SetMessageCount(list, reply.exists)
     IN /\ cache' = IF changed
                    THEN [k \in Message |-> IF k.mailbox = op.mailbox
                                            THEN NoKey ELSE cache[k]]
                    ELSE cache
        /\ list' = IF changed THEN InvalidateMailboxCache(counted, op.mailbox)
                   ELSE counted
  /\ uv' = reply.validity
  /\ ResetReader({})
  /\ stage' = "range"
  /\ UNCHANGED <<current, pendingKey, dialog, notices, queue, op, reply, server,
                 faults, bounds>>

\* The counts are read, and the range of sequence numbers computed; there may
\* be no message in the mailbox, or none left to load.
PageRange ==
  /\ stage = "range"
  /\ LET append == op.type = "FetchMailboxPage" /\ op.append
         count  == IF op.type = "SelectMailbox" THEN reply.exists ELSE list.count
         oldest == IF op.type = "SelectMailbox" THEN 0 ELSE list.oldest
         last   == IF append THEN OneLess(oldest) ELSE count
         first  == IF last > PageSize THEN last - PageSize + 1 ELSE 1
     IN \/ count = 0 /\ stage' = "empty" /\ UNCHANGED reply
        \/ count # 0 /\ last = 0 /\ stage' = "end" /\ UNCHANGED reply
        \/ /\ count # 0 /\ last # 0
           /\ reply' = [reply EXCEPT !.first = first, !.last = last]
           /\ stage' = "fetch"
  /\ UNCHANGED <<current, uv, list, shown, bodies, dialog, notices, queue, op,
                 server, faults, bounds>>

PageNothing ==
  /\ \/ stage = "empty" /\ list' = ApplyFetchResults(list, <<>>, FALSE, 0, 0)
     \/ stage = "end"   /\ list' = UpdateLoadMore(list)
  /\ Finish
  /\ UNCHANGED <<current, uv, shown, bodies, dialog, notices, queue, server,
                 faults, bounds>>

Messages(m, first, last) ==
  LET end == IF last > Len(box[m]) THEN Len(box[m]) ELSE last
  IN [i \in 1..(IF end < first THEN 0 ELSE end - first + 1) |->
        [mailbox |-> m, validity |-> validity[m], uid |-> box[m][first + i - 1]]]

PageFetch ==
  /\ stage = "fetch"
  /\ \/ /\ selected # NoMailbox
        /\ reply' = [reply EXCEPT !.page = Messages(selected, reply.first, reply.last)]
        /\ UNCHANGED faults
     \/ selected # NoMailbox /\ Refused /\ UNCHANGED reply
     \/ selected = NoMailbox /\ UNCHANGED <<reply, faults>>
  /\ stage' = "rows"
  /\ UNCHANGED <<current, uv, list, shown, bodies, dialog, notices, queue, op,
                 server, bounds>>

\* applyParsedEmailListOnQt.
PageApply ==
  /\ stage = "rows"
  /\ LET append == op.type = "FetchMailboxPage" /\ op.append
     IN list' = CASE reply.page # <<>> -> ApplyFetchResults(list, reply.page, append,
                                            list.count, reply.first)
                  [] reply.page = <<>> /\ append  -> UpdateLoadMore(list)
                  [] reply.page = <<>> /\ ~append -> list
  /\ Finish
  /\ UNCHANGED <<current, uv, shown, bodies, dialog, notices, queue, server,
                 faults, bounds>>

\* What a command on a UID finds in the selected mailbox.
Found == [mailbox |-> selected, validity |-> validity[selected], uid |-> op.uid]
Present == /\ selected # NoMailbox
           /\ \E i \in DOMAIN box[selected] : box[selected][i] = op.uid

\* A UID command is well formed and some mailbox is selected.
Executable == selected # NoMailbox /\ op.uid # 0

LoadCommand ==
  /\ Running("LoadEmail", "command")
  /\ \/ /\ Present
        /\ reply' = [NoReply EXCEPT !.ok = TRUE, !.body = Found]
        /\ UNCHANGED faults
     \/ Present /\ Refused /\ reply' = NoReply
     \/ ~Present /\ reply' = NoReply /\ UNCHANGED faults
  /\ stage' = "apply"
  /\ UNCHANGED <<current, uv, list, shown, bodies, dialog, notices, queue, op,
                 server, bounds>>

LoadApply ==
  /\ Running("LoadEmail", "apply")
  /\ ApplyBody(reply.body, op.uid, pendingKey)
  /\ Finish
  /\ UNCHANGED <<current, uv, list, pendingKey, dialog, notices, server, faults,
                 bounds>>

\* STORE of a flag: whatever the answer, nothing is done with it.
FlagCommand ==
  /\ Running("MarkRead", "command") \/ Running("ToggleFlag", "command")
  /\ Finish
  /\ UNCHANGED <<current, uv, list, shown, bodies, dialog, notices, queue,
                 server, faults, bounds>>

\* STORE \Deleted and EXPUNGE.  A UID the mailbox does not hold is no error.
DeleteCommand ==
  /\ Running("Delete", "command")
  /\ \E ok \in BOOLEAN, done \in BOOLEAN :
       /\ Outcome(Executable, ok, done)
       /\ box' = IF done THEN Expunged(selected, op.uid) ELSE box
       /\ reply' = IF ok THEN [NoReply EXCEPT !.ok = TRUE, !.body = Found] ELSE NoReply
  /\ stage' = "apply"
  /\ UNCHANGED <<current, uv, list, shown, bodies, dialog, notices, queue, op,
                 selected, validity, uidnext, missed, bounds>>

\* MOVE, or else COPY, STORE \Deleted and EXPUNGE, where the answers of the
\* last two are not looked at.
MoveCommand ==
  /\ Running("Move", "command")
  /\ \E ok \in BOOLEAN, copied \in BOOLEAN, removed \in BOOLEAN :
       /\ \/ removed = copied /\ Outcome(Executable, ok, copied)
          \/ /\ copied /\ ~removed /\ Executable
             /\ IF ok THEN Refused ELSE faults' = "lost"
       /\ copied => uidnext[op.mailbox] <= MaxUid
       /\ reply' = IF ok THEN [NoReply EXCEPT !.ok = TRUE, !.body = Found] ELSE NoReply
       /\ LET left == IF removed THEN Expunged(selected, op.uid) ELSE box
          IN \/ /\ copied /\ Present
                /\ box' = [left EXCEPT ![op.mailbox] = Append(@, uidnext[op.mailbox])]
                /\ uidnext' = [uidnext EXCEPT ![op.mailbox] = @ + 1]
             \/ /\ ~(copied /\ Present)
                /\ box' = left
                /\ UNCHANGED uidnext
  /\ stage' = "apply"
  /\ UNCHANGED <<current, uv, list, shown, bodies, dialog, notices, queue, op,
                 selected, validity, missed, bounds>>

\* The completions of Delete and Move: the key is built from what is current.
Removed(l) ==
  LET kept == RemoveEmail(l, op.uid)
  IN IF op.type = "Move" THEN InvalidateMailboxCache(kept, op.mailbox) ELSE kept

RemoveApply ==
  /\ Running("Delete", "apply") \/ Running("Move", "apply")
  /\ \/ /\ reply.ok
        /\ cache' = IF IsValid(KeyOf(op.uid))
                    THEN [cache EXCEPT ![KeyOf(op.uid)] = NoKey] ELSE cache
        /\ list' = Removed(list)
        /\ ResetReader({})
     \/ ~reply.ok /\ UNCHANGED <<cache, list, shownKey, reader, reserved>>
  /\ Finish
  /\ UNCHANGED <<current, uv, pendingKey, dialog, notices, queue, server,
                 faults, bounds>>

-----------------------------------------------------------------------------
User ==
  \/ \E m \in Mailbox : SelectMailbox(m) \/ ConfirmMove(m)
  \/ \E u \in Uid : ClickEmail(u)
  \/ \E type \in {"MarkRead", "ToggleFlag"} : ChangeFlag(type)
  \/ \E question \in {"delete", "move"} : Ask(question)
  \/ LoadMore \/ ConfirmDelete \/ Cancel \/ MailSent

Background ==
  \/ HandleNotice
  \/ \E k \in Message : Evict(k)
  \/ \E m \in Mailbox : Deliver(m) \/ Renew(m)
  \/ \E m \in Mailbox, u \in Uid : OtherExpunge(m, u)

Dispatch ==
  \/ PumpPop
  \/ SelectStart \/ SelectCommand \/ SelectFailed \/ SelectApply
  \/ PageRange \/ PageNothing \/ PageFetch \/ PageApply
  \/ LoadCommand \/ LoadApply \/ FlagCommand
  \/ DeleteCommand \/ MoveCommand \/ RemoveApply

Next == User \/ Background \/ Dispatch

Spec == Init /\ [][Next]_vars

-----------------------------------------------------------------------------
(* Properties.                                                             *)

Key == [mailbox : Mailbox \union {NoMailbox}, validity : 0..MaxValidity,
        uid : 0..MaxUid]

Operation ==
  [type : ImapOpType, uid : 0..MaxUid, mailbox : Mailbox \union {NoMailbox},
   append : BOOLEAN, view : Mailbox]

\* The types of what the window, the pump and the server hold.
TypeOK ==
  /\ current \in Mailbox /\ uv \in 0..MaxValidity
  /\ pendingKey \in Key /\ shownKey \in Key /\ reader \in Message \union {NoKey}
  /\ cache \in [Message -> Message \union {NoKey}] /\ reserved \subseteq Message
  /\ dialog \in {"none", "delete", "move"}
  /\ list.items \in [Uid -> Message \union {NoKey}]
  /\ list.chosen \in Message \union {NoKey} /\ list.mailbox = current
  /\ list.count \in Nat /\ list.oldest \in Nat
  /\ queue \in Seq(Operation) /\ op \in Operation \union {NoOp}
  /\ selected \in Mailbox \union {NoMailbox} /\ validity \in [Mailbox -> Validity]
  /\ missed \subseteq Message /\ faults \in {"none", "refused", "lost"}

\* MessageKey's promise: a cached body is the body of the message its key
\* names, whatever the user clicked between the FETCH and its completion,
\* which builds the key from what is current then.
CachedBodyIsItsKeys ==
  faults # "lost" => \A k \in Message : cache[k] \in {NoKey, k}

\* loadEmailContent returns early when the key of the clicked UID is the one
\* displayed: then the reader does show that message.
ReaderMatchesKey ==
  faults # "lost" /\ IsValid(shownKey) =>
    reader = shownKey /\ shownKey = KeyOf(shownKey.uid)

\* An operation without a mailbox of its own is executed in the mailbox that
\* was on display when it was enqueued, or in none: what clearing the queue at
\* a re-selection is for.
RunsInItsMailbox ==
  op.type \notin {"none", "SelectMailbox"} => selected \in {op.view, NoMailbox}

\* When everything has been processed and the server refused nothing, the
\* window shows the mailbox that is selected, with its UIDVALIDITY, and every
\* row is a message the server still holds in it, whatever listing a late
\* completion or a remembered listing had put on display in between.  What may
\* stay on display although it is gone is a message whose removal was never
\* announced to the window: nothing but the next SELECT tells it.
Holds(m, row) == /\ row.mailbox = m /\ row.validity = validity[m]
                 /\ \E i \in DOMAIN box[m] : box[m][i] = row.uid
QuiescentView ==
  queue = <<>> /\ op = NoOp /\ notices = <<>> /\ faults = "none" =>
    /\ selected = current /\ uv \in {0, validity[current]}
    /\ \A u \in Uid : \/ list.items[u] = NoKey
                      \/ Holds(current, list.items[u])
                      \/ list.items[u] \in missed

\* IMessageCache.hpp: a reserved key is "in-flight: a network fetch is in
\* progress for it".
Fetches(o, k) == o.type = "LoadEmail" /\ o.view = k.mailbox /\ o.uid = k.uid
ReservedIsInFlight ==
  \A k \in reserved : \/ Fetches(op, k)
                      \/ \E i \in DOMAIN queue : Fetches(queue[i], k)

\* MainWindow.cpp: "the user sees the mailbox they actually picked".  The rows
\* on display are those of the current mailbox.
RowsAreOfCurrent ==
  \A u \in Uid : list.items[u] # NoKey => list.items[u].mailbox = current

\* MainWindow.cpp: "EXPUNGE invalidates the body cache entry for this UID".
\* When a deletion has completed the body of the deleted message is not cached.
DeletedIsForgotten ==
  [][(Running("Delete", "apply") /\ reply.ok /\ op' = NoOp
       /\ reply.body \in Message) => cache'[reply.body] = NoKey]_vars

\* MainWindow.cpp, of a move whose STORE or EXPUNGE fails: "surface the error
\* instead of silently discarding it".  A move reported as done has removed
\* the message from where it was.
MovedHasLeft ==
  Running("Move", "apply") /\ reply.ok =>
    \A i \in DOMAIN box[selected] : box[selected][i] # op.uid

=============================================================================
