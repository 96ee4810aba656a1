# Aurora Mail: formal model

TLA+ modules, TLC configurations and TLAPS proofs about Aurora Mail, a C++23
mail client: a Qt-free engine (`src/engine`: IMAP and SMTP clients, MIME,
parsers, command line clients) and a Qt 6 desktop application (`src/desktop`).

## 1. The system

### Threads

The desktop application has two threads that matter. The **Qt thread** runs
`MainWindow` and everything the user sees. One **io_context thread**
(`IoContextRunner`) runs all coroutines and posted handlers; they are started
on one strand (`desktop/main.cpp`), so between two suspension points a
coroutine has that thread to itself. The two threads share the atomics of
`ImapSessionController`, its mutex-protected queue, the message cache and,
against the intention of the code, the `ImapClient` itself
(`teardownActiveSession` resets it from the Qt thread).

Calls between them: Qt to strand by `boost::asio::post` and `co_spawn`; strand
to Qt by `QMetaObject::invokeMethod`, queued for notifications and blocking for
the application of a listing or a body; so an operation's completion holds the
io_context thread while it waits for Qt's event loop.

### Components

| component | state | operations | hard part | correct when |
|---|---|---|---|---|
| Session controller (`Core/Mail/ImapSessionController`) | eight atomics, the queue | `startPolling`, `requestStopIdleLoop`, `resumeIdle`, `enqueueOperation`, IDLE loop, pump | two coroutines and the Qt thread share flags without a lock; 30 s deadline; exceptions | one command or IDLE on the stream at a time; every request served; IDLE resumes |
| Command queue (`Core/Mail/ImapCommandQueue`) | a deque under a mutex | `enqueue` with coalescing, `tryPop`, `empty` | enqueue and pop race | holds exactly what was not superseded or taken, in order |
| Mailbox view (`Ui/MainWindow`, `Ui/EmailListManager`) | current mailbox, UIDVALIDITY, displayed and pending message keys, listing | select, load, delete, move, page, completions of each | completions arrive after the user went on | what is shown, cached and reserved belongs to what is selected |
| Desktop message cache (`Core/Mail/Cache`) | LRU map, SQLite rows, keys in the keychain, map of accounts | lookup, put, invalidate, attach, unload, budget | calls to the keychain let other handlers in; two tiers; rows under an old key | a lookup returns what was last put and not invalidated |
| Session coordinator, stores, OAuth (`Ui/Coordinators`, `Core/Auth`) | registry, active account, tokens, passwords, requests in flight | sign in, add, switch, sign out, resume, refresh | several stores, each wait an event loop; late answers; crashes | the stores agree on who is signed in; tokens stay with their account |
| SMTP client, base client, stream (`engine/MailClient`, `engine/libs/Common/Stream`) | connection state, wrapped stream, unread answers | connect, STARTTLS, AUTH, send, QUIT | answers have no tag; time-outs; failed upgrades | success means that the message was delivered, whole |
| IMAP client (`engine/MailClient/ImapClient`) and its command line | connection state, tag counter, IDLE tag, selected mailbox | connect, login, SELECT with QRESYNC, FETCH, STORE, MOVE, APPEND, IDLE, sync | unsolicited lines, partial reads, other clients | an answer is taken for the command it answers; the cache holds what the server has |
| Engine message cache (`engine/libs/Common/MessageCache`) | for each mailbox UIDVALIDITY, MODSEQ, messages | state, add, flags, remove, ranges | UIDVALIDITY changes | what is cached is from the mailbox and validity it is filed under |
| AI assistant (`Core/AI`, its dialog) | requests in flight, dialogs, API key | ask, answer, apply, set and migrate the key | several dialogs, one service | a suggestion belongs to the text it is shown beside |
| Parsers, serialisation (`engine/libs`) | none | tokenise, parse, serialise | boundaries | in the modules above: status, stop, refused text |
| Text processing and codecs, logging, configuration, widgets | | | | not modelled, see 6 |

## 2. Plan

Items 1 to 7 are done; what is left of 6 is named.

1. `ImapCommandQueue`: the queue as operators, driven by any calls. Proved.
2. `ImapSession`: the controller with the Qt thread and the client's IDLE
   exchange; uses 1. Every safety property is proved.
3. `EmailList`, `MailboxView`: the listing; the select, load, page, flag, delete
   and move handlers, the completions, the reservations; uses 1. Every safety
   property is proved.
4. `MessageCache` (abstract), `MemoryCache` (operators), `TieredCache`, which
   refines the first and uses the second. The refinement, the budgets and the
   types are proved.
5. `AccountSession`: coordinator, registry, stores and OAuth together, as
   their hazards lie between them. Every safety property is proved.
6. `SmtpClient`: SMTP client, base client and stream, with both programs. Every
   safety property is proved of the window's sessions; of those of the command
   line program only types.
7. `SyncCache` (operators), `ImapClient`: the IMAP client with the command line
   program, against a server and other clients, and `AiAssist`. Every safety
   property of the two is proved.

## 3. Modules

### ImapCommandQueue

A queue is a sequence of operation types, as the queue looks at nothing else
(`SelectMailbox`'s name and a message's uid matter to the mailbox view).
`Enqueue` is `ImapCommandQueue::enqueue`; `tryPop` is `Head` and `Tail` at the
place where it is called; `Without` is `std::erase_if`. `Without` is written
with a choice of positions, not with recursion, so that it can be proved about.
`QueueCoalesced` is the class comment's "coalescing rules" as an invariant.

`MCImapCommandQueue` drives it with any operations beside a log of all requests;
`HoldsWhatIsWaiting` compares the queue with what the log says should wait,
defined without erasing anything: the positions of the log that were neither
taken nor replaced, each at its rank.

### ImapSession

State: the controller's eight atomics and the queue under the names of the code
(`m_idleRunning` is `idleRunning`, `m_imapPumpSessionActive` is `pumpActive`,
`m_imapPumpRescheduleRequested` is `reschedule`); a place for each IDLE and pump
coroutine (`idle`, `pump`), the operation a pump runs; the handlers posted and
not yet run (`pumpPosts`, `cancelPosted`); the Qt thread's place (`qt`, `qtOp`,
`nested`) and the calls queued for its event loop (`notices`, `stopped`).
Coroutines have identities from `Coro`, so that a second one of a kind could
come into being if the exchanges let it.

Granularity: on the io_context thread, from one suspension point to the next is
one segment. Where a segment touches several atomics with which the Qt thread
can interleave to an effect, it is split into several actions, and `IdleTurn`
and `PumpTurn` keep the other coroutines out until it ends. On the Qt thread
every shared access of `enqueueOperation` and `stopPolling` is a step.

| actions | code |
|---|---|
| `UserEnqueue`, `HandleNotification`, `EnqueueCancel`, `EnqueuePush`, `EnqueuePost` | `enqueueOperation`, from a click or from `handleIdleServerNotification` |
| `StopPolling`, `StopFlag`, `StopTest`, `DeliverStopped`, `StopTimeout`, `Teardown` | `stopPolling` with its nested event loop and 10 s timer, and the client reset that follows it |
| `IdleWhile` ... `IdleLeave` | the IDLE coroutine of `startPolling`, one action per segment between its suspension points; `IdleStarted` and `IdleDone` cover success and failure of the exchange |
| `CancelIdleWait` | the handler posted by `ImapClient::cancelIdleWait` |
| `SchedulePump`, `PumpStart`, `PumpReturn` | `scheduleImapPump` |
| `PumpWait`, `PumpPoll`, `PumpDeadline` | `waitIdleReleasedAsync` |
| `PumpDrained`, `PumpGiveUp`, `PumpPop`, `PumpResume` | `runImapPumpSession`, `resumeIdle` |
| `DispatchPlain`, `DispatchStartsPolling`, `DispatchThrows` | `dispatchImapOperation` as one step: it completes; it applies a listing in whose completion `startPolling` is called; an exception escapes and `IoContextRunner` goes on |

Abstractions. Sleeps are suspension points; the 50 ms and 5 s sleeps of the loop
are the place `"while"` before its test. A line of the server that is none of
EXISTS, EXPUNGE and FETCH is handled as a wait that ends quietly, as the Qt
handler ignores it. `asyncIdleWait` installs its cancellation signal in the
segment that enters the wait. `gaveUp` is history: the pump has told the user
that the connection is busy. A `stopPolling` inside the nested loop of another
another one is left out (`StopPolling` asks for `~nested`). After
`DispatchThrows` there is no pump, but its flags and the phase stay as they were
(`PumpDied`): "ExecutingCommand" is then stale until the IDLE loop sets another
phase, and `PhaseIsCurrent` names this state as its one exception. The
operations named `Silent` finish without a blocking call to Qt, the others need its event loop.

### EmailList

`EmailListManager` as functions of its state, a record with one field for each
member a later step reads: the row of each UID (`items`, for `m_emailItems`),
the selected row, the counts, whether "Load More" is on display, the remembered
listing of each mailbox. The code hands listings over oldest first and remembers
them newest first; `Backwards` is where it turns them round. A message is its
mailbox, the UIDVALIDITY under which it got its UID, and the UID.

### MailboxView

State: of `MainWindow` the current mailbox (`current`), its UIDVALIDITY (`uv`, 0
when unknown), the pending and displayed keys and the message in the reader; the
body cache and its reservations; the modal dialog; the queue, now of operations
with their parameters; the operation being dispatched, how far it has got
(`stage`) and what its last command brought back (`reply`); of the server the
selected mailbox, and for each mailbox its UIDVALIDITY, messages and next UID.
`view` in an operation is history: the mailbox on display when it was enqueued.
`faults` is history too: whether a command has been refused, or executed without
an answer reaching the client; so is `missed`, the messages of the selected
mailbox whose removal was not announced to the window.

| actions | code |
|---|---|
| `SelectMailbox` | `selectMailbox` |
| `ClickEmail` (`ShowCached`, `AwaitFetch`, `FetchBody`) | `loadEmailContent`: already shown, cached, being fetched, to fetch |
| `LoadMore`, `ChangeFlag` | `loadEmails` for the next page, `onToggleReadClicked`, `onToggleStarClicked` |
| `Ask`, `ConfirmDelete`, `ConfirmMove`, `Cancel` | `onDeleteButtonClicked`, `onMoveButtonClicked` before and after the dialog, whose event loop lets completions in |
| `MailSent` | what a sent mail does to the listing of Sent |
| `HandleNotice`, `Evict` | `handleIdleServerNotification`; the cache's budgets |
| `PumpPop`, `SelectStart`, `SelectCommand`, `SelectFailed`, `SelectApply` | `dispatchImapOperation`, SelectMailbox |
| `PageRange`, `PageNothing`, `PageFetch`, `PageApply` | `fetchMailboxPageAwaitable`, after SELECT or for a page |
| `LoadCommand`, `LoadApply` (`ApplyBody`) | LoadEmail, `applyParsedEmailBodyOnQt` |
| `FlagCommand`, `DeleteCommand`, `MoveCommand`, `RemoveApply` | the other operations |
| `Deliver`, `OtherExpunge`, `Renew` | others using the mailboxes |

An operation is cut where it waits: for the server, and for the Qt thread to
apply a result. Between the cuts the user and the notifications go on, so every
completion may meet another mailbox, UIDVALIDITY, listing or pending message.

Abstractions. One account. Which coroutine runs when is `ImapSession`'s matter;
here the pump takes an operation whenever there is one. A command the server can
execute is accepted, refused, or executed without its answer arriving
(`Outcome`); an answer that cannot be parsed counts as refused. Others change
mailboxes at any time. What they do to the selected one the server reports: in
IDLE's wait the report becomes a notice, in the answer of another command,
before IDLE's `+` or after DONE the client reads it and drops it, as the window
registers no callback for it (`Deliver` and `OtherExpunge` have both cases). An
EXPUNGE is not reported while SELECT and FETCH go by sequence numbers, as the
protocol forbids it. A FETCH notice is covered by the last branch of `Noticed`. The error box that
follows a failed operation is not a dialog of the model. Two rows with one UID
are one row, as the manager tracks the later one only. Read marks, stars, the
search filter and what a body looks like are left out.

### MessageCache, MemoryCache, TieredCache

`MessageCache` is the promise of `IMessageCache`: a set of keys a lookup may
find (`stored`), a set that may come back into reach (`beyond`), and the last
call that returned. Entries may be lost at any time; what has been forgotten may
not be found until it is put again. `MemoryCache` has the operators of
`MemoryMessageCache`: a function from resident keys to the time of their last
use, which is the recency list.

`TieredCache` is `TieredMessageCache` over that tier and one encrypted file per
account, with the provisioning of the key (`ensureMessageCacheForCurrentAccount`)
and the keychain. All calls come from the Qt thread, but those that ask the
keychain wait in a nested event loop; `stack` holds the calls so suspended.
`SignIn`, `UnloadAccount`, `SignOut`/`KeyRemoved` are what `teardownActiveSession`
and its callers do to the cache; `Ensure`, `KeyFound`, `KeyGenerated`,
`KeyStored`, `Attach`, `AttachFailed` the segments of the provisioning;
`LookupInMemory`, `LookupOnDisk`, `LookupMissed`, `Put`, `Invalidate`,
`InvalidateMailbox` the calls; `Crash` leaves files and keychain. The refinement
mapping (`Cache == INSTANCE MessageCache WITH ...`): what a lookup can find is
what memory holds and the rows that open under their tier's key; every other row
is beyond reach. `KeepsPromise` is the abstract specification.

Abstractions. A body is its key and its size; sealing is the identity of the
cipher key (AES-GCM opens a row under the key that sealed it and under no
other). Time is the number of the call. A
row that SQLite refuses to delete stays in the code and may be found later; that
failure is not a fault of the model (writes that fail are).

### AccountSession

State: `window` (the user, the method, the page, whether it is enabled),
`oauth` (tokens in memory and the account that scopes their storage key), `disk`
(token blobs, passwords, registry, active account), token requests and the
browser flow, the sign-in and send coroutines (`jobs`) with the connections they
share, the events posted to Qt, and the stack of calls that wait for the
keychain in an event loop. A token is the account it belongs to.

| actions | code |
|---|---|
| `Start`, `Migrated`, `SecretRead` | `tryAutoResume`, `loadTokens` with the migration of an old blob, `reconnectStoredAccount` |
| `StartAuthFlow`, `BrowserReturns`, `Exchanged`, `Refreshed`, `RequestFailed`, `TokensSaved` | `OAuthManager`: authorisation, code exchange, refresh, `saveTokens` |
| `OnPasswordSignInClicked`, `OnSendButtonClicked`, `JobStep`, `Deliver`, `Persisted` | sign-in and send up to the connection, `completeMailAuthenticationUi`, `registerActiveAccount` |
| `OnAddAccountSelected`, `OnSwitchAccountSelected`, `OnSignOutButtonClicked`, `TornDown`, `Purged` | `SessionCoordinator` with `teardownActiveSession` |
| `Crash` | what is only in memory is lost |

`overlaps` counts acts begun while another was under way; `damaged` is history:
a store of the keychain has failed, or the program was cut short. `GoesSilent` is
a server that accepts the connection and says nothing in the TLS handshake; that
step of the coroutine then never ends (`SilentHandshake`), as no timer runs for
it. `SecretRead` passes on what `loadStoredTokens` has found: a blob without a
refresh token (`Stale`) counts only until it expires, and time is not modelled,
so both outcomes are allowed.

### SmtpClient

A coroutine of the client is a job with the steps it has left, each one await;
the scripts (`Connect`, `AuthLogin`, `SendMail`, `Quit`) are read off the client's
methods and their callers, `MainWindow::onSendButtonClicked` and the command
line. SMTP answers carry no tag, so the model keeps the commands and answers
under way in order: `ReadResponse` takes the next answer whatever it answers.
`conn`, `inner` are `connection_state_` and what the `TimedOutStream` wraps
(plain, secure, or null after `extract_inner_as`); `ReadTimesOut` is its timer,
`HandshakeEnds` the handshake, which has none. `HandlerGivesUp` is the command
line's 30 s wait, which leaves the coroutine running. The server (external)
keeps the transaction of RFC 5321; `delivered` is what it has taken
responsibility for, with the envelope and the bodies it really got. `strayed`
is history: on this connection an answer has come late, was longer than a read
takes, or belongs to a text that ended early. A send ends as `"ok"`, or as
`"strayed"` or `"shared"` (two operations on the connection) when it ended well
under such circumstances (`Trust`).

### SyncCache, ImapClient

`SyncCache` has the operators of `InMemoryMessageCache` on the state of one
mailbox. `ImapClient` has the client, the command line program and the cache.
A job's steps are the awaits of an operation; an answer is a sequence of items
(untagged lines, `+`, the tagged line). `WriteCommand` covers serialisation,
which refuses text with a line end, `ReadAnswer` `readResponse` up to its own tag
and the parser, which stops at what the tokenizer cannot read, followed by what
the command's handler does with the answer (`processUntaggedResponses`,
`parseFetchResponsesAndUpdateCache`, the state of the cache). `ReadXOAuth2`,
`IdleWait` and `ReadDone` are the three reads with rules of their own. The
server (external) has mailboxes with UIDVALIDITY, UIDs, MODSEQ and one flag;
other clients deliver, remove, flag and recreate. The flag \Deleted is not
modelled: EXPUNGE takes all or nothing. The TLS handshake of `Establish` (port
993) and of `UpgradeToTLS` succeeds, fails or meets a server that says nothing
and waits for good; a failed upgrade leaves the stream null, and a command
written to it, or closing it, ends the program (`alive`). Two operations at
once are in `SmtpClient`, on the same base client; IDLE against the window's
pump is in `ImapSession`.

### AiAssist

`AIService`, the dialogs over the compose page and the key. All of it runs on
the Qt thread; the interleaving comes from replies and from dialogs that are not
modal. `Finished` is `handleResponse` with the signal every open dialog is
connected to; `Start` the load of the key and the migration of the old one
(`Migrates`), which runs whenever no key was loaded: when the keychain did not
answer the load, the old key is written over the one that is stored.
`waits` tells users who wait for an answer before closing a dialog or opening
another from those who do not. Prompts and JSON are left out.

## 4. What the runs check

| run | bounds | shows |
|---|---|---|
| `queue` | five requests of all seven types | `HoldsWhatIsWaiting` |
| `session` | two coroutine identities, two clicks of two kinds, one notification, one stop, two posted pump handlers | `OneCoroutineEach`, `FlagsTellTheWire`, `QueueHasConsumer` |
| `session_faults` | the same, three kinds, exceptions | `TypeOK`, `LatestClickWaits`, `PhaseIsCurrent`, `OperationStartsOffIdle` |
| `session_live` | one identity, one click, one notification, one stop | `StopHonoured`, `QueueServed`, `PushResyncs`, `IdleAllowedAgain` |
| `mailbox_view` | two mailboxes of two messages, one row a page, three UIDs, two values of UIDVALIDITY, three requests of the user, one change by others | `QuiescentView`, `CachedBodyIsItsKeys`, `ReaderMatchesKey`, `RunsInItsMailbox`, `TypeOK` |
| `cache` | two accounts, eight calls, two generated keys, batches of two rows | `TypeOK`, `BudgetsHold`, `KeepsPromise` (refinement) |
| `accounts` | two accounts, two acts or crashes, one of them during the other | `TypeOK`, `OwnMail`, `TokensApart`, `Resumable`, `UiComesBack` |
| `smtp` | two messages, two recipients, three operations, one late answer, one other fault | `TypeOK`, `AcceptedMeansDelivered`, `NothingMixed`, `InStep`, `SendEnds` |
| `imap` | two mailboxes, four UIDs, two operations, one change by others, one fault | `TypeOK`, `EntriesBelong`, `KnownRangesExact`, `ToldAsAnswered`, `VanishedStaysAway`, `NothingInIdle`, `AnswersInStep`, `OperationEnds` |
| `ai` | two dialogs, two texts, two requests, one fault | `SuggestionIsOfItsText`, `AskEnds` |
| `session_overlap`, `imap_sync` | the smallest that show it | `ExclusiveStream`, `SyncBringsUpToDate`, violated |

Why the bounds are enough. In the session, two clicks are the least with which
an operation is queued behind the one being dispatched, an enqueue meets a pump
that is about to leave, and an operation coalesces with another; a notification
adds a third enqueue that comes from the IDLE loop. Two identities let a
duplicate coroutine appear. Two posted handlers let one find the pump active.
The liveness run has one identity, which both an IDLE and a pump coroutine can
use: that there is never a second of a kind is what `session` checks.

In the mailbox view three requests are a message opened, another mailbox chosen
and a message opened there, or a deletion asked for, confirmed and followed by a
click, all while one operation is under way. Two messages and pages of one row
make "Load More" appear, be used, and find nothing left. One change by others
is enough to renew a mailbox's UIDVALIDITY behind a listing, or for a notice to
select again what the user has left.

In the cache, eight calls are a sign-in, an attachment, a put, a loss (crash,
unloading or sign-out) and the same again under a second key. For accounts, the
disk starts in every state an earlier session may leave, so two acts are what
follows that session. In SMTP, two messages show whether the first leaves
something for the second; answers have at most two lines where the limit is
twenty. In IMAP a behaviour may start with a selected mailbox whose headers are
cached, or with one that has since been closed, so two commands are the third
and fourth of a session; the second runs under what the first left, and the
change by others falls before, between or inside them. For the AI, two dialogs
and two requests are one crossing.

Deadlock is not checked in any run: with the bounds used up the system rightly
stops, and the properties that something ends are stated as liveness.

What the properties do not say. A command that was executed although its answer
got lost may leave another mailbox selected than the window knows of;
`CachedBodyIsItsKeys` and `ReaderMatchesKey` are claimed of runs in which that
has not happened, `RunsInItsMailbox` of all, `QuiescentView` of runs without any
fault. Before SELECT has told the UIDVALIDITY the keys are invalid and the gate
in `applyParsedEmailBodyOnQt` lets every body through, so the body of an earlier
click may be shown then; it is not cached, and `ReaderMatchesKey` speaks of
valid keys. `QuiescentView` says that every row exists or is one whose removal the window was
never told (`missed`), not that every message has a row: only the first page is
read again after a notice, and an arrival whose report was dropped is not
noticed at all. `PhaseIsCurrent` excepts the pump an exception has ended. `OwnMail`,
`TokensApart` and `Resumable` are claimed of users who let one act end before
the next, `OwnMail` also only while no token refresh fails. `UiComesBack` excepts
a handshake the server does not answer. `AcceptedMeansDelivered` is promised
without condition on late or overlong answers to the window, which opens a
session for each message; on the command line's kept connection it is promised
while every answer has come in its place. It excepts two operations on one
connection, bodies with a lone dot on a strayed connection, and lost
attachments; `ReportedMeansDelivered`, what the programs tell the sender, makes
none of these exceptions but the first and is violated (below).
`EntriesBelong`, `ToldAsAnswered`, `VanishedStaysAway`, `NothingInIdle` and
`AnswersInStep` except behaviours in which an answer was left unread for a later command (`lost`).
`SuggestionIsOfItsText` is about users who wait.

Fairness. `ImapSession`: the Qt thread finishes `enqueueOperation` and
`stopPolling` and serves its event loop: weak fairness of each step. The
io_context is a first-in first-out queue, so a ready coroutine or handler runs
however the others behave: strong fairness, as the segments of others disable
it. An exchange with the server ends with an answer or with the stream's own
30 s timeout. `SmtpClient`, `ImapClient`: weak fairness of a coroutine's next
step, which its timer enables when nothing arrives, and of the server's answer
unless it hangs. A TLS handshake has no timer: where the server says nothing no
step is enabled, and `SendEnds`, `OperationEnds` and `UiComesBack` except it.
`AccountSession`: weak fairness of what the Qt thread has in its queue, of the
coroutines, and of replies; a `QNetworkReply` finishes with an answer or an error. `AiAssist`: the
same of replies. No transfer timeout is set on those, so this rests on the
network stack reporting a dead connection. Nothing is assumed of the user, of
notifications, of faults, nor of which of its outcomes an exchange has. Of
`MailboxView` and `TieredCache` only safety is checked.

### Findings

Expectations in comments that the code does not meet (details and quotations in
`PROJECT.json`, "findings"). `session_overlap` and `imap_sync` are runs; every
other one has the configuration named here, which finds the behaviour
(`tlc -continue` where it lists several properties).

| property | configuration | behaviour |
|---|---|---|
| `ExclusiveStream` | `MCImapSessionOverlap` | `startPolling` clears `m_commandPending` although another operation is queued: IDLE and that operation share the stream |
| `TeardownQuiesces` | `MCImapSessionTeardown` | `stopPolling` does not wait for the pump |
| `QueueHasConsumer` | `MCImapSessionThrow` | a dispatch that throws disables the pump for the rest of the session; the phase stays "ExecutingCommand" |
| `ReservedIsInFlight` | `MCMailboxViewReserve` | a dropped LoadEmail leaves its reservation; later clicks wait for a fetch nobody makes |
| `RowsAreOfCurrent` | `MCMailboxViewRows` | a listing that completes after another mailbox was clicked is shown, and remembered, as that mailbox |
| `DeletedIsForgotten` | `MCMailboxViewForget` | Delete builds the key to forget from the mailbox current on completion |
| `MovedHasLeft` | `MCMailboxViewMove` | a move by COPY whose STORE or EXPUNGE fails is reported as done |
| `SignOutDestroysDisk` | `MCTieredCacheSignOut` | signing out before the second tier is attached leaves its file and key |
| `OwnMail` with failing refreshes | `MCAccountSessionFindings` | a switch whose refresh fails leaves the old account's connection under the new user |
| `SignOutRevokes` | `MCAccountSessionFindings` | the refresh token is cleared before it is captured for revocation |
| `TokensNeverMix` | `MCAccountSessionFindings` | a refresh answered after a switch is saved under the new account |
| `ResumeBegins` | `MCAccountSessionFindings` | password accounts are not resumed at start: the mail session does not exist yet |
| `ClosesCleanly` | `MCSmtpClientTls` | closing after a failed TLS upgrade uses a null stream |
| `HandshakeEndsInTime` | `MCSmtpClientSilent` | no timer runs during the handshake |
| `ReportedMeansDelivered` | `MCSmtpClientBody`, `Late` | a line of a lone dot is not doubled; an attachment that cannot be opened is left out; three late answers put the command line out of step |
| `QuitCloses` | `MCSmtpClientQuit` | QUIT on a broken connection leaves it "connected" for good |
| `SyncBringsUpToDate` | `MCImapClientSync` | SELECT files the current MODSEQ, so the next sync fetches nothing |
| `StoreKeepsTheRest` | `MCImapClientStore` | storing flags replaces the cached message by one without envelope and body |
| `ToldAsAnswered` | `MCImapClientNews` | the parser stops at `\Seen` in a flag list and reports OK for an answer that ends in NO |
| `StatusIsItsOwn` | `MCImapClientLate` | the status of a late answer is told to the next command |
| `EntriesBelong`, `VanishedStaysAway`, `NotifiedIsGone` | `MCImapClientCache` | EXAMINE does not file the UIDVALIDITY; `1:*` is not parsed; VANISHED during IDLE is only printed |
| `NoCrossing`, `OneRequestEach`, `KeyIsKept` | `MCAiAssistFindings` | an answer reaches every open dialog; it re-enables another's button; a key the keychain refused is removed from the settings |

## 5. What is proved

Eight modules of proofs: `ImapCommandQueue_proofs`, `ImapSession_proofs`,
`MailboxView_proofs`, `TieredCache_proofs`, `AccountSession_proofs`,
`SmtpClient_proofs`, `ImapClient_proofs` and `AiAssist_proofs`. They hold for any set of coroutines,
mailboxes, accounts, recipients and dialogs, any bounds and any kinds of
operation. The assumptions are those on the constants: bounds are natural
numbers, at least one handler may be posted (`BoundsAssumption`), the user asks
for known operations (`ClicksAssumption`), "no mailbox" is not one
(`MailboxAssumption`), Inbox and Sent are (`ViewAssumption`), and what the
modules of the caches, the accounts, the SMTP client and the assistant assume of
theirs (`SizeAssumption`, `BudgetAssumption`, `AccountAssumption`,
`DiskAssumption`, `NoneAssumption`, `SmtpAssumption`, `ImapAssumption`,
`AiAssumption`). A
theorem that needs more says so in its own statement, and a run shows what
happens without it.

* `EnqueueCoalesces`, on `WithoutProperties`: erasing keeps the order of what
  remains. The rank lemmas show that the k-th kept position exists, is unique
  and grows with k; from it follow the length and the elements of `Without`.
* `HoldsTheorem`: `HoldsWhatIsWaiting` of `MCImapCommandQueue`, for a log of any
  length.
  There is one way only to run through a finite set of positions in ascending
  order (`AscendingIsPlaces`), so it is enough to show the queue at ascending
  positions of the log that are all those awaited. Enqueueing adds the last
  position and takes away those it replaces (`AwaitedAfter`, `EnqueueHolds`),
  popping takes away the least (`PopHolds`).
* `TypeCorrect`: `TypeOK` is inductive; four lemmas, one for each conjunct.
* `SessionCorrect`, `OneCoroutineTheorem`, `FlagsTheorem`: for runs without
  escaping exceptions, `OneCoroutineEach`, `FlagsTellTheWire` and
  `QueueHasConsumer`. None of them is inductive. `IInv`
  adds what they rest on: a live IDLE coroutine is announced by `idleRunning`
  and, from the recheck on, by `~idleExited` (`IdleInv`); a live pump by
  `pumpActive` in both directions, the dispatch by `imapBusy` (`PumpInv`). The
  no-lost-wake-up argument needs the direction "active, so there is a pump":
  that is what an escaping exception destroys, hence the assumption.
* `StartsOffIdleTheorem`: `CheckInv` says that a pump whose wait has succeeded
  finds IDLE off the wire until its segment ends; it is inductive beside
  `IdleInv`, with or without exceptions, and `PumpPop` is the only step into a
  dispatch (`EnterDispatch`).
* `LatestClickTheorem`, `PhaseExactTheorem`: inductive with the types. The
  second says for runs without escaping exceptions that the phase is exact, and
  `PhaseTheorem` for all runs that a pump that died is the only exception.

For the mailbox view the actions are first sorted into a few kinds by what they
do to the queue and the pump (`Quiet`, `Proceed`, `End`, `Reselect`; `Renew`,
`PumpPop`, `SelectCommand` and `SelectApply` by themselves), and the step lemmas
have one case per kind.

* `RunsInItsMailboxTheorem`, whatever the faults. `RunInv` adds that everything
  queued was asked for in the current mailbox (`QueueInv`; a re-selection clears
  the queue, and `EnqueueOpProperties` shows that coalescing loses none of
  this), and that unless a re-selection is queued, what the next operation will
  find selected is the current mailbox or none (`TargetInv`).
* `CachedBodyTheorem`, `ReaderTheorem`: `BodyInv`. Its core is `UvInv`: while
  matters are `Settled` (an operation other than a re-selection runs, or no
  re-selection is queued or still to be applied), a known UIDVALIDITY is that of
  the selected mailbox, and that is the current one. So a LoadEmail that
  completes finds either an unknown UIDVALIDITY, and its key is invalid, or the
  mailbox its FETCH was executed in. `SelectReplyInv` and `LoadReplyInv` carry
  the answers from the command to its completion.
* `ViewTypesTheorem`: `AllTypes`, which has more than `TypeOK` says: the kinds of
  row, the answers under way, the parameters of what is queued.
* `QuiescentTheorem`: `ViewInv`, on all of the above. A fetched page is of
  messages the selected mailbox has until it is displayed (`PageInv`), as no
  EXPUNGE is reported while sequence numbers are in use. While the server has
  refused and lost nothing, a session without a mailbox is about to get one
  (`SelectInv`), a re-selection lists what the mailbox holds (`ReloadInv`), and
  unless one is queued, running or announced, every row is a message of the
  mailbox or one that was `missed`, but for the one whose removal was carried out and is about to be
  completed (`FreshInv`, `Removing`).

The step lemmas of `ImapSession` have one case per action.

* `PromiseTheorem`: `TieredCache` implements `MessageCache`. The mapping of
  states needs `FilesInv`: a file holds rows of its own account only, and an
  attached tier has its file. Without the first, a row in another account's file
  could keep a message in reach that a call has forgotten. Calls that write or
  delete rows are steps of the promise by `FileChanges`, calls that attach or
  release a tier by `TierLeaves` and `AttachStep`: rows move between what is
  stored and what is beyond reach, and none comes back that was deleted. Calls
  that only wait for the keychain stutter.
* `CacheTypes`: `TypeOK` with `FramesInv`: a suspended call that is about to
  store or to attach has a key it generated.
* `BudgetsTheorem`: both tiers fit (`Fit`) after every step, for any sizes, also
  of a message larger than a budget. A sum over a set of keys is taken as the
  number of cells of unit size under it; so it grows with the set, and what is
  left after an eviction fits as the key that would have gone next fits together
  with all that are newer. That tiers and files are finite is part of the
  invariant.
* `AccountTypesTheorem`, `TokensApartTheorem`, `ResumableTheorem`,
  `OwnMailTheorem`. The properties are about users who begin nothing while
  something is under way, and none is inductive: each says what a store or a
  page holds, and is made true by what is under way. `Solo` says what that can
  be. The tokens in memory are one account's or cleared (`OneIdentity`), a blob
  holds one account's tokens and is filed under that account (`OwnSecrets`), and
  there is one request, one running coroutine, one result to be delivered or one
  call suspended in its keychain wait (`Flight`: `Asked`, `Runs`, `Told`,
  `Held`), for the user the window names. A sign-in reaches its first connect
  only after both closes, which is why no other account's connection survives it
  (`OwnConn`); a call that erases secrets has taken the account's entry or is
  about to (`Kept`). `OwnMailTheorem` assumes that no token refresh fails: a
  switch whose refresh fails leaves the old account's connection, a finding. The
  step lemmas have one case per action and per kind of frame.
* `SmtpTypesTheorem`, for every program, driver and fault.
* `InStepTheorem`, `NothingMixedTheorem`, `DeliveredTheorem`, `AcceptedTheorem`,
  for the window. A script is an opening followed by one fixed sequence from
  AUTH on (`Flow`), so that its length tells how far a message has come. While
  calls do not overlap there is one coroutine (`Alone`), and what the connection
  holds belongs to one message (`Wire`); the server's session is the one before
  the command under way or, once it has answered, the one after it (`Steps`). A
  message reported as sent therefore ends with its text taken (`Results`).
  `NothingMixedTheorem` and `InStepTheorem` need that no body has a line that is
  a dot alone, `AcceptedTheorem` also that no attachment disappears while the
  message is built; each is a finding of its own. The command line program keeps
  one connection for several messages: its sessions stay with the checker.
* `ImapTypesTheorem`: `TypeOK`, for every program, fault and set of flags.
* `KnownRangesTheorem`, for every cache of UIDs. The fold that builds the ranges
  is unrolled into the row of its intermediate results; the set of lengths
  without such a row has no least element. Each step extends the last range or
  starts one beyond it (`ExtendedBy`), so the ranges cover what was read and stay
  apart (`RangesExact`).
* `InIdleTheorem`: nothing is written while the wire belongs to IDLE but DONE.
  With the types goes that the job under way waits in one place, for the tag it wrote.
* `ToldTheorem`: while nothing is lost, the conversation has one shape (`Talk`):
  what has come and is not read is untagged lines and, where one is asked for, a
  `+`, or it is the one answer of the one command under way, whose status is
  its last line. An operation that waits therefore waits for that answer
  (`Waits`), and tells the status the server gave. `ToldTheorem` also needs that
  a flag list the parser stops at comes in accepted answers only (`NoSlash`): it
  assumes, as the run has it, that nobody else sets `\Seen` and that no
  FETCH is refused after part of its answer. `MCImapClientNews` shows what happens
  otherwise.
* `EntriesTheorem`: what a mailbox's cache holds are UIDs of that mailbox under
  the UIDVALIDITY filed with it. `BelongInv` has what this rests on: the
  mailbox the program believes in is the one the server has selected
  (`Settled`), except while a SELECT is under way, whose answer names the mailbox
  the server is in from then on (`Chosen`); what the server has yet to tell
  (`Pending`) and what has arrived unread (`Arrived`) is about that
  mailbox; and a UIDVALIDITY, once filed, is one the mailbox had (`Files`).
  Refusals after part of an answer and flags set by others are allowed. EXAMINE
  is not: it does not file the UIDVALIDITY, a finding of `MCImapClientCache`.
* `VanishedTheorem`: what vanished, or was moved away, does not come back into
  the cache. `Rises` has three links. UIDs are not given twice and mailboxes only
  grow older (`Sound`, `Ages`), so that what a server has removed is removed for
  good (`Dead`). What the cache holds, its mailbox has had (`Known`), and neither
  SELECT nor MOVE has taken it for gone (`Buried`); what is buried is dead. And a
  line about a message is about a known one that is not buried (`Honest`), and
  does not follow the line that says it is gone (`Fresh`). An accepted MOVE has
  removed what it names before the program forgets it (`Moved`), if it names
  anything: `1:*` is left out (`Named`), as the parser takes it for no UID at all,
  a finding of `MCImapClientCache`. The other assumptions are those of
  `ToldTheorem` and `EntriesTheorem`.

  The last four are about conversations without an answer left over (`lost`), as
  the properties are.
* `SuggestionTheorem`: `OneAtATime` says that a user who waits has one dialog
  open at most, and that every request without an answer asks about the text of
  that dialog, so an answer cannot go astray. Without waiting it can: `NoCrossing`
  is a finding.

Only model-checked:

* the liveness properties and `OperationEnds`: fairness is beyond the prover;
* of `SmtpClient` with the command line program everything but the types;
* `AnswersInStep` of `ImapClient`; `Talk`, proved for `ToldTheorem`, has all of it
  but the tag of the status;
* the violations.

## 6. Not modelled

* Text processing: the email parser and text sanitizer (regular expressions), the
  MIME reader and the layout the writer gives a message (GMime), prompts and
  JSON of the AI service. Functions of text without state; a model of them would
  be the text itself.
* Base64 and modified UTF-7: conversions without state that no property of the
  modules above tells apart.
* Tokens, quoting and layout of the IMAP and SMTP grammars: an answer is its
  status, its lines and where the parser stops; a command is its fields and
  whether one of them holds a line end.
* Logging: a registry of handlers under a lock; nothing else depends on it.
* Configuration, read once at start; widgets, painting and layout; the wiring of
  the objects at start, which the modules rely on for one io_context thread and
  one strand.
* Within the session: the destruction of the controller and the exit of the
  application. Within the mailbox view: search, attachments, unread marks and
  the reader's rendering. Within the accounts: server hints and the QSettings
  backend of the credential store. Within the caches: statistics and the encoding of a row.
* Hazards no property covers are listed with a note in `PROJECT.json`.
