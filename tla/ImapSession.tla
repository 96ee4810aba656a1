---------------------------- MODULE ImapSession ----------------------------
(***************************************************************************)
(* ImapSessionController and the parts of MainWindow and ImapClient that   *)
(* it coordinates: one IMAP stream shared by a long-lived IDLE coroutine   *)
(* and by a pump coroutine that runs the user's queued operations.         *)
(*                                                                         *)
(* Two threads take steps.  The Qt thread enqueues operations, starts and  *)
(* stops polling.  The io_context thread runs the coroutines and posted    *)
(* handlers of one strand, one at a time: a coroutine keeps the thread     *)
(* between two suspension points.  The Qt thread interleaves with every    *)
(* access to the shared atomics, inside such a segment too.                *)
(***************************************************************************)
EXTENDS ImapCommandQueue

CONSTANTS
  Coro,       \* identities for coroutines of the strand
  Clicks,     \* the types of operation the user may ask for
  MaxClicks,  \* bound: operations the user enqueues
  MaxPushes,  \* bound: notifications the server sends during IDLE
  MaxStops,   \* bound: calls of stopPolling
  MaxPosts,   \* bound: pump handlers waiting on the strand
  MayThrow,   \* whether dispatch_ may let an exception escape
  NoOp        \* "no operation"

ASSUME BoundsAssumption ==
  /\ MaxClicks \in Nat /\ MaxPushes \in Nat /\ MaxStops \in Nat
  /\ MaxPosts \in Nat \ {0}
  /\ MayThrow \in BOOLEAN
ASSUME ClicksAssumption == Clicks \subseteq ImapOpType /\ NoOp \notin ImapOpType

VARIABLES
  \* the controller's atomics and its queue
  idleRunning, stopIdle, commandPending, idleExited,
  imapBusy, pumpActive, reschedule, phase, queue,
  \* the io_context thread
  idle,          \* [Coro -> where each IDLE coroutine is]
  pump,          \* [Coro -> where each pump coroutine is]
  running,       \* [Coro -> the operation a pump coroutine dispatches]
  pumpPosts,     \* posted handlers of scheduleImapPump
  cancelPosted,  \* a posted handler of cancelIdleWait
  \* the Qt thread
  qt,            \* what it is executing
  qtOp,          \* the operation it is enqueuing
  nested,        \* inside stopPolling's QEventLoop
  notices,       \* queued calls of handleIdleServerNotification
  stopped,       \* a queued emission of idleLoopStopped
  \* history and bounds
  gaveUp,        \* the pump timed out and left operations in the queue
  clicks, pushes, stops

atomics == <<idleRunning, stopIdle, commandPending, idleExited,
             imapBusy, pumpActive, reschedule, phase>>
ioVars  == <<idle, pump, running, pumpPosts, cancelPosted>>
qtVars  == <<qt, qtOp, nested, notices, stopped>>
bounds  == <<clicks, pushes, stops>>
vars    == <<atomics, queue, ioVars, qtVars, gaveUp, bounds>>

Phases == {"Disconnected", "Ready", "ServerIdling", "WaitingIdleExit",
           "ExecutingCommand"}

\* An IDLE coroutine: "while" before the loop test (the two sleeps included),
\* "yield" after the test, "arm" and "recheck" around idleExited = false,
\* then the exchanges with the server.
IdlePc == {"none", "while", "yield", "arm", "recheck",
           "starting", "doneEarly", "waiting", "donePush", "doneQuiet", "leave"}

\* A pump coroutine: "late" is the state of "check" when the deadline passed.
PumpPc == {"none", "start", "wait", "poll", "check", "late", "resume",
           "return", "dispatch"}

\* The Qt thread: its event loop, the steps of enqueueOperation and those of
\* stopPolling.
QtPc == {"loop", "cancel", "push", "post", "flag", "test", "teardown"}

\* States in which a coroutine holds the io_context thread.
IdleMid == {"arm", "recheck", "leave"}
PumpMid == {"wait", "check", "late", "resume", "return"}

\* States in which the coroutine has an exchange under way on the stream.
IdleOnWire == {"starting", "doneEarly", "waiting", "donePush", "doneQuiet"}

\* No other coroutine is in the middle of a segment.
IdleTurn(c) == /\ \A d \in Coro \ {c} : idle[d] \notin IdleMid
               /\ \A d \in Coro : pump[d] \notin PumpMid
PumpTurn(c) == /\ \A d \in Coro : idle[d] \notin IdleMid
               /\ \A d \in Coro \ {c} : pump[d] \notin PumpMid
IoFree == \A d \in Coro : idle[d] \notin IdleMid /\ pump[d] \notin PumpMid

IdleGoto(c, pc) == idle' = [idle EXCEPT ![c] = pc]
PumpGoto(c, pc) == pump' = [pump EXCEPT ![c] = pc]

Init ==
  /\ idleRunning = FALSE /\ stopIdle = FALSE /\ commandPending = FALSE
  /\ idleExited = TRUE /\ imapBusy = FALSE /\ pumpActive = FALSE
  /\ reschedule = FALSE /\ phase = "Disconnected" /\ queue = <<>>
  /\ idle = [c \in Coro |-> "none"] /\ pump = [c \in Coro |-> "none"]
  /\ running = [c \in Coro |-> NoOp]
  /\ pumpPosts = 0 /\ cancelPosted = FALSE
  /\ qt = "loop" /\ qtOp = NoOp /\ nested = FALSE
  /\ notices = 0 /\ stopped = FALSE /\ gaveUp = FALSE
  /\ clicks = 0 /\ pushes = 0 /\ stops = 0

-----------------------------------------------------------------------------
\* enqueueOperation's first step: close the re-arm window of IDLE.
BeginEnqueue(op) ==
  /\ qt = "loop"
  /\ qt' = "cancel" /\ qtOp' = op
  /\ commandPending' = TRUE

-----------------------------------------------------------------------------
(* Mutated actions.  Each is what a plausible slip in the code would make  *)
(* of the action it is named after; no action of the specification.        *)

\* enqueueOperation reads op after having moved from it.
EnqueueCancelMovesOp ==
  /\ qt = "cancel"
  /\ qt' = "push" /\ qtOp' = NoOp
  /\ cancelPosted' = (cancelPosted \/ (idleRunning /\ ~idleExited))
  /\ UNCHANGED <<atomics, queue, idle, pump, running, pumpPosts, nested,
                 notices, stopped, gaveUp, bounds>>

\* enqueueOperation relies on the running pump and posts no handler.
EnqueuePostUnlessActive ==
  /\ qt = "post" /\ pumpPosts < MaxPosts
  /\ qt' = "loop" /\ qtOp' = NoOp
  /\ pumpPosts' = IF pumpActive THEN pumpPosts ELSE pumpPosts + 1
  /\ UNCHANGED <<atomics, queue, idle, pump, running, cancelPosted, nested,
                 notices, stopped, gaveUp, bounds>>

\* handleIdleServerNotification fetches the page on display only.
HandleNotificationFetchesPage ==
  /\ notices > 0
  /\ BeginEnqueue("FetchMailboxPage")
  /\ notices' = notices - 1
  /\ UNCHANGED <<idleRunning, stopIdle, idleExited, imapBusy, pumpActive,
                 reschedule, phase, queue, ioVars, nested, stopped, gaveUp,
                 bounds>>

\* The loop tests m_commandPending only.
IdleWhileNoStop(c) ==
  /\ idle[c] = "while" /\ IdleTurn(c)
  /\ IdleGoto(c, "yield")
  /\ UNCHANGED <<atomics, queue, pump, running, pumpPosts, cancelPosted,
                 qtVars, gaveUp, bounds>>

\* m_idleExited = false is forgotten.
IdleArmForgets(c) ==
  /\ idle[c] = "arm" /\ IdleTurn(c)
  /\ IdleGoto(c, "recheck")
  /\ UNCHANGED <<atomics, queue, pump, running, pumpPosts, cancelPosted,
                 qtVars, gaveUp, bounds>>

\* m_imapPumpSessionActive is stored, not exchanged.
SchedulePumpNoExchange ==
  /\ pumpPosts > 0 /\ IoFree
  /\ pumpPosts' = pumpPosts - 1
  /\ pumpActive' = TRUE
  /\ \E c \in Coro : pump[c] = "none" /\ PumpGoto(c, "start")
  /\ UNCHANGED <<idleRunning, stopIdle, commandPending, idleExited, imapBusy,
                 reschedule, phase, queue, idle, running, cancelPosted, qtVars,
                 gaveUp, bounds>>

\* The polling loop ends when the deadline or the next round comes.
PumpPollOnce(c) ==
  /\ pump[c] = "poll" /\ PumpTurn(c)
  /\ PumpGoto(c, "check")
  /\ UNCHANGED <<atomics, queue, idle, running, pumpPosts, cancelPosted,
                 qtVars, gaveUp, bounds>>

\* setPhase(Ready) after the dispatch is forgotten.
DispatchDoneKeepsPhase(c) ==
  /\ pump[c] = "dispatch" /\ PumpTurn(c)
  /\ PumpGoto(c, "wait")
  /\ running' = [running EXCEPT ![c] = NoOp]
  /\ imapBusy' = FALSE /\ UNCHANGED phase

\* resumeIdle's second early return has the wrong sense.
PumpResumeInverted(c) ==
  /\ pump[c] = "resume" /\ PumpTurn(c)
  /\ PumpGoto(c, "return")
  /\ commandPending' = (commandPending /\ idleExited)
  /\ UNCHANGED <<idleRunning, stopIdle, idleExited, imapBusy, pumpActive,
                 reschedule, phase, queue, idle, running, pumpPosts,
                 cancelPosted, qtVars, gaveUp, bounds>>

-----------------------------------------------------------------------------
(* The Qt thread: enqueueOperation, one shared access per step.            *)

\* A click on a mailbox, a message, a page or an action.
UserEnqueue ==
  /\ clicks < MaxClicks
  /\ \E op \in Clicks : BeginEnqueue(op)
  /\ clicks' = clicks + 1
  /\ UNCHANGED <<idleRunning, stopIdle, idleExited, imapBusy, pumpActive,
                 reschedule, phase, queue, ioVars, nested, notices, stopped,
                 gaveUp, pushes, stops>>

\* handleIdleServerNotification re-selects the displayed mailbox.
HandleNotification ==
  /\ notices > 0
  /\ BeginEnqueue("SelectMailbox")
  /\ notices' = notices - 1
  /\ UNCHANGED <<idleRunning, stopIdle, idleExited, imapBusy, pumpActive,
                 reschedule, phase, queue, ioVars, nested, stopped, gaveUp,
                 bounds>>

EnqueueCancel ==
  /\ qt = "cancel"
  /\ qt' = "push"
  /\ cancelPosted' = (cancelPosted \/ (idleRunning /\ ~idleExited))
  /\ UNCHANGED <<atomics, queue, idle, pump, running, pumpPosts, qtOp, nested,
                 notices, stopped, gaveUp, bounds>>

EnqueuePush ==
  /\ qt = "push"
  /\ qt' = "post"
  /\ queue' = Enqueue(queue, qtOp)
  /\ UNCHANGED <<atomics, ioVars, qtOp, nested, notices, stopped, gaveUp,
                 bounds>>

EnqueuePost ==
  /\ qt = "post" /\ pumpPosts < MaxPosts
  /\ qt' = "loop" /\ qtOp' = NoOp
  /\ pumpPosts' = pumpPosts + 1
  /\ UNCHANGED <<atomics, queue, idle, pump, running, cancelPosted, nested,
                 notices, stopped, gaveUp, bounds>>

-----------------------------------------------------------------------------
(* The Qt thread: stopPolling, then the reset of the client.               *)

\* requestStopIdleLoop: m_stopIdle = true.
StopPolling ==
  /\ qt = "loop" /\ ~nested /\ stops < MaxStops
  /\ qt' = "flag"
  /\ stops' = stops + 1
  /\ stopIdle' = TRUE
  /\ UNCHANGED <<idleRunning, commandPending, idleExited, imapBusy, pumpActive,
                 reschedule, phase, queue, ioVars, qtOp, nested, notices,
                 stopped, gaveUp, clicks, pushes>>

\* m_commandPending = true, cancelIdleWait.
StopFlag ==
  /\ qt = "flag"
  /\ qt' = "test"
  /\ commandPending' = TRUE
  /\ cancelPosted' = TRUE
  /\ UNCHANGED <<idleRunning, stopIdle, idleExited, imapBusy, pumpActive,
                 reschedule, phase, queue, idle, pump, running, pumpPosts,
                 qtOp, nested, notices, stopped, gaveUp, bounds>>

\* Run a nested event loop if the IDLE coroutine is still there.
StopTest ==
  /\ qt = "test"
  /\ nested' = idleRunning
  /\ qt' = IF idleRunning THEN "loop" ELSE "teardown"
  /\ UNCHANGED <<atomics, queue, ioVars, qtOp, notices, stopped, gaveUp,
                 bounds>>

\* The event loop delivers idleLoopStopped: the nested loop, if any, quits.
DeliverStopped ==
  /\ qt = "loop" /\ stopped
  /\ stopped' = FALSE
  /\ nested' = FALSE
  /\ qt' = IF nested THEN "teardown" ELSE "loop"
  /\ UNCHANGED <<atomics, queue, ioVars, qtOp, notices, gaveUp, bounds>>

\* stopPolling's 10 s timer.
StopTimeout ==
  /\ qt = "loop" /\ nested
  /\ nested' = FALSE /\ qt' = "teardown"
  /\ UNCHANGED <<atomics, queue, ioVars, qtOp, notices, stopped, gaveUp,
                 bounds>>

\* stopPolling has returned; imapClient->reset() follows.
Teardown ==
  /\ qt = "teardown"
  /\ qt' = "loop"
  /\ UNCHANGED <<atomics, queue, ioVars, qtOp, nested, notices, stopped,
                 gaveUp, bounds>>

-----------------------------------------------------------------------------
(* The IDLE coroutine.                                                     *)

\* while (!m_stopIdle) { post; ...
IdleWhile(c) ==
  /\ idle[c] = "while" /\ IdleTurn(c)
  /\ IdleGoto(c, IF stopIdle THEN "leave" ELSE "yield")
  /\ UNCHANGED <<atomics, queue, pump, running, pumpPosts, cancelPosted,
                 qtVars, gaveUp, bounds>>

\* if (m_commandPending) { sleep 50 ms; continue; }
IdleYield(c) ==
  /\ idle[c] = "yield" /\ IdleTurn(c)
  /\ IdleGoto(c, IF commandPending THEN "while" ELSE "arm")
  /\ UNCHANGED <<atomics, queue, pump, running, pumpPosts, cancelPosted,
                 qtVars, gaveUp, bounds>>

IdleArm(c) ==
  /\ idle[c] = "arm" /\ IdleTurn(c)
  /\ IdleGoto(c, "recheck")
  /\ idleExited' = FALSE
  /\ UNCHANGED <<idleRunning, stopIdle, commandPending, imapBusy, pumpActive,
                 reschedule, phase, queue, pump, running, pumpPosts,
                 cancelPosted, qtVars, gaveUp, bounds>>

IdleRecheck(c) ==
  /\ idle[c] = "recheck" /\ IdleTurn(c)
  /\ \/ /\ commandPending
        /\ idleExited' = TRUE /\ phase' = "Ready"
        /\ IdleGoto(c, "while")
     \/ /\ ~commandPending
        /\ IdleGoto(c, "starting")
        /\ UNCHANGED <<idleExited, phase>>
  /\ UNCHANGED <<idleRunning, stopIdle, commandPending, imapBusy, pumpActive,
                 reschedule, queue, pump, running, pumpPosts, cancelPosted,
                 qtVars, gaveUp, bounds>>

\* asyncIdleStart completes.  On success either an operation is pending and
\* DONE is sent at once, or asyncIdleWait installs its cancellation signal.
IdleStarted(c) ==
  /\ idle[c] = "starting" /\ IdleTurn(c)
  /\ \/ /\ idleExited' = TRUE /\ phase' = "Ready"
        /\ IdleGoto(c, "while")
     \/ /\ commandPending
        /\ IdleGoto(c, "doneEarly")
        /\ UNCHANGED <<idleExited, phase>>
     \/ /\ ~commandPending
        /\ IdleGoto(c, "waiting")
        /\ phase' = "ServerIdling"
        /\ UNCHANGED idleExited
  /\ UNCHANGED <<idleRunning, stopIdle, commandPending, imapBusy, pumpActive,
                 reschedule, queue, pump, running, pumpPosts, cancelPosted,
                 qtVars, gaveUp, bounds>>

\* asyncIdleDone after the post-start race completes; no pump is scheduled.
IdleDoneEarly(c) ==
  /\ idle[c] = "doneEarly" /\ IdleTurn(c)
  /\ \E ok \in BOOLEAN : IdleGoto(c, IF ok THEN "while" ELSE "leave")
  /\ idleExited' = TRUE /\ phase' = "Ready"
  /\ UNCHANGED <<idleRunning, stopIdle, commandPending, imapBusy, pumpActive,
                 reschedule, queue, pump, running, pumpPosts, cancelPosted,
                 qtVars, gaveUp, bounds>>

\* asyncIdleWait returns a notification.
IdlePush(c) ==
  /\ idle[c] = "waiting" /\ IdleTurn(c) /\ pushes < MaxPushes
  /\ IdleGoto(c, "donePush")
  /\ pushes' = pushes + 1
  /\ phase' = "WaitingIdleExit"
  /\ UNCHANGED <<idleRunning, stopIdle, commandPending, idleExited, imapBusy,
                 pumpActive, reschedule, queue, pump, running, pumpPosts,
                 cancelPosted, qtVars, gaveUp, clicks, stops>>

\* asyncIdleWait ends by its timer (kIdleWaitSec) or on a read error.
IdleTimeout(c) ==
  /\ idle[c] = "waiting" /\ IdleTurn(c)
  /\ IdleGoto(c, "doneQuiet")
  /\ phase' = "WaitingIdleExit"
  /\ UNCHANGED <<idleRunning, stopIdle, commandPending, idleExited, imapBusy,
                 pumpActive, reschedule, queue, pump, running, pumpPosts,
                 cancelPosted, qtVars, gaveUp, bounds>>

\* asyncIdleDone completes: the loop schedules the pump if an operation is
\* pending, hands over the notification, and goes round or, if DONE failed,
\* leaves.
IdleDone(c) ==
  /\ idle[c] \in {"donePush", "doneQuiet"} /\ IdleTurn(c)
  /\ idleExited' = TRUE /\ phase' = "Ready"
  /\ IF commandPending
       THEN /\ pumpPosts < MaxPosts
            /\ pumpPosts' = pumpPosts + 1
       ELSE UNCHANGED pumpPosts
  /\ \E ok \in BOOLEAN :
       /\ IdleGoto(c, IF ok THEN "while" ELSE "leave")
       /\ notices' = IF ok /\ idle[c] = "donePush" THEN notices + 1 ELSE notices
  /\ UNCHANGED <<idleRunning, stopIdle, commandPending, imapBusy, pumpActive,
                 reschedule, queue, pump, running, cancelPosted, qt, qtOp,
                 nested, stopped, gaveUp, bounds>>

IdleLeave(c) ==
  /\ idle[c] = "leave" /\ IdleTurn(c)
  /\ IdleGoto(c, "none")
  /\ idleRunning' = FALSE /\ idleExited' = TRUE /\ phase' = "Disconnected"
  /\ stopped' = TRUE
  /\ UNCHANGED <<stopIdle, commandPending, imapBusy, pumpActive, reschedule,
                 queue, pump, running, pumpPosts, cancelPosted, qt, qtOp,
                 nested, notices, gaveUp, bounds>>

\* The handler posted by cancelIdleWait: it ends the wait that is under way,
\* and is a no-op at any other moment.
CancelIdleWait ==
  /\ cancelPosted /\ IoFree
  /\ cancelPosted' = FALSE
  /\ idle' = [c \in Coro |-> IF idle[c] = "waiting" THEN "doneQuiet" ELSE idle[c]]
  /\ phase' = IF \E c \in Coro : idle[c] = "waiting" THEN "WaitingIdleExit" ELSE phase
  /\ UNCHANGED <<idleRunning, stopIdle, commandPending, idleExited, imapBusy,
                 pumpActive, reschedule, queue, pump, running, pumpPosts,
                 qtVars, gaveUp, bounds>>

-----------------------------------------------------------------------------
(* The pump coroutine.                                                     *)

\* The handler posted by scheduleImapPump.
SchedulePump ==
  /\ pumpPosts > 0 /\ IoFree
  /\ pumpPosts' = pumpPosts - 1
  /\ pumpActive' = TRUE
  /\ \/ /\ pumpActive
        /\ reschedule' = TRUE
        /\ UNCHANGED pump
     \/ /\ ~pumpActive
        /\ \E c \in Coro : pump[c] = "none" /\ PumpGoto(c, "start")
        /\ UNCHANGED reschedule
  /\ UNCHANGED <<idleRunning, stopIdle, commandPending, idleExited, imapBusy,
                 phase, queue, idle, running, cancelPosted, qtVars, gaveUp,
                 bounds>>

\* The spawned coroutine begins: do { m_imapPumpRescheduleRequested = false;
\* runImapPumpSession ...
PumpStart(c) ==
  /\ pump[c] = "start" /\ PumpTurn(c)
  /\ PumpGoto(c, "wait")
  /\ reschedule' = FALSE
  /\ gaveUp' = FALSE
  /\ UNCHANGED <<idleRunning, stopIdle, commandPending, idleExited, imapBusy,
                 pumpActive, phase, queue, idle, running, pumpPosts,
                 cancelPosted, qtVars, bounds>>

\* waitIdleReleasedAsync up to its first suspension.
PumpWait(c) ==
  /\ pump[c] = "wait" /\ PumpTurn(c)
  /\ \/ /\ ~idleRunning
        /\ PumpGoto(c, "check")
        /\ UNCHANGED cancelPosted
     \/ /\ idleRunning
        /\ PumpGoto(c, "poll")
        /\ cancelPosted' = TRUE
  /\ UNCHANGED <<atomics, queue, idle, running, pumpPosts, qtVars, gaveUp,
                 bounds>>

\* One round of the 5 ms polling loop that ends it.
PumpPoll(c) ==
  /\ pump[c] = "poll" /\ PumpTurn(c)
  /\ ~idleRunning \/ idleExited
  /\ PumpGoto(c, "check")
  /\ UNCHANGED <<atomics, queue, idle, running, pumpPosts, cancelPosted,
                 qtVars, gaveUp, bounds>>

\* A round after the deadline (kIdlePauseTimeoutMs, 30 s).  A wait of IDLE is
\* over in kIdleWaitSec (5 s) and the loop then stands still if an operation
\* is pending: the deadline passes only if the server is slow to answer IDLE
\* or DONE (the stream allows 30 s per line), or if IDLE keeps re-arming
\* because nothing is pending and the rounds miss the short exits.  The
\* posted cancel has run long before.
PumpDeadline(c) ==
  /\ pump[c] = "poll" /\ PumpTurn(c)
  /\ idleRunning /\ ~idleExited
  /\ ~cancelPosted
  /\ ~commandPending \/ \E d \in Coro : idle[d] \in IdleOnWire \ {"waiting"}
  /\ PumpGoto(c, "late")
  /\ UNCHANGED <<atomics, queue, idle, running, pumpPosts, cancelPosted,
                 qtVars, gaveUp, bounds>>

\* The queue is empty: return, resuming IDLE if the wait was not in vain.
PumpDrained(c) ==
  /\ pump[c] \in {"check", "late"} /\ PumpTurn(c)
  /\ QueueEmpty(queue)
  /\ PumpGoto(c, IF pump[c] = "check" THEN "resume" ELSE "return")
  /\ UNCHANGED <<atomics, queue, idle, running, pumpPosts, cancelPosted,
                 qtVars, gaveUp, bounds>>

\* The wait timed out: tell the user, leave the queue as it is.
PumpGiveUp(c) ==
  /\ pump[c] = "late" /\ PumpTurn(c)
  /\ ~QueueEmpty(queue)
  /\ PumpGoto(c, "return")
  /\ gaveUp' = TRUE
  /\ UNCHANGED <<atomics, queue, idle, running, pumpPosts, cancelPosted,
                 qtVars, bounds>>

\* Pop an operation and start to dispatch it.
PumpPop(c) ==
  /\ pump[c] = "check" /\ PumpTurn(c)
  /\ ~QueueEmpty(queue)
  /\ PumpGoto(c, "dispatch")
  /\ running' = [running EXCEPT ![c] = Head(queue)]
  /\ queue' = Tail(queue)
  /\ imapBusy' = TRUE /\ phase' = "ExecutingCommand"
  /\ UNCHANGED <<idleRunning, stopIdle, commandPending, idleExited, pumpActive,
                 reschedule, idle, pumpPosts, cancelPosted, qtVars, gaveUp,
                 bounds>>

\* resumeIdle, called by the pump on the strand.
PumpResume(c) ==
  /\ pump[c] = "resume" /\ PumpTurn(c)
  /\ PumpGoto(c, "return")
  /\ commandPending' = (commandPending /\ ~idleExited)
  /\ UNCHANGED <<idleRunning, stopIdle, idleExited, imapBusy, pumpActive,
                 reschedule, phase, queue, idle, running, pumpPosts,
                 cancelPosted, qtVars, gaveUp, bounds>>

\* } while (m_imapPumpRescheduleRequested.exchange(false)): the next session
\* begins in the same segment.
PumpReturn(c) ==
  /\ pump[c] = "return" /\ PumpTurn(c)
  /\ PumpGoto(c, IF reschedule THEN "wait" ELSE "none")
  /\ pumpActive' = reschedule
  /\ reschedule' = FALSE
  /\ gaveUp' = (gaveUp /\ ~reschedule)
  /\ UNCHANGED <<idleRunning, stopIdle, commandPending, idleExited, imapBusy,
                 phase, queue, idle, running, pumpPosts, cancelPosted, qtVars,
                 bounds>>

-----------------------------------------------------------------------------
(* Dispatching an operation.                                               *)

\* The operations whose completion applies a listing on the Qt thread, where
\* startPolling is called if no IDLE loop runs.
Listing == {"SelectMailbox", "FetchMailboxPage"}

\* The operations that call no BlockingQueuedConnection slot.
Silent == {"MarkRead", "ToggleFlag"}

DispatchDone(c) ==
  /\ pump[c] = "dispatch" /\ PumpTurn(c)
  /\ PumpGoto(c, "wait")
  /\ running' = [running EXCEPT ![c] = NoOp]
  /\ imapBusy' = FALSE /\ phase' = "Ready"

\* The operation completes, successfully or not, without starting IDLE.
DispatchPlain(c) ==
  /\ DispatchDone(c)
  /\ running[c] \in Silent \/ qt = "loop"
  /\ UNCHANGED <<idleRunning, stopIdle, commandPending, idleExited, pumpActive,
                 reschedule, queue, idle, pumpPosts, cancelPosted, qtVars,
                 gaveUp, bounds>>

\* startPolling on the Qt thread, while the io_context thread is blocked in
\* the call that applies the listing.
DispatchStartsPolling(c) ==
  /\ DispatchDone(c)
  /\ running[c] \in Listing /\ qt = "loop"
  /\ ~idleRunning
  /\ idleRunning' = TRUE /\ stopIdle' = FALSE
  /\ commandPending' = FALSE /\ idleExited' = TRUE
  /\ \E d \in Coro : idle[d] = "none" /\ IdleGoto(d, "while")
  /\ UNCHANGED <<pumpActive, reschedule, queue, pumpPosts, cancelPosted,
                 qtVars, gaveUp, bounds>>

\* An exception escapes dispatch_: the detached coroutine is destroyed and
\* IoContextRunner runs the io_context again.
DispatchThrows(c) ==
  /\ MayThrow
  /\ pump[c] = "dispatch" /\ PumpTurn(c)
  /\ PumpGoto(c, "none")
  /\ running' = [running EXCEPT ![c] = NoOp]
  /\ UNCHANGED <<atomics, queue, idle, pumpPosts, cancelPosted, qtVars, gaveUp,
                 bounds>>

-----------------------------------------------------------------------------
QtNext ==
  \/ UserEnqueue \/ HandleNotification
  \/ EnqueueCancel \/ EnqueuePush \/ EnqueuePost
  \/ StopPolling \/ StopFlag \/ StopTest
  \/ DeliverStopped \/ StopTimeout \/ Teardown

IdleNext(c) ==
  \/ IdleWhile(c) \/ IdleYield(c) \/ IdleArm(c) \/ IdleRecheck(c)
  \/ IdleStarted(c) \/ IdleDoneEarly(c) \/ IdlePush(c) \/ IdleTimeout(c)
  \/ IdleDone(c) \/ IdleLeave(c)

PumpNext(c) ==
  \/ PumpStart(c) \/ PumpWait(c) \/ PumpPoll(c) \/ PumpDeadline(c)
  \/ PumpDrained(c) \/ PumpGiveUp(c) \/ PumpPop(c) \/ PumpResume(c)
  \/ PumpReturn(c)
  \/ DispatchPlain(c) \/ DispatchStartsPolling(c) \/ DispatchThrows(c)

Next ==
  \/ QtNext
  \/ CancelIdleWait \/ SchedulePump
  \/ \E c \in Coro : IdleNext(c) \/ PumpNext(c)

\* The io_context is a queue: a ready coroutine or posted handler waits for the
\* segments before it and then runs, hence strong fairness.  Every
\* exchange with the server ends, by an answer or by the stream's timeout; the
\* Qt thread finishes what it started and serves its event loop.  The user
\* and the server's notifications are under no obligation.
Fairness ==
  /\ WF_vars(HandleNotification)
  /\ WF_vars(EnqueueCancel) /\ WF_vars(EnqueuePush) /\ WF_vars(EnqueuePost)
  /\ WF_vars(StopFlag) /\ WF_vars(StopTest) /\ WF_vars(DeliverStopped)
  /\ WF_vars(StopTimeout) /\ WF_vars(Teardown)
  /\ SF_vars(CancelIdleWait) /\ SF_vars(SchedulePump)
  /\ \A c \in Coro : SF_vars(IdleNext(c)) /\ SF_vars(PumpNext(c))

Spec == Init /\ [][Next]_vars
FairSpec == Spec /\ Fairness

-----------------------------------------------------------------------------
(* Properties.                                                             *)

FlagsType ==
  /\ idleRunning \in BOOLEAN /\ stopIdle \in BOOLEAN
  /\ commandPending \in BOOLEAN /\ idleExited \in BOOLEAN
  /\ imapBusy \in BOOLEAN /\ pumpActive \in BOOLEAN /\ reschedule \in BOOLEAN
  /\ cancelPosted \in BOOLEAN
  /\ nested \in BOOLEAN /\ stopped \in BOOLEAN /\ gaveUp \in BOOLEAN

PlacesType ==
  /\ phase \in Phases
  /\ idle \in [Coro -> IdlePc] /\ pump \in [Coro -> PumpPc]
  /\ qt \in QtPc

OperationsType ==
  /\ queue \in Seq(ImapOpType)
  /\ running \in [Coro -> ImapOpType \cup {NoOp}]
  /\ qtOp \in ImapOpType \cup {NoOp}
  /\ qt \in {"cancel", "push"} => qtOp \in ImapOpType

CountersType ==
  /\ pumpPosts \in 0..MaxPosts
  /\ notices \in Nat
  /\ clicks \in 0..MaxClicks /\ pushes \in 0..MaxPushes /\ stops \in 0..MaxStops

TypeOK == FlagsType /\ PlacesType /\ OperationsType /\ CountersType

\* The exchanges of m_idleRunning and m_imapPumpSessionActive admit one IDLE
\* loop and one pump at a time, whatever startPolling and the scheduled
\* handlers do.
OneCoroutineEach ==
  \A c, d \in Coro :
    /\ idle[c] # "none" /\ idle[d] # "none" => c = d
    /\ pump[c] # "none" /\ pump[d] # "none" => c = d

\* ImapCommandQueue's promise survives the race of enqueue with tryPop: only
\* the latest click on a message or page waits, nothing before a re-selection.
LatestClickWaits == QueueCoalesced(queue)

\* What the pump and enqueueOperation conclude from the flags is true of the
\* stream: while IDLE is on the wire the flags say so, and the busy flag is
\* set exactly while an operation is being dispatched.
FlagsTellTheWire ==
  /\ \A c \in Coro : idle[c] \in IdleOnWire => idleRunning /\ ~idleExited
  /\ imapBusy <=> \E c \in Coro : pump[c] = "dispatch"

\* An exception has escaped dispatch_ and taken the pump coroutine with it:
\* m_imapPumpSessionActive, m_imapBusy and the phase stay as they were.
PumpDied == pumpActive /\ \A c \in Coro : pump[c] = "none"

\* The diagnostic phase claims an IDLE wait only while one is under way, and a
\* command only while the pump is dispatching it.  The one exception is the
\* pump that an exception has ended: "ExecutingCommand" then stays although
\* the command is over, until the IDLE loop sets another phase.
PhaseIsCurrent ==
  /\ phase = "ServerIdling" => \E c \in Coro : idle[c] = "waiting"
  /\ phase = "ExecutingCommand" =>
       (\E c \in Coro : pump[c] = "dispatch") \/ PumpDied

\* A pump will look at the queue after this state.
PumpComing ==
  \/ pumpPosts > 0 \/ qt = "post"
  \/ \E c \in Coro :
       \/ pump[c] \in {"start", "wait", "poll", "check", "late", "dispatch"}
       \/ pump[c] \in {"resume", "return"} /\ reschedule

\* No lost wake-up between enqueueOperation and the pump's last look at the
\* queue: a queued operation has a pump coming for it, unless the pump has
\* just given up on IDLE and told the user.
QueueHasConsumer == QueueEmpty(queue) \/ gaveUp \/ PumpComing

\* The pump half of mutual exclusion: an operation starts only when IDLE is
\* off the wire.
OperationStartsOffIdle ==
  [][\A c \in Coro : (pump[c] # "dispatch" /\ pump'[c] = "dispatch")
       => \A d \in Coro : idle[d] \notin IdleOnWire]_vars

\* MainWindow.cpp: "both use one ImapClient stream; overlapping coroutines
\* desync tags".  IDLE and an operation are never on the stream together.
ExclusiveStream ==
  ~ \E c, d \in Coro : idle[c] \in IdleOnWire /\ pump[d] = "dispatch"

\* MainWindow.cpp: "Stop IDLE / pump first so no in-flight FETCH races the
\* disconnect".  When teardown resets the client nothing uses the stream.
TeardownQuiesces ==
  qt = "teardown" => \A c \in Coro : /\ idle[c] \notin IdleOnWire
                                     /\ pump[c] # "dispatch"

\* stopPolling is honoured: a running IDLE loop that is told to stop ends.
StopHonoured == stopIdle /\ idleRunning ~> ~idleRunning

\* Every operation leaves the queue, unless the pump gives up.
QueueServed == ~QueueEmpty(queue) ~> QueueEmpty(queue) \/ gaveUp

\* A notification leads to the re-selection of a mailbox, unless the pump
\* gives up.
PushResyncs ==
  notices > 0 ~> \/ gaveUp
                 \/ \E c \in Coro : running[c] = "SelectMailbox"

\* After the operations IDLE is allowed to resume, unless the pump gives up.
IdleAllowedAgain ==
  commandPending /\ idleRunning ~> ~commandPending \/ ~idleRunning \/ gaveUp

=============================================================================
