----------------------------- MODULE SmtpClient -----------------------------
(***************************************************************************)
(* The SMTP client on the base protocol client and the timed stream, with  *)
(* the two programs that drive it: the main window, which opens a fresh    *)
(* session for every message, and the command line client, which runs one  *)
(* command after the other on one connection.  SMTP answers carry no tag,  *)
(* so an answer belongs to a command only by its place: the model keeps    *)
(* the commands and the answers under way and the server's transaction.    *)
(* A coroutine of the client is a job with the steps it has left; each     *)
(* step is one await.  Payloads are message numbers.                       *)
(***************************************************************************)
EXTENDS Naturals, Sequences, FiniteSets, SequencesExt

CONSTANTS Drivers,      \* the programs: a subset of {"desktop", "cli"}
          Modes,        \* the connection modes: a subset of {"SSL_TLS", "STARTTLS", "PLAIN"}
          CliOps,       \* what is typed at the prompt: a subset of CliCommands
          Recipients,   \* the recipients of every message
          Bodies,       \* the kinds of body written: a subset of {"plain", "dotted", "lostfile"}
          MaxLines,     \* the limit of lines of one answer (20 in the code)
          Faults,       \* the faults that may happen: a subset of FaultKinds
          MaxSends,     \* bound: messages sent
          MaxOps,       \* bound: operations started
          MaxLate,      \* bound: answers that come after the read has timed out
          MaxFaults     \* bound: other faults

CliCommands == {"connect", "send", "auth", "login", "NOOP", "HELP", "VRFY", "RSET", "quit"}
FaultKinds == {"connect", "tls", "cut", "hang", "silent_tls", "lines", "garbled", "token", "refresh", "impatient"}

ASSUME SmtpAssumption ==
  /\ Drivers \subseteq {"desktop", "cli"} /\ Modes \subseteq {"SSL_TLS", "STARTTLS", "PLAIN"}
  /\ CliOps \subseteq CliCommands
  /\ Bodies \subseteq {"plain", "dotted", "lostfile"} /\ Faults \subseteq FaultKinds
  /\ IsFiniteSet(Recipients) /\ Recipients # {} /\ "none" \notin Recipients
  /\ MaxLines \in Nat \ {0} /\ {MaxSends, MaxOps, MaxLate, MaxFaults} \subseteq Nat

VARIABLES driver, mode,
          conn,         \* connection_state_
          inner,        \* what the TimedOutStream wraps: "plain", "secure" or "null"
          net,          \* the socket: "none", "up" or "cut"
          hung,         \* the server has gone silent on this connection
          out, in,      \* commands and answers under way
          srv,          \* the server's session
          delivered,    \* the messages the server has taken responsibility for
          job,          \* the client's coroutines
          result,       \* what the sender of each message was told
          body,         \* the kind of body of each message, once it is sent
          ready,        \* the send button is enabled, or the prompt is shown
          overlapped,   \* history: two operations have shared this connection
          strayed,      \* history: an answer on this connection has been out of its place
          alive,        \* the process has not crashed
          ops, late, faults

client  == <<conn, inner>>
link    == <<net, hung, out, in, srv, delivered>>
user    == <<result, body, ready, overlapped, ops>>
vars    == <<driver, mode, client, link, job, user, alive, late, strayed, faults>>

Msgs  == 1..MaxSends
Slots == 1..2
---------------------------------------------------------------------------
(* The scripts of the operations.                                          *)

Plain(v) == [verb |-> v, rcpt |-> "none"]
Local    == {"close", "establish", "upgrade"}
Commands == {"EHLO", "EHLO2", "STARTTLS", "AUTH", "LOGIN", "USER", "PASS", "MAIL", "RCPT", "DATA", "DOT",
             "NOOP", "HELP", "VRFY", "RSET", "QUIT"}
Simple   == {"NOOP", "HELP", "VRFY", "RSET"}

\* The built message names every recipient of To, Cc and Bcc, and has one.
Envelope == SetToSeq(Recipients)

\* asyncSendMail: the envelope with every recipient, the body and its end.
SendMail == <<Plain("MAIL")>> \o [i \in DOMAIN Envelope |-> [verb |-> "RCPT", rcpt |-> Envelope[i]]]
            \o <<Plain("DATA"), Plain("text"), Plain("DOT")>>

\* asyncConnect up to the answer to EHLO; port 465 starts in TLS.
Connect == <<Plain("establish")>> \o (IF mode = "SSL_TLS" THEN <<Plain("upgrade")>> ELSE <<>>)
           \o <<Plain("greeting"), Plain("EHLO")>>

\* The capability lines of the answer to EHLO.
OffersTls(r) == r.tls

\* asyncConnect, the STARTTLS branch: only where the server offers it; without
\* the offer the session goes on in plain text.
Upgrade(r) == IF mode = "STARTTLS" /\ OffersTls(r)
              THEN <<Plain("STARTTLS"), Plain("upgrade"), Plain("EHLO2")>> ELSE <<>>

AuthLogin == <<Plain("LOGIN"), Plain("USER"), Plain("PASS")>>

\* asyncQuit: the connection is closed after an accepted QUIT only.
Quit == <<Plain("QUIT"), Plain("close")>>

\* onSendButtonClicked: a fresh session for every message.
DesktopSend == <<Plain("close")>> \o Connect \o <<Plain("AUTH")>> \o SendMail

\* The command each command line of the client runs.
CliScript(op) == CASE op = "connect" -> Connect
                   [] op = "send"    -> SendMail
                   [] op = "auth"    -> <<Plain("AUTH")>>
                   [] op = "login"   -> AuthLogin
                   [] op = "quit"    -> Quit
                   [] op \in Simple  -> <<Plain(op)>>
---------------------------------------------------------------------------
(* Answers.                                                                *)

Answer(v, code, n, tls) == [verb |-> v, code |-> code, lines |-> n, tls |-> tls]

\* The class of answer a step asks for: DATA and the first two steps of AUTH
\* LOGIN want 3xx, everything else 2xx.
Wanted(v) == IF v \in {"DATA", "LOGIN", "USER"} THEN "3xx" ELSE "2xx"

\* response::parse gives a code for well formed lines only.
Parsed(r) == r.code # "garbled"

\* readResponse counts a line before it is read and refuses an answer whose
\* last line is the last one allowed.
WithinLimit(r) == r.lines < MaxLines

\* The lines readResponse has not read stay in the stream.
Unread(r) == IF r.lines > MaxLines THEN <<[r EXCEPT !.lines = @ - MaxLines]>> ELSE <<>>

\* Mutants: any code will do; a refused MAIL is passed over.
AcceptedAnyCode(v, r)    == WithinLimit(r) /\ Parsed(r)
AcceptedRefusedMail(v, r) == WithinLimit(r) /\ Parsed(r) /\ (v = "MAIL" \/ r.code = Wanted(v))

Accepted(v, r) == WithinLimit(r) /\ Parsed(r) /\ r.code = Wanted(v)
---------------------------------------------------------------------------
Idle       == [op |-> "none", todo |-> <<>>, at |-> "step", msg |-> 0, stale |-> FALSE, waited |-> TRUE]
Fresh      == [phase |-> "command", from |-> 0, rcpts |-> {}, bodies |-> {}, junk |-> FALSE, whole |-> TRUE]

Init ==
  /\ driver \in Drivers /\ mode \in Modes
  /\ conn = "Disconnected" /\ inner = "plain"
  /\ net = "none" /\ hung = FALSE /\ out = <<>> /\ in = <<>> /\ srv = Fresh /\ delivered = {}
  /\ job = [s \in Slots |-> Idle]
  /\ result = [m \in Msgs |-> "none"] /\ body = [m \in Msgs |-> "none"]
  /\ ready = TRUE /\ overlapped = FALSE /\ strayed = FALSE /\ alive = TRUE
  /\ ops = 0 /\ late = 0 /\ faults = 0

Fault(f)    == f \in Faults /\ faults < MaxFaults /\ faults' = faults + 1
Running     == {s \in Slots : job[s].op # "none"}
Now(s)      == Head(job[s].todo)
AtStep(s,v) == alive /\ s \in Running /\ job[s].at = "step" /\ Now(s).verb = v
Waiting(s)  == alive /\ s \in Running /\ job[s].at = "reply"

\* A null stream is used: the process ends.
Crash == /\ alive' = FALSE
         /\ UNCHANGED <<driver, mode, client, link, job, user, late, strayed, faults>>

\* The coroutine ends.  Its last call enables the window again, or sets the
\* promise the handler waits on; when the handler has left, the promise is gone.
Finish(jobs, s, how) ==
  /\ job' = [jobs EXCEPT ![s] = Idle]
  /\ result' = IF job[s].msg = 0 THEN result ELSE [result EXCEPT ![job[s].msg] = how]
  /\ ready' = (ready \/ job[s].waited)
  /\ alive' \in IF job[s].waited THEN {TRUE} ELSE BOOLEAN

Fail(s) == Finish(job, s, "failed")

\* Mutant: the coroutine returns without telling anyone.
ProceedSilently(jobs, s, todo) == /\ job' = [jobs EXCEPT ![s].todo = todo, ![s].at = "step"]
                                  /\ UNCHANGED <<result, ready, alive>>

\* What the success of an operation on this connection is worth.
Trust == IF overlapped THEN "shared" ELSE IF strayed THEN "strayed" ELSE "ok"

\* The await of s has succeeded and todo is left.
Proceed(jobs, s, todo) ==
  IF todo = <<>> THEN Finish(jobs, s, Trust)
  ELSE /\ job' = [jobs EXCEPT ![s].todo = todo, ![s].at = "step"]
       /\ UNCHANGED <<result, ready, alive>>

Rest(s) == Tail(job[s].todo)

\* Replacing stream_ destroys the stream another coroutine is suspended in.
Rebuilt(s) == [t \in Slots |-> IF t # s /\ job[t].at = "reply" THEN [job[t] EXCEPT !.stale = TRUE] ELSE job[t]]
---------------------------------------------------------------------------
(* The user.                                                               *)

Begin(s, op, script, at, m) ==
  /\ alive /\ ready /\ ops < MaxOps /\ ~overlapped
  /\ s \notin Running /\ \A t \in Slots : t < s => t \in Running
  /\ job' = [job EXCEPT ![s] = [op |-> op, todo |-> script, at |-> at, msg |-> m, stale |-> FALSE, waited |-> TRUE]]
  /\ overlapped' = (overlapped \/ Running # {})
  /\ result' = IF m = 0 THEN result ELSE [result EXCEPT ![m] = "running"]
  /\ body' \in IF m = 0 THEN {body} ELSE {[body EXCEPT ![m] = b] : b \in Bodies}
  /\ ready' = FALSE /\ ops' = ops + 1
  /\ UNCHANGED <<driver, mode, client, link, alive, late, strayed, faults>>

NextMsg == Cardinality({m \in Msgs : result[m] # "none"}) + 1

\* The compose form is sent: the window is disabled and a token asked for.
ClickSend == /\ driver = "desktop" /\ NextMsg \in Msgs
             /\ \E s \in Slots : Begin(s, "send", DesktopSend, "token", NextMsg)

\* ensureValidAccessToken calls back.
TokenArrives(s) ==
  /\ alive /\ s \in Running /\ job[s].at = "token"
  /\ \/ /\ job' = [job EXCEPT ![s].at = "step"]
        /\ UNCHANGED <<result, ready, alive, faults>>
     \/ Fault("token") /\ Fail(s)
  /\ UNCHANGED <<driver, mode, client, link, body, overlapped, ops, late, strayed>>

\* A page of the mailbox arrives while a message is sent: every button is
\* enabled again.
RefreshEnables == /\ driver = "desktop" /\ alive /\ ~ready /\ Fault("refresh")
                  /\ ready' = TRUE
                  /\ UNCHANGED <<driver, mode, client, link, job, result, body, overlapped, ops, alive, late, strayed>>

\* A command line; "send" without a connection is a state the user can be in.
Type == /\ driver = "cli"
        /\ \E s \in Slots :
             \/ \E op \in CliOps \ {"send"} : Begin(s, op, CliScript(op), "step", 0)
             \/ "send" \in CliOps /\ NextMsg \in Msgs /\ Begin(s, "send", CliScript("send"), "step", NextMsg)

\* waitForOperation gives up after 30 seconds; the coroutine goes on.
HandlerGivesUp == /\ driver = "cli" /\ alive /\ ~ready /\ Fault("impatient")
                  /\ \E s \in Running : /\ job[s].at # "step" /\ job[s].waited
                                        /\ job' = [job EXCEPT ![s].waited = FALSE]
                  /\ ready' = TRUE
                  /\ UNCHANGED <<driver, mode, client, link, result, body, overlapped, ops, alive, late, strayed>>
---------------------------------------------------------------------------
(* The base client's awaits.                                               *)

\* closeConnection: the wrapped stream is disconnected, then replaced.
CloseConnection(s) ==
  /\ AtStep(s, "close")
  /\ IF conn # "Disconnected" /\ inner = "null" THEN Crash
     ELSE /\ conn' = "Disconnected" /\ inner' = "plain" /\ net' = "none" /\ hung' = FALSE
          /\ out' = <<>> /\ in' = <<>>
          /\ Proceed(Rebuilt(s), s, Rest(s))
          /\ UNCHANGED <<driver, mode, srv, delivered, body, overlapped, ops, late, strayed, faults>>

\* establishConnection refuses a connected client.
EstablishRefused(s) ==
  /\ AtStep(s, "establish") /\ conn # "Disconnected"
  /\ Fail(s)
  /\ UNCHANGED <<driver, mode, client, link, body, overlapped, ops, late, strayed, faults>>

\* establishConnection finds an endpoint; the server greets.
Establish(s) ==
  /\ AtStep(s, "establish") /\ conn = "Disconnected"
  /\ conn' = "TcpConnected" /\ net' = "up" /\ hung' = FALSE /\ srv' = Fresh /\ out' = <<>>
  /\ \E code \in {"2xx", "5xx"} : in' = <<Answer("greeting", code, 1, FALSE)>>
  /\ overlapped' = (Running # {s}) /\ strayed' = FALSE
  /\ Proceed(job, s, Rest(s))
  /\ UNCHANGED <<driver, mode, inner, delivered, body, ops, late, faults>>

\* The name does not resolve or every endpoint fails: a fresh stream is left.
EstablishFails(s) ==
  /\ AtStep(s, "establish") /\ conn = "Disconnected" /\ Fault("connect")
  /\ inner' = "plain"
  /\ Fail(s)
  /\ UNCHANGED <<driver, mode, conn, link, body, overlapped, ops, late, strayed>>

\* upgradeToTLS takes the plain stream out of its wrapper before the handshake.
UpgradeToTLS(s) ==
  /\ AtStep(s, "upgrade")
  /\ inner' = "null"
  /\ IF inner = "plain" THEN job' = [job EXCEPT ![s].at = "handshake"] /\ UNCHANGED <<result, ready, alive>>
                        ELSE Fail(s)
  /\ UNCHANGED <<driver, mode, conn, link, body, overlapped, ops, late, strayed, faults>>

\* The handshake is awaited without a timer; when it fails nothing is put back.
HandshakeEnds(s) ==
  /\ alive /\ s \in Running /\ job[s].at = "handshake"
  /\ \/ /\ net = "up" /\ ~hung
        /\ inner' = "secure" /\ conn' = "TlsActive"
        /\ Proceed(Rebuilt(s), s, Rest(s)) /\ UNCHANGED faults
     \/ Fault("tls") /\ ~hung /\ Fail(s) /\ UNCHANGED client
     \/ net = "cut" /\ Fail(s) /\ UNCHANGED <<client, faults>>
  /\ UNCHANGED <<driver, mode, link, body, overlapped, ops, late, strayed>>

\* writeCommand; the body is written without waiting for an answer.
WriteCommand(s) ==
  /\ \E v \in Commands \cup {"text"} : AtStep(s, v)
  /\ IF inner = "null" THEN Crash
     ELSE /\ \/ /\ net = "up"
                /\ out' = Append(out, [verb |-> Now(s).verb, rcpt |-> Now(s).rcpt, msg |-> job[s].msg])
                /\ IF Now(s).verb = "text" THEN Proceed(job, s, Rest(s))
                   ELSE job' = [job EXCEPT ![s].at = "reply"] /\ UNCHANGED <<result, ready, alive>>
             \/ net # "up" /\ Fail(s) /\ UNCHANGED out
          /\ UNCHANGED <<driver, mode, client, net, hung, in, srv, delivered, body, overlapped, ops, late, strayed, faults>>

ReadGreeting(s) ==
  /\ AtStep(s, "greeting")
  /\ IF inner = "null" THEN Crash
     ELSE /\ job' = [job EXCEPT ![s].at = "reply"]
          /\ UNCHANGED <<driver, mode, client, link, user, alive, late, strayed, faults>>

\* readResponse returns the next answer, whichever command it answers.
ReadResponse(s) ==
  /\ Waiting(s) /\ ~job[s].stale /\ in # <<>>
  /\ LET r == Head(in)  v == Now(s).verb  good == Accepted(v, r) IN
     /\ in' = (IF WithinLimit(r) THEN <<>> ELSE Unread(r)) \o Tail(in)
     /\ strayed' = (strayed \/ r.lines > MaxLines)
     /\ IF good THEN Proceed(job, s, (IF v = "EHLO" THEN Upgrade(r) ELSE <<>>) \o Rest(s)) ELSE Fail(s)
  /\ UNCHANGED <<driver, mode, client, net, hung, out, srv, delivered, body, overlapped, ops, late, faults>>

\* Mutants: the step counts as done when its answer is late; no timer runs.
TimeoutIgnored(s) ==
  /\ Waiting(s) /\ ~job[s].stale /\ in = <<>> /\ net = "up" /\ late < MaxLate /\ late' = late + 1
  /\ Proceed(job, s, Rest(s))
  /\ UNCHANGED <<driver, mode, client, link, body, overlapped, ops, strayed, faults>>
NoTimer(s) == FALSE

\* The timer wins: the operation fails, the connection stays open and the
\* answer is still to come, unless the server is silent for good or has taken
\* the command for a line of a body.
ReadTimesOut(s) ==
  /\ Waiting(s) /\ ~job[s].stale /\ in = <<>> /\ net = "up"
  /\ \/ (hung \/ out = <<>>) /\ UNCHANGED <<late, strayed>>
     \/ ~hung /\ out # <<>> /\ late < MaxLate /\ late' = late + 1 /\ strayed' = TRUE
  /\ Fail(s)
  /\ UNCHANGED <<driver, mode, client, link, body, overlapped, ops, faults>>

ReadFails(s) ==
  /\ Waiting(s) /\ ~job[s].stale /\ in = <<>> /\ net # "up"
  /\ Fail(s)
  /\ UNCHANGED <<driver, mode, client, link, body, overlapped, ops, late, strayed, faults>>

\* The read of a destroyed stream is cancelled and resumes on freed memory: it
\* returns operation_aborted or the process ends.
StaleReadResumes(s) ==
  /\ Waiting(s) /\ job[s].stale
  /\ \/ Fail(s) /\ UNCHANGED <<driver, mode, client, link, body, overlapped, ops, late, strayed, faults>>
     \/ Crash
---------------------------------------------------------------------------
(* The server and the network.                                             *)

\* The transaction the server closes when it has the whole body.
Mail == [from |-> srv.from, rcpts |-> srv.rcpts, bodies |-> srv.bodies,
         junk |-> srv.junk, whole |-> srv.whole, trust |-> Trust]

Reply(v, code, n, tls) == in' = Append(in, Answer(v, code, n, tls))

LineCounts(v) == IF v \in {"EHLO", "HELP"} /\ "lines" \in Faults THEN 1..MaxLines + 1 ELSE {1}
Bad == {"5xx"} \cup (IF "garbled" \in Faults THEN {"garbled"} ELSE {})

\* buildMimeMessage writes the text as it is, a line that is a lone dot too.
LoneDot(m) == body[m] = "dotted"

\* addAttachment leaves out a file that cannot be opened.
Attached(m) == body[m] # "lostfile"

\* A line in the body phase; a lone dot ends the body, and what follows it is
\* answered though nobody waits for it.
EndsEarly(c) == srv.phase = "data" /\ c.verb = "text" /\ LoneDot(c.msg)
TakeData(c) ==
  CASE c.verb = "text" /\ LoneDot(c.msg) ->
         /\ srv' = Fresh
         /\ delivered' = delivered \cup {[Mail EXCEPT !.bodies = @ \cup {c.msg}, !.whole = FALSE]}
         /\ in' = in \o <<Answer("DOT", "2xx", 1, FALSE), Answer("text", "5xx", 1, FALSE)>>
    [] c.verb = "text" /\ ~LoneDot(c.msg) ->
         /\ srv' = [srv EXCEPT !.bodies = @ \cup {c.msg}, !.whole = @ /\ Attached(c.msg)]
         /\ UNCHANGED <<delivered, in>>
    [] c.verb = "DOT" ->
         /\ srv' = Fresh
         /\ \/ delivered' = delivered \cup {Mail} /\ Reply("DOT", "2xx", 1, FALSE)
            \/ \E code \in Bad : UNCHANGED delivered /\ Reply("DOT", code, 1, FALSE)
    [] OTHER -> srv' = [srv EXCEPT !.junk = TRUE] /\ UNCHANGED <<delivered, in>>

\* The two continuation lines of AUTH LOGIN; anything else ends the dialogue.
TakeLogin(c) ==
  /\ UNCHANGED delivered
  /\ \/ c.verb = "USER" /\ UNCHANGED srv /\ Reply("USER", "3xx", 1, FALSE)
     \/ /\ srv' = [srv EXCEPT !.phase = "command"]
        /\ \/ c.verb = "PASS" /\ Reply("PASS", "2xx", 1, FALSE)
           \/ \E code \in Bad : Reply(c.verb, code, 1, FALSE)

\* A command the server accepts, by the order RFC 5321 asks for.
TakeCommand(c) ==
  \/ /\ c.verb \in {"EHLO", "EHLO2", "STARTTLS", "AUTH", "RSET"} \cup Simple
     /\ \E n \in LineCounts(c.verb), tls \in IF c.verb = "EHLO" THEN BOOLEAN ELSE {FALSE} :
          Reply(c.verb, "2xx", n, tls)
     /\ srv' = IF c.verb = "RSET" THEN Fresh ELSE srv
  \/ c.verb = "LOGIN" /\ srv' = [srv EXCEPT !.phase = "login"] /\ Reply("LOGIN", "3xx", 1, FALSE)
  \/ c.verb = "MAIL" /\ srv.from = 0 /\ srv' = [srv EXCEPT !.from = c.msg] /\ Reply("MAIL", "2xx", 1, FALSE)
  \/ /\ c.verb = "RCPT" /\ srv.from # 0
     /\ srv' = [srv EXCEPT !.rcpts = @ \cup {<<c.msg, c.rcpt>>}] /\ Reply("RCPT", "2xx", 1, FALSE)
  \/ c.verb = "DATA" /\ srv.rcpts # {} /\ srv' = [srv EXCEPT !.phase = "data"] /\ Reply("DATA", "3xx", 1, FALSE)
  \/ \E code \in Bad : UNCHANGED srv /\ Reply(c.verb, code, 1, FALSE)

Serve ==
  /\ net = "up" /\ ~hung /\ out # <<>>
  /\ out' = Tail(out)
  /\ LET c == Head(out) IN
     \/ srv.phase = "data" /\ TakeData(c) /\ UNCHANGED net
     \/ srv.phase = "login" /\ TakeLogin(c) /\ UNCHANGED net
     \/ srv.phase = "command" /\ c.verb # "QUIT" /\ TakeCommand(c) /\ UNCHANGED <<delivered, net>>
     \/ srv.phase = "command" /\ c.verb = "QUIT" /\ Reply("QUIT", "2xx", 1, FALSE) /\ net' = "cut"
        /\ UNCHANGED <<srv, delivered>>
  /\ strayed' = (strayed \/ EndsEarly(Head(out)))
  /\ UNCHANGED <<driver, mode, client, hung, job, user, alive, late, faults>>

\* The connection breaks; answers already received may still be read.
Cut == /\ net = "up" /\ Fault("cut")
       /\ net' = "cut" /\ out' = <<>> /\ in' \in {in, <<>>}
       /\ UNCHANGED <<driver, mode, client, hung, srv, delivered, job, user, alive, late, strayed>>

\* The server stops answering.  During a handshake nothing ends the wait.
Hang == /\ net = "up" /\ ~hung /\ Fault("hang")
        /\ "silent_tls" \notin Faults =>
             \A s \in Running : job[s].at = "reply" /\ Now(s).verb # "STARTTLS"
        /\ hung' = TRUE
        /\ UNCHANGED <<driver, mode, client, net, out, in, srv, delivered, job, user, alive, late, strayed>>
---------------------------------------------------------------------------
JobStep(s) == \/ TokenArrives(s) \/ CloseConnection(s) \/ EstablishRefused(s) \/ Establish(s) \/ EstablishFails(s)
              \/ UpgradeToTLS(s) \/ HandshakeEnds(s) \/ WriteCommand(s) \/ ReadGreeting(s)
              \/ ReadResponse(s) \/ ReadTimesOut(s) \/ ReadFails(s) \/ StaleReadResumes(s)

Next == ClickSend \/ Type \/ RefreshEnables \/ HandlerGivesUp \/ (\E s \in Slots : JobStep(s)) \/ Serve \/ Cut \/ Hang

\* The event loop runs what is ready and fires the timers; the server answers
\* unless it hangs.  The user and the faults have no fairness.
Spec == Init /\ [][Next]_vars /\ (\A s \in Slots : WF_vars(JobStep(s))) /\ WF_vars(Serve)
---------------------------------------------------------------------------
(* Properties.                                                             *)

\* Every variable has its type: the state kept by the client, the stream and
\* the drivers stays in the ranges their declarations give them.
TypeOK ==
  /\ driver \in Drivers /\ mode \in Modes
  /\ conn \in {"Disconnected", "TcpConnected", "TlsActive"} /\ inner \in {"plain", "secure", "null"}
  /\ net \in {"none", "up", "cut"} /\ {hung, ready, overlapped, strayed, alive} \subseteq BOOLEAN
  /\ \A s \in Slots : /\ job[s].at \in {"token", "step", "reply", "handshake"}
                      /\ job[s].msg \in 0..MaxSends
                      /\ {job[s].stale, job[s].waited} \subseteq BOOLEAN
                      /\ (job[s].op = "none") = (job[s].todo = <<>>)
  /\ \A i \in DOMAIN in : in[i].code \in {"2xx", "3xx", "5xx", "garbled"}
  /\ \A i \in DOMAIN out : out[i].verb \in Commands \cup {"text"}
  /\ srv.rcpts \subseteq Msgs \X Recipients /\ srv.bodies \subseteq Msgs
  /\ result \in [Msgs -> {"none", "running", "ok", "shared", "strayed", "failed"}] /\ body \in [Msgs -> Bodies \cup {"none"}]
  /\ ops \in 0..MaxOps /\ late \in 0..MaxLate /\ faults \in 0..MaxFaults

\* What asyncSendMail's success stands for: the server has taken the message,
\* whole, for each of its recipients and for nobody else.
Delivered(m) == \E d \in delivered : /\ d.from = m /\ d.rcpts = {m} \X Recipients
                                     /\ d.bodies = {m} /\ ~d.junk /\ d.whole

\* onSendButtonClicked, asyncSendMail: a sender who is told that the message was
\* sent can rely on it, whatever was refused or lost before.  The window, which
\* opens a session for every message, keeps this when answers came late or were
\* too long as well; the command line does so only on a connection where every
\* answer has come in its place.  It is not promised where two operations
\* shared the connection, for a body with a lone dot, or with a lost attachment.
Reported(m) == result[m] \in {"ok", "strayed"}
Promised(m) == /\ result[m] = "ok" \/ (result[m] = "strayed" /\ driver = "desktop" /\ ~LoneDot(m))
               /\ Attached(m)
AcceptedMeansDelivered == \A m \in Msgs : Promised(m) => Delivered(m)

\* handleSend: "Mail sent successfully": the same without any exception but
\* the shared connection.
ReportedMeansDelivered == \A m \in Msgs : Reported(m) => Delivered(m)

\* What a failed send has left behind on the connection never ends up in
\* another message: envelope and body of a delivered message are of one message.
\* On the command line's kept connection this needs every answer in its place.
NothingMixed == \A d \in delivered : \/ d.rcpts \subseteq {d.from} \X Recipients /\ d.bodies = {d.from} /\ ~d.junk
                                     \/ d.trust = "shared" \/ (d.trust = "strayed" /\ driver = "cli")

\* In the window's flow no answer is ever left over for a later command: while
\* a read waits, at most one answer is under way, that of the command sent.  A
\* body with a lone dot is excepted, up to the end of its own session.
InStep ==
  driver = "desktop" /\ ~overlapped =>
    \A s \in Running : job[s].at = "reply" /\ ~job[s].stale /\ ~LoneDot(job[s].msg) =>
      Len(in) + Cardinality({i \in DOMAIN out : out[i].verb # "text"}) <= 1

\* A handshake waits for a server that says nothing.
SilentHandshake == hung /\ \E s \in Running : job[s].at = "handshake"

\* Every send ends with an answer to its sender; only a crash or a silent
\* handshake can keep it from ending.
Sending == \E m \in Msgs : result[m] = "running"
SendEnds == Sending ~> (~Sending \/ ~alive \/ SilentHandshake)

\* closeConnection is safe in every state the client reaches, after a failed
\* handshake too: no null stream is ever used.
ClosesCleanly == alive

\* asyncQuit: "Send QUIT command and close connection".
QuitCloses == [][\A s \in Slots : job[s].op = "quit" /\ job'[s].op = "none" => conn' = "Disconnected"]_vars

\* The timeout governs the handshake too: an upgrade ends one way or the other.
HandshakeEndsInTime == \A s \in Slots : (job[s].at = "handshake") ~> (job[s].at # "handshake" \/ ~alive)
=============================================================================
