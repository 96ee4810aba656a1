----------------------------- MODULE ImapClient -----------------------------
(***************************************************************************)
(* The IMAP client on the base protocol client, the command line program   *)
(* that drives it and the message cache that program keeps (SyncCache).    *)
(* The server and the other clients of the mailboxes are external.  An     *)
(* operation is a job with the steps it has left, each one await.  A line  *)
(* of an answer is an item; what a message holds is its UID, its MODSEQ    *)
(* and one flag.  Two operations at a time are the subject of SmtpClient   *)
(* and are left out here.                                                  *)
(***************************************************************************)
EXTENDS SyncCache

CONSTANTS Mailboxes,    \* the names of the mailboxes
          Home,         \* the mailbox used before the behaviour starts
          Ports,        \* the ports connected to: a subset of {143, 993}
          Starts,       \* where a behaviour starts: a subset of {"fresh", "selected", "closed"}
          CliOps,       \* what is typed at the prompt: a subset of CliCommands
          UidSets,      \* the UID sets typed; the empty one stands for "1:*"
          FlagSets,     \* what other clients set the flag to: a subset of BOOLEAN
          Offers,       \* the capabilities servers offer, subsets of {"STARTTLS", "QRESYNC"}
          DoneLines,    \* the limit of lines of the answer to DONE (10 in the code)
          MaxUid,       \* bound: the largest UID, at least 3
          Faults,       \* the faults that may happen: a subset of FaultKinds
          MaxOps,       \* bound: operations started
          MaxChanges,   \* bound: changes by other clients
          MaxFaults     \* bound: faults

\* The operations of one command whose answer changes nothing here.
Listing   == {"list", "lsub"}
Searching == {"search", "fetch", "status", "copy"}
Naming    == {"create", "delete", "rename", "subscribe", "unsubscribe"}
Simple    == {"noop"} \cup Listing \cup Searching \cup Naming

Fetching == {"headers", "read", "store", "move", "uidexpunge"}
CliCommands == Simple \cup Fetching \cup
  {"connect", "capability", "login", "authenticate", "logout", "select", "examine", "close", "expunge", "append", "sync",
   "idle", "clear"}
FaultKinds == {"connect", "tls", "silent", "refuse", "partial", "cut", "late", "impatient", "crlf"}

ASSUME ImapAssumption ==
  /\ "none" \notin Mailboxes /\ Home \in Mailboxes /\ Ports \subseteq {143, 993} /\ Starts \subseteq {"fresh", "selected", "closed"}
  /\ CliOps \subseteq CliCommands /\ UidSets \subseteq SUBSET (1..MaxUid)
  /\ FlagSets \subseteq BOOLEAN
  /\ Offers \subseteq SUBSET {"STARTTLS", "QRESYNC"} /\ Faults \subseteq FaultKinds
  /\ {DoneLines, MaxUid, MaxOps, MaxChanges, MaxFaults} \subseteq Nat /\ MaxUid >= 3

VARIABLES conn,         \* connection_state_
          net,          \* the stream: "none", "up", "cut", "silent" in its handshake, or "null"
          out, in,      \* lines under way to the server and from it
          tag,          \* m_tag_generator's counter
          idle,         \* in_idle_ and idle_tag_
          job,          \* the coroutine of the operation under way
          cli,          \* current_mailbox and the rest of the program's own state
          cache,        \* the message cache, by mailbox
          srv,          \* the server's session
          box,          \* the mailboxes on the server
          gone,         \* history: messages the client was told are gone
          misled,       \* history: an operation was told another status than the server's
          lost,         \* history: an answer was left unread by the read it was for
          alive, ops, changes, faults

client  == <<conn, tag, idle>>
link    == <<net, out, in>>
state   == <<cli, cache>>
server  == <<srv, box>>
history == <<gone, misled, lost>>
vars    == <<client, link, job, state, server, history, alive, ops, changes, faults>>

Uids == 1..MaxUid
---------------------------------------------------------------------------
(* The operations.                                                         *)

\* asyncConnect: the port gives the mode; STARTTLS is required on 143.
Connect(port) == IF port = 993 THEN <<"establish", "greeting">>
                 ELSE <<"establish", "greeting", "CAPABILITY", "STARTTLS", "upgrade", "CAPABILITY2">>

\* handleLogin goes on with CAPABILITY, and ENABLE where it is offered.
Login == <<"LOGIN", "CAPABILITY3">>

\* handleIdle: DONE follows whatever ended the wait.
Idling == <<"IDLE", "wait", "DONE">>

\* Mutant: the wait's error ends the operation.
IdleGivesUp(s, ok) == IF ok THEN Tail(s) ELSE <<>>

AfterWait(s, ok) == Tail(s)

\* handleSelect: QRESYNC where it is enabled and the cache has something.
SelectVerb(m) == IF cli.qresync /\ IsValidForQresync(cache[m]) THEN "SELECT_QRESYNC" ELSE "SELECT"

\* handleSync: incremental when the cache knows a MODSEQ.
SyncVerb == IF cache[cli.box].modseq > 0 THEN "CHANGEDSINCE" ELSE "UIDFETCH"

\* The operations of one command.
Commands == [capability |-> "CAPABILITY2", authenticate |-> "XOAUTH2", examine |-> "EXAMINE", close |-> "CLOSE",
             expunge |-> "EXPUNGE", headers |-> "UIDFETCH", read |-> "BODY", store |-> "UIDSTORE", move |-> "UIDMOVE",
             uidexpunge |-> "UIDEXPUNGE"]
Command(op, m) == CASE op = "select"    -> SelectVerb(m)
                    [] op = "sync"      -> SyncVerb
                    [] op \in Simple    -> "SIMPLE"
                    [] OTHER            -> Commands[op]

Script(op, m, port) ==
  CASE op = "connect" -> Connect(port)
    [] op = "login"   -> Login
    [] op = "logout"  -> <<"LOGOUT", "closeConnection">>
    [] op = "append"  -> <<"APPEND", "literal">>
    [] op = "idle"    -> Idling
    [] OTHER          -> <<Command(op, m)>>

\* The operations that send text as it was typed.
Typed == (Simple \ {"noop"}) \cup {"login", "select", "examine", "append", "headers", "store", "move", "uidexpunge"}

\* The text fields each command is written from; serialize refuses the command
\* when a line end is in one of them.
SessionFields(v) == CASE v = "LOGIN" -> {"username", "password"} [] v = "XOAUTH2" -> {"user", "token"} [] OTHER -> {}
MailboxFields(v) == IF v \in {"SELECT", "EXAMINE", "SELECT_QRESYNC", "APPEND"} THEN {"mailbox"} ELSE {}
SetFields(v)     == CASE v \in {"UIDFETCH", "CHANGEDSINCE", "BODY"} -> {"set", "items"}
                      [] v = "UIDSTORE"   -> {"set", "action"}
                      [] v = "UIDMOVE"    -> {"set", "mailbox"}
                      [] v = "UIDEXPUNGE" -> {"set"}
                      [] OTHER            -> {}
QresyncFields(v) == IF v = "SELECT_QRESYNC" THEN {"known_uids"} ELSE {}
AppendFields(v)  == IF v = "APPEND" THEN {"flags", "date_time"} ELSE {}
\* FETCH, STORE, SEARCH and LIST; then CREATE, DELETE, RENAME, SUBSCRIBE, LSUB.
LookFields(v)    == IF v = "SIMPLE" THEN {"set", "items", "mailbox"} ELSE {}
NameFields(v)    == IF v = "SIMPLE" THEN {"mailbox"} ELSE {}

Fields(v) == SessionFields(v) \cup MailboxFields(v) \cup SetFields(v) \cup QresyncFields(v)
             \cup AppendFields(v)
             \cup LookFields(v) \cup NameFields(v)

SerializeRefuses(v, dirty) == dirty \in Fields(v)
---------------------------------------------------------------------------
NoJob     == [op |-> "none", todo |-> <<>>, at |-> "step", tag |-> 0, box |-> "none", uids |-> {}, opt |-> FALSE,
              dirty |-> "none", waited |-> TRUE]
NoSession == [auth |-> FALSE, box |-> "none", idle |-> 0, qresync |-> FALSE, sasl |-> FALSE, literal |-> "none",
              cont |-> 0, news |-> <<>>, offer |-> {}]
NoMailbox == [box |-> "none", validity |-> 0, modseq |-> 0, qresync |-> FALSE]
NewBox(v) == [validity |-> v, next |-> 1, modseq |-> 1, msgs |-> <<>>, gone |-> <<>>]

\* Three messages have come and the second has been removed.
Used == [NewBox(1) EXCEPT !.next = 4, !.modseq = 5, !.gone = [u \in {2} |-> 5],
                          !.msgs = [u \in {1, 3} |-> [mod |-> u + 1, seen |-> FALSE]]]

\* Either nothing has happened yet, or Home was selected and its headers were
\* fetched on a server that offers QRESYNC, and Home may have been closed since.
Init ==
  \E start \in Starts :
    LET fresh == start = "fresh"
        here  == IF start = "selected" THEN Home ELSE "none"
    IN
    /\ conn = IF fresh THEN "Disconnected" ELSE "Connected"
    /\ net = IF fresh THEN "none" ELSE "up"
    /\ out = <<>> /\ in = <<>> /\ tag = IF fresh THEN 0 ELSE IF start = "selected" THEN 5 ELSE 6
    /\ idle = [on |-> FALSE, tag |-> 0] /\ job = NoJob
    /\ box = [b \in Mailboxes |-> Used]
    /\ srv = IF fresh THEN NoSession
             ELSE [NoSession EXCEPT !.auth = TRUE, !.box = here, !.qresync = TRUE, !.offer = {"QRESYNC"}]
    /\ cli = IF start = "selected" THEN [box |-> Home, validity |-> 1, modseq |-> 5, qresync |-> TRUE]
             ELSE [NoMailbox EXCEPT !.qresync = ~fresh]
    /\ cache = [b \in Mailboxes |-> IF fresh \/ b # Home THEN NoState
                ELSE [validity |-> 1, modseq |-> 5, next |-> 4,
                      msgs |-> [u \in {1, 3} |-> Entry(box[b].msgs[u].mod, FALSE, TRUE, <<Home, 1>>)]]]
    /\ gone = {} /\ misled = FALSE /\ lost = FALSE
    /\ alive = TRUE /\ ops = 0 /\ changes = 0 /\ faults = 0

Fault(f)   == f \in Faults /\ faults < MaxFaults /\ faults' = faults + 1
Busy       == job.op # "none"
Now        == Head(job.todo)
At(where)  == alive /\ Busy /\ job.at = where

\* The coroutine sets the promise its handler waits on; when the handler has
\* left after 30 seconds the promise is gone.
Ended == /\ job' = NoJob
         /\ alive' \in IF job.waited THEN {TRUE} ELSE BOOLEAN

\* The await has succeeded and todo is left.
Goes(todo) == IF todo = <<>> THEN Ended
              ELSE job' = [job EXCEPT !.todo = todo, !.at = "step"] /\ UNCHANGED alive
---------------------------------------------------------------------------
(* The user.                                                               *)

\* Nothing is sent for these: no mailbox is selected, or the body is cached.
AnsweredLocally(op, uid) ==
  \/ op \in {"close", "expunge", "sync", "idle", "read"} /\ cli.box = "none"
  \/ op = "read" /\ HasBody(cache[cli.box], uid)

\* The prompt takes one command at a time; opt is what is asked of the flag.
Type(op) ==
  /\ alive /\ ~Busy /\ ops < MaxOps
  /\ \E m \in (IF op \in {"select", "examine", "append", "move"} THEN Mailboxes ELSE {"none"}),
        uids \in (IF op \in Fetching THEN UidSets ELSE {{}}),
        port \in (IF op = "connect" THEN Ports ELSE {993}),
        opt \in (IF op = "store" THEN BOOLEAN ELSE {FALSE}),
        dirty \in {"none"} \cup (IF "crlf" \in Faults /\ op \in Typed THEN {"mailbox", "set"} ELSE {}) :
       /\ op = "read" => Cardinality(uids) = 1
       /\ ~AnsweredLocally(op, IF uids = {} THEN 0 ELSE CHOOSE u \in uids : TRUE)
       /\ job' = [op |-> op, todo |-> Script(op, m, port), at |-> "step", tag |-> 0, box |-> m, uids |-> uids,
                  opt |-> opt, dirty |-> dirty, waited |-> TRUE]
  /\ ops' = ops + 1
  /\ UNCHANGED <<client, link, state, server, history, alive, changes, faults>>

\* clear-cache runs at the prompt.
ClearCache == /\ alive /\ ~Busy /\ ops < MaxOps /\ "clear" \in CliOps
              /\ cache' = [m \in Mailboxes |-> ClearAll(cache[m])] /\ ops' = ops + 1
              /\ UNCHANGED <<client, link, job, cli, server, history, alive, changes, faults>>

\* waitForOperation gives up after 30 seconds; the coroutine goes on.
HandlerGivesUp == /\ alive /\ Busy /\ (job.at \in {"reply", "handshake"} \/ Now = "wait")
                  /\ job.waited /\ Fault("impatient")
                  /\ job' = [job EXCEPT !.waited = FALSE]
                  /\ UNCHANGED <<client, link, state, server, history, alive, ops, changes>>
---------------------------------------------------------------------------
(* Writing.                                                                *)

Item(kind) == [kind |-> kind, tag |-> 0, ok |-> TRUE, slash |-> FALSE, uids |-> {}, data |-> <<>>]

\* upgradeToTLS takes the plain stream out of its wrapper: when the handshake
\* fails nothing is put back.  No timer runs: where the server says nothing, the
\* coroutine waits.
HandshakeFails ==
  \/ Fault("tls") /\ net' = "null" /\ Ended
  \/ Fault("silent") /\ net' = "silent" /\ job' = [job EXCEPT !.at = "handshake"] /\ UNCHANGED alive

\* On port 993 the handshake is a part of establishConnection.
Secure == job.todo = Connect(993)

\* establishConnection; the server greets.
Establish ==
  /\ At("step") /\ Now = "establish"
  /\ \/ conn # "Disconnected" /\ Ended /\ UNCHANGED <<client, link, srv, faults>>
     \/ conn = "Disconnected" /\ Fault("connect") /\ Ended /\ UNCHANGED <<client, link, srv>>
     \/ /\ conn = "Disconnected" /\ Secure
        /\ conn' = "Connected" /\ HandshakeFails /\ UNCHANGED <<tag, idle, out, in, srv>>
     \/ /\ conn = "Disconnected"
        /\ conn' = "Connected" /\ net' = "up" /\ out' = <<>>
        /\ \E ok \in BOOLEAN : /\ in' = <<[Item("greeting") EXCEPT !.ok = ok]>>
                             /\ IF ok THEN UNCHANGED faults ELSE Fault("refuse")
        /\ \E offer \in Offers : srv' = [NoSession EXCEPT !.offer = offer]
        /\ job' = [job EXCEPT !.todo = Tail(@), !.at = "reply"]
        /\ UNCHANGED <<tag, idle, alive>>
  /\ UNCHANGED <<state, box, history, ops, changes>>

\* upgradeToTLS after an accepted STARTTLS.
UpgradeToTLS ==
  /\ At("step") /\ Now = "upgrade"
  /\ \/ net = "up" /\ Goes(Tail(job.todo)) /\ UNCHANGED <<net, faults>>
     \/ net = "up" /\ HandshakeFails
     \/ net = "cut" /\ net' = "null" /\ Ended /\ UNCHANGED faults
  /\ UNCHANGED <<client, out, in, state, server, history, ops, changes>>

\* closeConnection after an accepted LOGOUT, when the program forgets its
\* mailbox and QRESYNC but keeps the cache.
CloseConnection ==
  /\ At("step") /\ Now = "closeConnection"
  /\ conn' = "Disconnected" /\ net' = "none" /\ out' = <<>> /\ in' = <<>>
  /\ cli' = [cli EXCEPT !.box = "none", !.qresync = FALSE]
  /\ Goes(Tail(job.todo))
  /\ UNCHANGED <<tag, idle, cache, server, history, ops, changes, faults>>

\* The line of a command: what the server needs to serve it.
Line(t) == [verb |-> Now, tag |-> t, box |-> job.box, uids |-> job.uids, opt |-> job.opt,
            since |-> IF Now = "SELECT_QRESYNC" THEN cache[job.box].modseq
                      ELSE IF Now = "CHANGEDSINCE" THEN cache[cli.box].modseq ELSE 0,
            validity |-> IF Now = "SELECT_QRESYNC" THEN cache[job.box].validity ELSE 0,
            known |-> IF Now = "SELECT_QRESYNC" THEN Covered(KnownUidRanges(cache[job.box])) ELSE {}]

\* DONE, the literal of APPEND and the empty line of XOAUTH2 carry no tag.
Untagged == {"DONE", "literal"}

\* Mutant: the tag of IDLE is not kept.
ForgetsTag(t) == idle

\* asyncIdleStart: idle_tag_ is that of the IDLE command being written.
IdleTag(t) == [idle EXCEPT !.tag = t]

\* sendCommandAndReadResponse, asyncIdleStart, asyncIdleDone: a tag is taken,
\* the command is serialized and written.  A refused command has used its tag;
\* a write on a null stream ends the process.
WriteCommand ==
  /\ At("step") /\ Now \notin {"establish", "upgrade", "closeConnection", "wait"}
  /\ LET t == IF Now \in Untagged THEN tag ELSE tag + 1
         refused == SerializeRefuses(Now, job.dirty)
     IN
     /\ tag' = t
     /\ \/ (refused \/ net \notin {"up", "null"}) /\ UNCHANGED out /\ Ended
        \/ ~refused /\ net = "null" /\ UNCHANGED <<out, job>> /\ alive' = FALSE
        \/ /\ ~refused /\ net = "up"
           /\ out' = Append(out, Line(IF Now \in Untagged THEN 0 ELSE t))
           /\ job' = [job EXCEPT !.at = "reply", !.tag = t] /\ UNCHANGED alive
     /\ idle' = CASE Now = "IDLE"                   -> IdleTag(t)
                  [] Now = "DONE" /\ net # "up"     -> [idle EXCEPT !.on = FALSE]
                  [] OTHER                          -> idle
  /\ UNCHANGED <<conn, net, in, state, server, history, ops, changes, faults>>
---------------------------------------------------------------------------
(* Reading.                                                                *)

\* The verbs whose answer ends at their own tagged line; the others read until
\* a "+" (IDLE, APPEND), any "*" line (wait) or line by line (XOAUTH2).
Awaited == IF Now \in {"IDLE", "APPEND"} THEN "plus" ELSE IF Now = "greeting" THEN "greeting" ELSE "tagged"
OwnTag  == IF Now = "DONE" THEN idle.tag ELSE job.tag

IsFinal(i) == in[i].kind = Awaited /\ (Awaited = "tagged" => in[i].tag = OwnTag)

\* Where the answer being read ends; 0 while its last line is under way.
Finals == {i \in DOMAIN in : IsFinal(i)}
Close  == IF Finals = {} THEN 0 ELSE Min(Finals)
Raw    == SubSeq(in, 1, Close)

\* Mutant: the status is not looked at.
ToldOk(raw) == TRUE

\* response::parse stops at the first tagged line, or where the tokenizer
\* cannot read a flag list; an answer without a tagged line counts as OK.
Told(raw) ==
  LET stops == {i \in DOMAIN raw : raw[i].kind = "tagged" \/ raw[i].slash}
  IN  IF stops = {} THEN TRUE
      ELSE raw[Min(stops)].slash \/ raw[Min(stops)].ok

\* Where the lines of a kind are.
Of(raw, kind) == {i \in DOMAIN raw : raw[i].kind = kind}

\* parseSelectResponse: the last line of each kind; zeros when there is none.
SelectResponse(raw) == LET lines == Of(raw, "selected")
                       IN  IF lines = {} THEN [validity |-> 0, next |-> 0, modseq |-> 0] ELSE raw[Max(lines)].data

\* asyncCapability: the first CAPABILITY line.
Capabilities(raw) == LET lines == Of(raw, "caps") IN IF lines = {} THEN {} ELSE raw[Min(lines)].data

\* asyncSelectQresync: every UID on a VANISHED line.
ExpungedUids(raw) == UNION {raw[i].uids : i \in Of(raw, "VANISHED")}

\* parseFetchResponse, line by line; a later line of a UID replaces an earlier.
Fetched(raw) == LET lines == Of(raw, "FETCH")
                IN  [u \in {raw[i].data.uid : i \in lines} |->
                       LET d == raw[Max({i \in lines : raw[i].data.uid = u})].data
                       IN  Entry(d.mod, d.seen, d.env, d.of)]

\* parseFetchResponsesAndUpdateCache.
Stored(c, raw) ==
  IF Of(raw, "FETCH") = {} THEN c
  ELSE AddMessages(IF c.validity = 0 /\ cli.validity > 0 THEN SetMailboxState(c, cli.validity, cli.modseq) ELSE c,
                   Fetched(raw))

\* parseBodyResponse: the first body in the answer.
Body(raw) == LET lines == {i \in Of(raw, "FETCH") : raw[i].data.body # <<>>}
             IN  IF lines = {} THEN <<"empty">> ELSE raw[Min(lines)].data.body

\* handleUidStore without a FETCH line: the flags named are taken for the
\* flags of the message, whatever was asked; "1:*" does not parse.
Flagged(c, uids) == UpdateFlags(c, uids, TRUE)

\* What the handler of an accepted command does to the program's mailbox.
NewCli(raw) ==
  LET resp == SelectResponse(raw) IN
  CASE Now \in {"SELECT", "SELECT_QRESYNC", "EXAMINE"} ->
         [cli EXCEPT !.box = job.box, !.validity = resp.validity, !.modseq = resp.modseq]
    [] Now = "CLOSE"  -> [cli EXCEPT !.box = "none", !.validity = 0, !.modseq = 0]
    [] Now = "ENABLE" -> [cli EXCEPT !.qresync = TRUE]
    [] OTHER          -> cli

Selected(c, raw) == LET resp == SelectResponse(raw)
                    IN  SetUidNext(SetMailboxState(c, resp.validity, resp.modseq), resp.next)

\* What it does to the mailbox the program is in, if any.
Filed(c, raw) ==
  CASE Now \in {"UIDFETCH", "CHANGEDSINCE"} -> Stored(c, raw)
    [] Now = "UIDSTORE" -> IF Of(raw, "FETCH") # {} THEN Stored(c, raw) ELSE Flagged(c, job.uids)
    [] Now = "BODY"     -> SetMessageBody(c, CHOOSE u \in job.uids : TRUE, Body(raw))
    [] Now = "UIDMOVE"  -> RemoveMessages(c, job.uids)
    [] OTHER            -> c

NewCache(raw) ==
  CASE Now = "SELECT"         -> [cache EXCEPT ![job.box] = Selected(@, raw)]
    [] Now = "SELECT_QRESYNC" -> [cache EXCEPT ![job.box] = Selected(RemoveMessages(@, ExpungedUids(raw)), raw)]
    [] OTHER -> IF cli.box = "none" THEN cache ELSE [cache EXCEPT ![cli.box] = Filed(@, raw)]

\* History: the messages of which raw says that they are gone.
Reported(raw, accepted) ==
  UNION {{<<IF accepted /\ Now = "SELECT_QRESYNC" /\ x.data[1] = job.box THEN "select" ELSE "notice", x.data[1], x.data[2], u>> :
           u \in x.uids} : x \in {raw[i] : i \in Of(raw, "VANISHED")}}
MovedAway == IF Now # "UIDMOVE" \/ cli.box = "none" THEN {}
             ELSE {<<"move", cli.box, cli.validity, u>> :
                     u \in DOMAIN cache[cli.box].msgs \cap (IF job.uids = {} THEN Uids ELSE job.uids)}

Validated == {"STARTTLS", "LOGIN", "LOGOUT", "SELECT", "SELECT_QRESYNC", "EXAMINE", "CLOSE", "EXPUNGE", "literal",
              "UIDFETCH", "CHANGEDSINCE", "BODY", "UIDSTORE", "UIDMOVE", "UIDEXPUNGE", "SIMPLE", "ENABLE"}

Consume(n) == in' = SubSeq(in, n + 1, Len(in))

\* parseAndValidate, then the handler; a refused command changes nothing here.
ReadAnswer ==
  /\ At("reply") /\ Now \in Validated /\ Close > 0
  /\ Consume(Close)
  /\ misled' = (misled \/ Told(Raw) # Last(Raw).ok)
  /\ IF Told(Raw)
     THEN /\ cli' = NewCli(Raw) /\ cache' = NewCache(Raw)
          /\ gone' = gone \cup Reported(Raw, TRUE) \cup MovedAway
          /\ Goes(Tail(job.todo))
     ELSE gone' = gone \cup Reported(Raw, FALSE) /\ Ended /\ UNCHANGED state
  /\ UNCHANGED <<client, net, out, server, lost, ops, changes, faults>>

\* The awaits that look for a line and not for a status: the greeting, the
\* continuations, and CAPABILITY, whose status nobody looks at.
ReadLine ==
  /\ At("reply") /\ Now \in {"greeting", "IDLE", "APPEND", "CAPABILITY", "CAPABILITY2", "CAPABILITY3"} /\ Close > 0
  /\ Consume(Close)
  /\ idle' = IF Now = "IDLE" THEN [idle EXCEPT !.on = TRUE] ELSE idle
  /\ CASE Now = "greeting" /\ ~Last(Raw).ok                         -> Ended
       [] Now = "CAPABILITY" /\ "STARTTLS" \notin Capabilities(Raw)  -> Ended
       [] Now = "CAPABILITY3" /\ "QRESYNC" \in Capabilities(Raw)     -> Goes(<<"ENABLE">>)
       [] OTHER                                                      -> Goes(Tail(job.todo))
  /\ gone' = gone \cup Reported(Raw, FALSE)
  /\ UNCHANGED <<conn, tag, net, out, state, server, misled, lost, ops, changes, faults>>

\* asyncAuthenticate reads line by line: a "+" is answered with an empty line,
\* any tagged line ends it.
ReadXOAuth2 ==
  /\ At("reply") /\ Now = "XOAUTH2" /\ in # <<>>
  /\ Consume(1)
  /\ CASE Head(in).kind = "tagged" -> Ended /\ UNCHANGED out
       [] Head(in).kind = "plus" /\ net = "up" ->
            out' = Append(out, [Line(0) EXCEPT !.verb = "ack"]) /\ UNCHANGED <<job, alive>>
       [] Head(in).kind = "plus" /\ net # "up" -> Ended /\ UNCHANGED out
       [] OTHER -> UNCHANGED <<out, job, alive>>
  /\ UNCHANGED <<client, net, state, server, history, ops, changes, faults>>

\* asyncIdleWait: the first untagged line, the end of the time, or an error.
IdleWait ==
  /\ At("step") /\ Now = "wait"
  /\ LET notices == {i \in DOMAIN in : in[i].kind \notin {"tagged", "plus"}} IN
     IF notices # {} THEN /\ Consume(Min(notices)) /\ Goes(AfterWait(job.todo, TRUE))
                          /\ gone' = gone \cup Reported(SubSeq(in, 1, Min(notices)), FALSE)
     ELSE in' = <<>> /\ Goes(AfterWait(job.todo, FALSE)) /\ UNCHANGED gone
  /\ UNCHANGED <<client, net, out, state, server, misled, lost, ops, changes, faults>>

\* asyncIdleDone: what comes before the tagged line is dropped; more lines than
\* the limit, or as many, are an error.
ReadDone ==
  /\ At("reply") /\ Now = "DONE"
  /\ Close > 0 \/ Len(in) >= DoneLines
  /\ idle' = [on |-> FALSE, tag |-> 0]
  /\ LET n == IF Close > 0 /\ Close < DoneLines THEN Close ELSE DoneLines IN
     /\ Consume(n)
     /\ lost' = (lost \/ Close = 0 \/ Close > n)
     /\ gone' = gone \cup Reported(SubSeq(in, 1, n), FALSE)
  /\ Ended
  /\ UNCHANGED <<conn, tag, net, out, state, server, misled, ops, changes, faults>>

\* Mutant: the stream has no timer.
EndsWithStream == net = "cut" /\ UNCHANGED <<lost, faults>>

\* Nothing more is under way, or it is late, or the connection is gone.
StreamGivesUp == \/ net = "up" /\ out = <<>> /\ UNCHANGED <<lost, faults>>
                 \/ net = "up" /\ out # <<>> /\ Fault("late") /\ lost' = TRUE
                 \/ net = "cut" /\ UNCHANGED <<lost, faults>>

\* The read ends without the line it waits for.
ReadFails ==
  /\ At("reply") /\ Close = 0 /\ (Now = "XOAUTH2" => in = <<>>)
  /\ StreamGivesUp
  /\ in' = <<>>
  /\ idle' = IF Now = "DONE" THEN [on |-> FALSE, tag |-> 0] ELSE idle
  /\ IF Now = "CAPABILITY2" THEN Goes(Tail(job.todo)) ELSE Ended
  /\ UNCHANGED <<conn, tag, net, out, state, server, gone, misled, ops, changes>>
---------------------------------------------------------------------------
(* The server.                                                             *)

Tagged(t, ok) == [Item("tagged") EXCEPT !.tag = t, !.ok = ok]
FetchLine(m, u, msg, env, body) ==
  [Item("FETCH") EXCEPT !.slash = msg.seen,
     !.data = [of |-> <<m, box[m].validity>>, uid |-> u, mod |-> msg.mod, seen |-> msg.seen, env |-> env, body |-> body]]
Vanished(m, uids) == [Item(IF srv.qresync THEN "VANISHED" ELSE "EXPUNGE") EXCEPT
                        !.uids = uids, !.data = <<m, box[m].validity>>]
CapsLine == [Item("caps") EXCEPT !.data = srv.offer]

\* The lines of an answer, one for each message of the domain.
Lines(line) == LET us == SetToSeq(DOMAIN line) IN [i \in DOMAIN us |-> line[us[i]]]

Put(b)          == [b EXCEPT !.modseq = @ + 1, !.next = @ + 1,
                             !.msgs = [u \in DOMAIN @ \cup {b.next} |->
                                         IF u = b.next THEN [mod |-> b.modseq + 1, seen |-> FALSE] ELSE @[u]]]
Mark(b, S, f)   == [b EXCEPT !.modseq = @ + 1,
                             !.msgs = [u \in DOMAIN @ |-> IF u \in S THEN [mod |-> b.modseq + 1, seen |-> f] ELSE @[u]]]
Drop(b, S)      == [b EXCEPT !.modseq = @ + 1, !.msgs = Restrict(@, DOMAIN @ \ S),
                             !.gone = [u \in DOMAIN @ \cup S |-> IF u \in S THEN b.modseq + 1 ELSE @[u]]]
Room(m)         == box[m].next <= MaxUid

Here       == box[srv.box]
Meant(c)   == IF c.uids = {} THEN DOMAIN Here.msgs ELSE c.uids \cap DOMAIN Here.msgs

\* The answer: what was pending, the lines of the command and its status.
Reply(c, lines, ok) == in' = in \o srv.news \o lines \o <<Tagged(c.tag, ok)>>
Quiet               == [srv EXCEPT !.news = <<>>]

InMailbox == {"UIDFETCH", "CHANGEDSINCE", "BODY", "UIDSTORE", "UIDMOVE", "EXPUNGE", "UIDEXPUNGE", "CLOSE"}
AnyTime   == {"CAPABILITY", "CAPABILITY2", "CAPABILITY3", "STARTTLS", "LOGIN", "XOAUTH2", "LOGOUT"}
Legal(c)  == c.verb \in AnyTime \/ (srv.auth /\ c.verb \notin {"DONE", "literal", "ack"} /\ (c.verb \in InMailbox => srv.box # "none"))

\* A command refused; SELECT leaves no mailbox selected.  Some of the lines
\* may have been sent already.
Refuse(c) ==
  /\ \/ ~Legal(c) /\ UNCHANGED faults
     \/ Legal(c) /\ Fault("refuse")
  /\ \E sent \in {{}} \cup (IF "partial" \in Faults /\ Legal(c) /\ c.verb = "UIDFETCH" THEN {Meant(c)} ELSE {}) :
       Reply(c, Lines([u \in sent |-> FetchLine(srv.box, u, Here.msgs[u], TRUE, <<>>)]), FALSE)
  /\ srv' = IF c.verb \in {"SELECT", "SELECT_QRESYNC", "EXAMINE"} THEN [Quiet EXCEPT !.box = "none"] ELSE Quiet
  /\ UNCHANGED <<net, box>>

\* XOAUTH2 with a credential the server does not take: a "+" comes first.
RefuseXOAuth2(c) ==
  /\ c.verb = "XOAUTH2" /\ Fault("refuse")
  /\ in' = Append(in, Item("plus")) /\ srv' = [srv EXCEPT !.sasl = TRUE, !.cont = c.tag]
  /\ UNCHANGED <<net, box>>

ServeSession(c) ==
  /\ \/ /\ c.verb = "APPEND"
        /\ in' = Append(in, Item("plus")) /\ srv' = [srv EXCEPT !.literal = c.box, !.cont = c.tag]
     \/ /\ c.verb = "IDLE"
        /\ in' = in \o <<Item("plus")>> \o srv.news /\ srv' = [Quiet EXCEPT !.idle = c.tag]
     \/ /\ c.verb \in AnyTime \cup {"ENABLE", "SIMPLE"}
        /\ Reply(c, IF c.verb \in {"CAPABILITY", "CAPABILITY2", "CAPABILITY3"} THEN <<CapsLine>> ELSE <<>>, TRUE)
        /\ srv' = [Quiet EXCEPT !.auth = @ \/ c.verb \in {"LOGIN", "XOAUTH2"}, !.qresync = @ \/ c.verb = "ENABLE"]
  /\ UNCHANGED <<box, faults>>
  /\ net' = IF c.verb = "LOGOUT" THEN "cut" ELSE net

\* SELECT and EXAMINE; with QRESYNC also what has changed since.
ServeSelect(c) ==
  /\ c.verb \in {"SELECT", "EXAMINE", "SELECT_QRESYNC"}
  /\ LET b == box[c.box]
         same == c.verb = "SELECT_QRESYNC" /\ c.validity = b.validity
         dead == IF same THEN {u \in c.known \cap DOMAIN b.gone : b.gone[u] > c.since} ELSE {}
         changed == IF same THEN {u \in DOMAIN b.msgs : b.msgs[u].mod > c.since} ELSE {}
     IN  Reply(c, <<[Item("selected") EXCEPT !.slash = TRUE,
                       !.data = [validity |-> b.validity, next |-> b.next, modseq |-> b.modseq]]>>
                  \o (IF dead = {} THEN <<>> ELSE <<Vanished(c.box, dead)>>)
                  \o Lines([u \in changed |-> FetchLine(c.box, u, b.msgs[u], FALSE, <<>>)]), TRUE)
  /\ srv' = [Quiet EXCEPT !.box = c.box]
  /\ UNCHANGED <<net, box, faults>>

\* FETCH; a body that is read marks the message.
ServeFetch(c) ==
  /\ c.verb \in {"UIDFETCH", "CHANGEDSINCE", "BODY"}
  /\ LET S == {u \in Meant(c) : Here.msgs[u].mod > c.since}
         b == IF c.verb = "BODY" /\ \E u \in S : ~Here.msgs[u].seen THEN Mark(Here, S, TRUE) ELSE Here
     IN  /\ box' = [box EXCEPT ![srv.box] = b]
         /\ Reply(c, Lines([u \in S |-> FetchLine(srv.box, u, b.msgs[u], c.verb # "BODY",
                      IF c.verb = "BODY" THEN <<srv.box, b.validity, u>> ELSE <<>>)]), TRUE)
  /\ srv' = Quiet /\ UNCHANGED <<net, faults>>

\* STORE; a message whose flags stay the same need not be answered for.
ServeStore(c) ==
  /\ c.verb = "UIDSTORE"
  /\ LET S == {u \in Meant(c) : Here.msgs[u].seen # c.opt}
         b == IF S = {} THEN Here ELSE Mark(Here, S, c.opt)
     IN  /\ box' = [box EXCEPT ![srv.box] = b]
         /\ Reply(c, Lines([u \in S |-> FetchLine(srv.box, u, b.msgs[u], FALSE, <<>>)]), TRUE)
  /\ srv' = Quiet /\ UNCHANGED <<net, faults>>

\* MOVE, EXPUNGE and CLOSE take messages out; CLOSE does not say which.  The
\* \Deleted flag is not modelled: all the messages meant carry it, or none.
ServeRemoval(c) ==
  /\ c.verb \in {"UIDMOVE", "EXPUNGE", "UIDEXPUNGE", "CLOSE"}
  /\ \E S \in IF c.verb = "UIDMOVE" THEN {Meant(c)} ELSE {{}, IF c.verb = "UIDEXPUNGE" THEN Meant(c)
                                                         ELSE DOMAIN Here.msgs} :
       /\ box' = IF S = {} THEN box ELSE [box EXCEPT ![srv.box] = Drop(@, S)]
       /\ Reply(c, IF S = {} \/ c.verb = "CLOSE" THEN <<>> ELSE <<Vanished(srv.box, S)>>, TRUE)
  /\ srv' = IF c.verb = "CLOSE" THEN [Quiet EXCEPT !.box = "none"] ELSE Quiet
  /\ UNCHANGED <<net, faults>>

\* The lines that continue a command: the literal, the empty line and DONE.
ServeContinuation(c) ==
  /\ UNCHANGED <<net, faults>>
  /\ \/ /\ srv.literal # "none"
        /\ in' = Append(in \o srv.news, Tagged(srv.cont, TRUE)) /\ srv' = [Quiet EXCEPT !.literal = "none"]
        /\ box' = IF c.verb = "literal" /\ Room(srv.literal) THEN [box EXCEPT ![srv.literal] = Put(@)] ELSE box
     \/ srv.sasl /\ in' = Append(in, Tagged(srv.cont, FALSE)) /\ srv' = [srv EXCEPT !.sasl = FALSE] /\ UNCHANGED box
     \/ /\ srv.idle # 0
        /\ in' = Append(in, Tagged(srv.idle, c.verb = "DONE")) /\ srv' = [srv EXCEPT !.idle = 0] /\ UNCHANGED box

InCommand == srv.literal = "none" /\ ~srv.sasl /\ srv.idle = 0

Serve ==
  /\ net = "up" /\ out # <<>>
  /\ out' = Tail(out)
  /\ LET c == Head(out) IN
     \/ ~InCommand /\ ServeContinuation(c)
     \/ InCommand /\ (Refuse(c) \/ RefuseXOAuth2(c))
     \/ InCommand /\ Legal(c) /\ (ServeSession(c) \/ ServeSelect(c) \/ ServeFetch(c) \/ ServeStore(c) \/ ServeRemoval(c))
  /\ UNCHANGED <<client, job, state, history, alive, ops, changes>>

Cut == /\ net = "up" /\ Fault("cut")
       /\ net' = "cut" /\ out' = <<>> /\ in' \in {in, <<>>}
       /\ UNCHANGED <<client, job, state, server, history, alive, ops, changes>>
---------------------------------------------------------------------------
(* Other clients of the same mailboxes.                                    *)

\* The session is told at once while it idles, else with its next answer.
Announce(m, b, line) ==
  /\ changes < MaxChanges /\ changes' = changes + 1
  /\ box' = [box EXCEPT ![m] = b]
  /\ IF net # "up" \/ srv.box # m THEN UNCHANGED <<in, srv>>
     ELSE IF srv.idle # 0 THEN in' = Append(in, line) /\ UNCHANGED srv
     ELSE srv' = [srv EXCEPT !.news = Append(@, line)] /\ UNCHANGED in
  /\ UNCHANGED <<client, net, out, job, state, history, alive, ops, faults>>

Deliver(m)   == Room(m) /\ Announce(m, Put(box[m]), Item("EXISTS"))
Withdraw(m, u) == u \in DOMAIN box[m].msgs /\ Announce(m, Drop(box[m], {u}), Vanished(m, {u}))
Flag(m, u, f) == /\ u \in DOMAIN box[m].msgs /\ box[m].msgs[u].seen # f
                 /\ LET b == Mark(box[m], {u}, f) IN
                    Announce(m, b, IF srv.qresync THEN FetchLine(m, u, b.msgs[u], FALSE, <<>>) ELSE Item("EXISTS"))

\* The mailbox is deleted and created again; not while it is selected.
Recreate(m)  == srv.box # m /\ Announce(m, [Put(NewBox(box[m].validity + 1)) EXCEPT !.modseq = 6], Item("EXISTS"))
---------------------------------------------------------------------------
JobStep == Establish \/ UpgradeToTLS \/ CloseConnection \/ WriteCommand \/ ReadAnswer \/ ReadLine \/ ReadXOAuth2 \/ IdleWait
           \/ ReadDone \/ ReadFails

Others == \E m \in Mailboxes : \/ Deliver(m) \/ Recreate(m)
                               \/ \E u \in Uids : Withdraw(m, u) \/ \E f \in FlagSets : Flag(m, u, f)

Next == (\E op \in CliOps \ {"clear"} : Type(op)) \/ ClearCache \/ HandlerGivesUp \/ JobStep \/ Serve \/ Cut \/ Others

\* The event loop runs what is ready and fires its timers, the server answers.
Spec == Init /\ [][Next]_vars /\ WF_vars(JobStep) /\ WF_vars(Serve)
---------------------------------------------------------------------------
(* Properties.                                                             *)

\* Every variable has its type; in particular a connection the program calls
\* idle has the tag of a command it has sent.
TypeOK ==
  /\ conn \in {"Disconnected", "Connected"} /\ net \in {"none", "up", "cut", "silent", "null"}
  /\ tag \in Nat /\ idle.on \in BOOLEAN /\ idle.tag \in 0..tag /\ (idle.on => idle.tag # 0)
  /\ job.op \in CliCommands \cup {"none"} /\ job.at \in {"step", "reply", "handshake"} /\ job.tag \in 0..tag
  /\ (job.op = "none") = (job.todo = <<>>)
  /\ cli.box \in Mailboxes \cup {"none"} /\ srv.box \in Mailboxes \cup {"none"}
  /\ srv.idle \in 0..tag
  /\ \A m \in Mailboxes : DOMAIN cache[m].msgs \subseteq Uids /\ DOMAIN box[m].msgs \subseteq Uids
  /\ {misled, lost, alive} \subseteq BOOLEAN
  /\ ops \in 0..MaxOps /\ changes \in 0..MaxChanges /\ faults \in 0..MaxFaults

\* "If UIDVALIDITY changes, the cache for this mailbox is invalidated": what is
\* cached of a mailbox came from it under the UIDVALIDITY the cache names, body
\* and all, as long as no answer was left over for a later command.
EntriesBelong ==
  ~lost => \A m \in Mailboxes, u \in Uids : u \in DOMAIN cache[m].msgs =>
             LET e == cache[m].msgs[u] IN
             /\ e.of = <<m, cache[m].validity>>
             /\ e.body \in {<<>>, <<"empty">>, <<m, cache[m].validity, u>>}

\* The ranges sent with SELECT (QRESYNC) name the cached UIDs and no other: a
\* UID left out would never be reported as vanished.  No two ranges touch.
KnownRangesExact ==
  \A m \in Mailboxes : LET r == KnownUidRanges(cache[m]) IN
    /\ Covered(r) = DOMAIN cache[m].msgs
    /\ \A i \in DOMAIN r : r[i][1] <= r[i][2] /\ (i > 1 => r[i - 1][2] + 1 < r[i][1])

\* An operation is told the status the server gave to its own command, as long
\* as no answer was left over for a later command.
ToldAsAnswered == misled => lost

\* "Ignores other commands' tagged lines so overlapping reads cannot close the
\* wrong operation": whatever was left over, the status is that of the command.
StatusIsItsOwn == ~misled

\* A message the server reported as vanished when the mailbox was selected, or
\* that was moved away, is not in the cache again.
VanishedStaysAway ==
  ~lost => \A g \in gone : g[1] \in {"select", "move"} /\ cache[g[2]].validity = g[3] => g[4] \notin DOMAIN cache[g[2]].msgs

\* "QRESYNC uses VANISHED instead which gives UIDs directly": a message the
\* server has announced as gone to this session is no longer cached.
NotifiedIsGone ==
  ~lost => \A g \in gone : g[1] = "notice" /\ cache[g[2]].validity = g[3] => g[4] \notin DOMAIN cache[g[2]].msgs

\* The server is never sent a command while it idles: DONE comes first,
\* whatever ended the wait.
NothingInIdle == ~lost /\ srv.idle # 0 /\ out # <<>> => Head(out).verb = "DONE"

\* One command and one answer at a time: what is on its way to the server is of
\* the read that waits, and a status that has come is the answer to it, by its
\* tag and with nothing behind it.  Between two commands no status is under way,
\* as long as no answer was left over by a read that gave up.
AnswersInStep ==
  ~lost =>
    /\ out # <<>> => job.at = "reply" /\ Len(out) = 1
    /\ \A i \in DOMAIN in : in[i].kind = "tagged" =>
         job.at = "reply" /\ out = <<>> /\ i = Len(in) /\ in[i].tag = OwnTag

\* "(use 'sync' to update)": after an accepted sync the cache has the messages
\* of the mailbox as they were when the server answered.
SyncBringsUpToDate ==
  [][job.op = "sync" /\ job.at = "reply" /\ job'.op = "none" /\ ~lost /\ srv.news = <<>>
       /\ Close > 0 /\ Told(Raw) =>
       \A u \in DOMAIN box[cli.box].msgs :
         u \in DOMAIN cache'[cli.box].msgs /\ cache'[cli.box].msgs[u].mod = box[cli.box].msgs[u].mod]_vars

\* What is known of a message stays known: storing a flag does not lose the
\* envelope of a cached message, nor its body.
StoreKeepsTheRest ==
  [][job.op = "store" => \A m \in Mailboxes : \A u \in DOMAIN cache[m].msgs \cap DOMAIN cache'[m].msgs :
       /\ cache[m].msgs[u].env => cache'[m].msgs[u].env
       /\ cache[m].msgs[u].body # <<>> => cache'[m].msgs[u].body # <<>>]_vars

\* A handshake waits for a server that says nothing.
SilentHandshake == job.at = "handshake"

\* Every operation comes to its end, whatever the server and the network do,
\* except for a handshake the server does not answer, which no timer ends, a
\* command on the stream a failed handshake has left null, and an operation
\* whose handler has left and that ends in a promise that is gone.
OperationEnds == (job.op # "none") ~> (job.op = "none" \/ ~alive \/ SilentHandshake)
=============================================================================
