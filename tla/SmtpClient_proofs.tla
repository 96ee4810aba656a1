------------------------- MODULE SmtpClient_proofs -------------------------
(***************************************************************************)
(* Proofs about SmtpClient, for any recipients, bounds and faults: types,  *)
(* and that the window, which opens a session for every message, reads the *)
(* answers in step, mixes no messages and reports as sent only what the    *)
(* server has taken.                                                       *)
(***************************************************************************)
EXTENDS SmtpClient, SequenceTheorems, FiniteSetTheorems, TLAPS

(* Types. A step or a line that names a recipient names one of the message,*)
(* and one that carries a message belongs to a job that has one.           *)
Verbs    == Local \cup Commands \cup {"greeting", "text"}
Carrying == {"MAIL", "RCPT", "text"}
Codes    == {"2xx", "3xx", "5xx", "garbled"}
StepSet  == [verb : Verbs, rcpt : Recipients \cup {"none"}]
StepsOf(m) == {x \in StepSet :
                 /\ x.verb = "RCPT" => x.rcpt \in Recipients
                 /\ x.verb \in Carrying => m \in Msgs}
LineSet    == {x \in [verb : Commands \cup {"text"}, rcpt : Recipients \cup {"none"}, msg : 0..MaxSends] :
                 /\ x.verb = "RCPT" => x.rcpt \in Recipients
                 /\ x.verb \in Carrying => x.msg \in Msgs}
AnswerSet  == [verb : Commands \cup {"text", "greeting"}, code : Codes, lines : Nat, tls : BOOLEAN]
SessionSet == [phase : {"command", "login", "data"}, from : 0..MaxSends, rcpts : SUBSET (Msgs \X Recipients),
               bodies : SUBSET Msgs, junk : BOOLEAN, whole : BOOLEAN]
JobSet     == {j \in [op : CliCommands \cup {"none"}, todo : Seq(StepSet),
                      at : {"token", "step", "reply", "handshake"}, msg : 0..MaxSends,
                      stale : BOOLEAN, waited : BOOLEAN] :
                 /\ j.todo \in Seq(StepsOf(j.msg))
                 /\ (j.op = "none") = (j.todo = <<>>)
                 /\ j.op = "none" => j.at = "step"}
ResultSet  == [Msgs -> {"none", "running", "ok", "shared", "strayed", "failed"}]

ClientTypes == conn \in {"Disconnected", "TcpConnected", "TlsActive"} /\ inner \in {"plain", "secure", "null"}
LinkTypes   == /\ net \in {"none", "up", "cut"} /\ hung \in BOOLEAN
               /\ out \in Seq(LineSet) /\ in \in Seq(AnswerSet) /\ srv \in SessionSet
JobTypes    == /\ job \in [Slots -> JobSet]
               /\ \A s \in Slots : job[s].at = "reply" => Head(job[s].todo).verb \in Commands \cup {"greeting"}
UserTypes   == /\ driver \in Drivers /\ mode \in Modes /\ result \in ResultSet /\ body \in [Msgs -> Bodies \cup {"none"}]
               /\ {ready, overlapped, alive} \subseteq BOOLEAN
BoundTypes  == ops \in 0..MaxOps /\ late \in 0..MaxLate /\ faults \in 0..MaxFaults /\ strayed \in BOOLEAN
Types == ClientTypes /\ LinkTypes /\ JobTypes /\ UserTypes /\ BoundTypes

-----------------------------------------------------------------------------
(* The window's script: an opening, and from AUTH on one fixed sequence.   *)
AfterHello == <<Plain("AUTH")>> \o SendMail
RcptCount  == Len(Envelope)
Length     == RcptCount + 5
From(k)    == SubSeq(AfterHello, k, Length)

Openings == {<<"close", "establish", "upgrade", "greeting", "EHLO">>, <<"establish", "upgrade", "greeting", "EHLO">>,
             <<"upgrade", "greeting", "EHLO">>, <<"close", "establish", "greeting", "EHLO">>,
             <<"establish", "greeting", "EHLO">>, <<"greeting", "EHLO">>, <<"EHLO">>,
             <<"STARTTLS", "upgrade", "EHLO2">>, <<"upgrade", "EHLO2">>, <<"EHLO2">>}
Opening(p) == [i \in 1..Len(p) |-> Plain(p[i])]
Scripts    == {Opening(p) \o AfterHello : p \in Openings} \cup {From(k) : k \in 1..Length}

(* How far a script has come: AUTH is step 1, what comes before is not     *)
(* positive.                                                               *)
Position(todo) == Length + 1 - Len(todo)

(* Steps that do not depend on the connection, and those that leave the    *)
(* greeting to be read.                                                    *)
Unconnected(v) == v \in {"close", "establish"}
Greets(todo) == todo[1].verb = "greeting" \/ (todo[1].verb = "upgrade" /\ todo[2].verb = "greeting")

(* The server's session before step k of message m.                        *)
Session(phase, from, rcpts, bodies, whole) ==
  [phase |-> phase, from |-> from, rcpts |-> rcpts, bodies |-> bodies, junk |-> FALSE, whole |-> whole]
Named(k) == {Envelope[i] : i \in {j \in 1..RcptCount : j <= k}}
SessionAt(m, k) ==
  IF k <= 2 THEN Fresh
  ELSE Session(IF k <= RcptCount + 3 THEN "command" ELSE "data", m, {m} \X Named(k - 3),
               IF k = Length THEN {m} ELSE {}, IF k = Length THEN Attached(m) ELSE TRUE)

TextLine(m) == [verb |-> "text", rcpt |-> "none", msg |-> m]

(* No command is under way: only the body may be, for the server to take.  *)
Synced(m, k) == \/ out = <<>> /\ srv = SessionAt(m, k)
                \/ k = Length /\ out = <<TextLine(m)>> /\ srv = SessionAt(m, k - 1)

(* The command of step k is under way.                                     *)
Sent(m, k, line) == \/ out = <<line>> /\ srv = SessionAt(m, k)
                    \/ k = Length /\ out = <<TextLine(m), line>> /\ srv = SessionAt(m, k - 1)

(* What the server has done when it has given the answer the step asks for.*)
Answered(m, k) == IF k = Length THEN Attached(m) => Delivered(m) ELSE net = "up" => srv = SessionAt(m, k + 1)

Line(m, x) == [verb |-> x.verb, rcpt |-> x.rcpt, msg |-> m]

(* Between two awaits, and in one, of a job of message m with todo left.   *)
Ready(m, todo) == /\ in = <<>> \/ (Greets(todo) /\ Len(in) = 1)
                  /\ net = "up" => Synced(m, Position(todo))
Awaiting(m, todo) ==
  \/ in = <<>> /\ (net = "up" => Synced(m, Position(todo)) \/ Sent(m, Position(todo), Line(m, Head(todo))))
  \/ out = <<>> /\ Len(in) = 1 /\ (in[1].code = Wanted(Head(todo).verb) => Answered(m, Position(todo)))

InStepAt(s) ==
  /\ net # "up" => out = <<>>
  /\ job[s].at \in {"step", "handshake"} => Ready(job[s].msg, job[s].todo)
  /\ job[s].at = "reply" => Awaiting(job[s].msg, job[s].todo)

(* A connection nobody waits on any more, as the last send left it: all of *)
(* it belongs to one message, and in the body phase a body comes first.    *)
OfOneSession(m) ==
  /\ srv.phase # "login" /\ ~srv.junk
  /\ srv.from \in {0, m} /\ srv.rcpts \subseteq {m} \X Recipients /\ (srv.rcpts # {} => srv.from = m)
  /\ srv.phase = "command" => srv.bodies = {}
  /\ srv.phase = "data" => srv.from = m
OfOne(m) ==
  /\ OfOneSession(m)
  /\ \A i \in DOMAIN out : out[i].msg = m
  /\ srv.phase = "command" => out = <<>> \/ \E c \in LineSet : out = <<c>> /\ c.verb \in Commands \ {"LOGIN", "DOT"}
  /\ srv.phase = "data" =>
       \/ srv.bodies = {} /\ (out = <<>> \/ \E c, d \in LineSet : /\ c.verb = "text" /\ d.verb = "DOT"
                                                                 /\ out \in {<<c>>, <<c, d>>})
       \/ srv.bodies = {m} /\ (out = <<>> \/ \E c \in LineSet : c.verb = "DOT" /\ out = <<c>>)

Window == driver = "desktop"
Alone  == ~overlapped => \A s, t \in Running : s = t
Flow   == Window => \A s \in Running : /\ job[s].todo \in Scripts /\ job[s].msg \in Msgs
                                       /\ job[s].at = "handshake" => Now(s).verb = "upgrade"
                                       /\ job[s].at = "token" => Now(s).verb = "close"
Wire   == Window /\ ~overlapped /\ net = "up" => \E m \in Msgs : OfOne(m)
Steps  == Window /\ ~overlapped => \A s \in Running : job[s].at # "token" /\ ~Unconnected(Now(s).verb) => InStepAt(s)
AttachedMeansDelivered == \A m \in Msgs : Reported(m) /\ Attached(m) => Delivered(m)
Results == Window => AttachedMeansDelivered /\ NothingMixed
Parts == Alone /\ Flow /\ Wire /\ Steps /\ Results
IInv == Types /\ Parts
LEMMA JoinType ==
  ASSUME NEW S, NEW s \in Seq(S), NEW t \in Seq(S)
  PROVE  s \o t \in Seq(S)
BY ConcatProperties

LEMMA LiteralJoins ==
  ASSUME NEW a, NEW b, NEW c
  PROVE  /\ <<a>> \o <<>> = <<a>> /\ <<a>> \o <<b>> = <<a, b>> /\ <<a>> \o <<b, c>> = <<a, b, c>>
<1> DEFINE S == {a, b, c}
<1>1. /\ <<a>> \in Seq(S) /\ <<b>> \in Seq(S) /\ <<a, b>> \in Seq(S) /\ <<b, c>> \in Seq(S)
      /\ <<a, b, c>> \in Seq(S)
  OBVIOUS
<1>2. <<a>> \o <<>> = <<a>>
  OBVIOUS
<1>3. <<a>> \o <<b>> = <<a, b>>
  <2>1. Len(<<a>> \o <<b>>) = 2 /\ Len(<<a, b>>) = 2 /\ \A i \in 1..2 : (<<a>> \o <<b>>)[i] = <<a, b>>[i]
    OBVIOUS
  <2>2. <<a>> \o <<b>> \in Seq(S)
    BY <1>1, JoinType
  <2> HIDE DEF S
  <2> QED  BY <1>1, <2>1, <2>2, SeqEqual
<1>4. <<a>> \o <<b, c>> = <<a, b, c>>
  <2>1. Len(<<a>> \o <<b, c>>) = 3 /\ Len(<<a, b, c>>) = 3 /\ \A i \in 1..3 : (<<a>> \o <<b, c>>)[i] = <<a, b, c>>[i]
    OBVIOUS
  <2>2. <<a>> \o <<b, c>> \in Seq(S)
    BY <1>1, JoinType
  <2> HIDE DEF S
  <2> QED  BY <1>1, <2>1, <2>2, SeqEqual
<1> QED  BY <1>2, <1>3, <1>4

LEMMA LiteralPairs ==
  ASSUME NEW a, NEW b, NEW c, NEW d
  PROVE  <<a, b>> \o <<c, d>> = <<a, b, c, d>>
<1> DEFINE S == {a, b, c, d}
<1>1. <<a, b>> \in Seq(S) /\ <<c, d>> \in Seq(S) /\ <<a, b, c, d>> \in Seq(S)
  OBVIOUS
<1>2. Len(<<a, b>> \o <<c, d>>) = 4 /\ Len(<<a, b, c, d>>) = 4
      /\ \A i \in 1..4 : (<<a, b>> \o <<c, d>>)[i] = <<a, b, c, d>>[i]
  OBVIOUS
<1>3. <<a, b>> \o <<c, d>> \in Seq(S)
  BY <1>1, JoinType
<1> HIDE DEF S
<1> QED  BY <1>1, <1>2, <1>3, SeqEqual

LEMMA EnvelopeProperties ==
  /\ Envelope \in Seq(Recipients) /\ Len(Envelope) \in Nat \ {0}
  /\ {Envelope[i] : i \in 1..Len(Envelope)} = Recipients
<1> DEFINE n == Cardinality(Recipients)
           Good(f) == f \in [1..n -> Recipients] /\ IsInjective(f)
<1>1. n \in Nat /\ n # 0 /\ \E f : Good(f)
  <2>1. n \in Nat /\ ExistsBijection(1..n, Recipients)
    BY SmtpAssumption, FS_CardinalityType
  <2>2. n # 0
    BY SmtpAssumption, FS_EmptySet
  <2> QED  BY <2>1, <2>2 DEF ExistsBijection, Bijection, Injection
<1>2. Good(Envelope)
  BY <1>1 DEF Envelope, SetToSeq
<1>3. Envelope \in Injection(1..n, Recipients)
  BY <1>2 DEF Injection
<1>4. Envelope \in Surjection(1..n, Recipients)
  BY <1>1, <1>3, SmtpAssumption, FS_Injection, FS_Interval
<1>5. Envelope \in Seq(Recipients) /\ Len(Envelope) = n
  BY <1>1, <1>2
<1> QED  BY <1>1, <1>4, <1>5 DEF Surjection

LEMMA PlainSteps ==
  ASSUME NEW m \in 0..MaxSends, NEW v \in Verbs, v # "RCPT", v \in Carrying => m \in Msgs
  PROVE  Plain(v) \in StepsOf(m)
BY DEF Plain, StepsOf, StepSet

LEMMA SendMailType ==
  ASSUME NEW m \in Msgs
  PROVE  /\ SendMail \in Seq(StepsOf(m)) /\ Len(SendMail) = Len(Envelope) + 4
         /\ SendMail[1] = Plain("MAIL")
         /\ \A i \in 1..Len(Envelope) : SendMail[i + 1] = [verb |-> "RCPT", rcpt |-> Envelope[i]]
         /\ SendMail[Len(Envelope) + 2] = Plain("DATA")
         /\ SendMail[Len(Envelope) + 3] = Plain("text")
         /\ SendMail[Len(Envelope) + 4] = Plain("DOT")
<1> DEFINE n == Len(Envelope)
           rcpts == [i \in 1..n |-> [verb |-> "RCPT", rcpt |-> Envelope[i]]]
           body3 == <<Plain("DATA"), Plain("text"), Plain("DOT")>>
           mail == <<Plain("MAIL")>>
<1>0. n \in Nat /\ Envelope \in [1..n -> Recipients] /\ DOMAIN Envelope = 1..n
  BY EnvelopeProperties
<1>1. mail \in Seq(StepsOf(m)) /\ body3 \in Seq(StepsOf(m))
  <2>1. Plain("MAIL") \in StepsOf(m) /\ Plain("DATA") \in StepsOf(m) /\ Plain("text") \in StepsOf(m)
        /\ Plain("DOT") \in StepsOf(m)
    BY PlainSteps DEF Verbs, Commands, Msgs
  <2> QED  BY <2>1
<1>2. rcpts \in Seq(StepsOf(m)) /\ Len(rcpts) = n
  <2>1. \A i \in 1..n : [verb |-> "RCPT", rcpt |-> Envelope[i]] \in StepsOf(m)
    BY <1>0 DEF StepsOf, StepSet, Verbs, Commands
  <2> QED  BY <1>0, <2>1
<1> DEFINE front == mail \o rcpts
<1>3. SendMail = front \o body3
  BY <1>0 DEF SendMail
<1> HIDE DEF rcpts
<1> HIDE DEF mail
<1>4. mail[1] = Plain("MAIL") /\ Len(mail) = 1 /\ Len(body3) = 3
      /\ body3[1] = Plain("DATA") /\ body3[2] = Plain("text") /\ body3[3] = Plain("DOT")
  BY DEF mail
<1> HIDE DEF body3, n
<1>5. /\ front \in Seq(StepsOf(m)) /\ Len(front) = 1 + n /\ front[1] = Plain("MAIL")
      /\ \A i \in 1..n : front[1 + i] = rcpts[i]
  <2>1. mail \o rcpts \in Seq(StepsOf(m))
    BY <1>1, <1>2, JoinType
  <2>2. Len(mail \o rcpts) = Len(mail) + Len(rcpts)
    BY <1>1, <1>2
  <2>3. \A i \in 1..Len(mail) : (mail \o rcpts)[i] = mail[i]
    BY <1>1, <1>2
  <2>4. \A i \in 1..Len(rcpts) : (mail \o rcpts)[Len(mail) + i] = rcpts[i]
    BY <1>1, <1>2
  <2> HIDE DEF front
  <2>5. front \in Seq(StepsOf(m)) /\ Len(front) = Len(mail) + Len(rcpts)
        /\ (\A i \in 1..Len(mail) : front[i] = mail[i]) /\ (\A i \in 1..Len(rcpts) : front[Len(mail) + i] = rcpts[i])
    BY <2>1, <2>2, <2>3, <2>4 DEF front
  <2> QED  BY <1>0, <1>2, <1>4, <2>5
<1> HIDE DEF front
<1>6. /\ SendMail \in Seq(StepsOf(m)) /\ Len(SendMail) = (1 + n) + 3
      /\ \A i \in 1..1 + n : SendMail[i] = front[i]
      /\ \A i \in 1..3 : SendMail[(1 + n) + i] = body3[i]
  <2>1. front \o body3 \in Seq(StepsOf(m))
    BY <1>1, <1>5, JoinType
  <2>2. Len(front \o body3) = Len(front) + Len(body3)
    BY <1>1, <1>5
  <2>3. \A i \in 1..Len(front) : (front \o body3)[i] = front[i]
    BY <1>1, <1>5
  <2>4. \A i \in 1..Len(body3) : (front \o body3)[Len(front) + i] = body3[i]
    BY <1>1, <1>5
  <2> QED  BY <1>3, <1>4, <1>5, <2>1, <2>2, <2>3, <2>4
<1>7. SendMail[n + 2] = body3[1] /\ SendMail[n + 3] = body3[2] /\ SendMail[n + 4] = body3[3]
  BY <1>0, <1>6
<1>8. \A i \in 1..n : SendMail[i + 1] = rcpts[i]
  BY <1>0, <1>5, <1>6
<1>9. SendMail[1] = Plain("MAIL") /\ Len(SendMail) = n + 4
  BY <1>0, <1>5, <1>6
<1> QED  BY <1>0, <1>4, <1>6, <1>7, <1>8, <1>9 DEF rcpts, n

LEMMA AfterHelloSteps ==
  ASSUME NEW m \in Msgs
  PROVE  /\ RcptCount \in Nat \ {0}
         /\ AfterHello \in Seq(StepsOf(m)) /\ Len(AfterHello) = Length
         /\ AfterHello[1] = Plain("AUTH") /\ AfterHello[2] = Plain("MAIL")
         /\ \A i \in 1..RcptCount : AfterHello[i + 2] = [verb |-> "RCPT", rcpt |-> Envelope[i]]
         /\ AfterHello[RcptCount + 3] = Plain("DATA") /\ AfterHello[RcptCount + 4] = Plain("text")
         /\ AfterHello[RcptCount + 5] = Plain("DOT")
<1> DEFINE first == <<Plain("AUTH")>>
<1>1. RcptCount \in Nat \ {0} /\ RcptCount = Len(Envelope)
  BY EnvelopeProperties DEF RcptCount
<1>2. first \in Seq(StepsOf(m)) /\ Len(first) = 1 /\ first[1] = Plain("AUTH")
  <2>1. Plain("AUTH") \in StepsOf(m)
    BY PlainSteps DEF Verbs, Commands, Carrying, Msgs
  <2> QED  BY <2>1
<1> HIDE DEF first
<1>2a. SendMail \in Seq(StepsOf(m)) /\ Len(SendMail) = RcptCount + 4
  BY <1>1, SendMailType
<1>3. AfterHello = first \o SendMail
  BY DEF AfterHello, first
<1>2b. first \in Seq(StepsOf(m)) /\ SendMail \in Seq(StepsOf(m))
  BY <1>2, <1>2a
<1>4. /\ AfterHello \in Seq(StepsOf(m)) /\ Len(AfterHello) = 1 + (RcptCount + 4)
      /\ AfterHello[1] = Plain("AUTH") /\ \A k \in 1..RcptCount + 4 : AfterHello[1 + k] = SendMail[k]
  <2>1. first \o SendMail \in Seq(StepsOf(m))
    BY <1>2b, JoinType
  <2>2. Len(first \o SendMail) = Len(first) + Len(SendMail)
    BY <1>2b
  <2>3. \A i \in 1..Len(first) : (first \o SendMail)[i] = first[i]
    BY <1>2b
  <2>4. \A i \in 1..Len(SendMail) : (first \o SendMail)[Len(first) + i] = SendMail[i]
    BY <1>2b
  <2> QED  BY <1>2, <1>3, <1>2a, <2>1, <2>2, <2>3, <2>4
<1>5. Len(AfterHello) = Length /\ \A k \in 1..RcptCount + 4 : AfterHello[k + 1] = SendMail[k]
  BY <1>1, <1>4 DEF Length
<1>6. \A i \in 1..RcptCount : AfterHello[i + 2] = [verb |-> "RCPT", rcpt |-> Envelope[i]]
  <2>1. \A i \in 1..RcptCount : i + 1 \in 1..RcptCount + 4 /\ (i + 1) + 1 = i + 2
    BY <1>1
  <2> QED  BY <1>1, <1>5, <2>1, SendMailType
<1>7. /\ AfterHello[2] = SendMail[1] /\ AfterHello[RcptCount + 3] = SendMail[RcptCount + 2]
      /\ AfterHello[RcptCount + 4] = SendMail[RcptCount + 3] /\ AfterHello[RcptCount + 5] = SendMail[RcptCount + 4]
  <2>1. /\ 1 \in 1..RcptCount + 4 /\ 1 + 1 = 2
        /\ RcptCount + 2 \in 1..RcptCount + 4 /\ (RcptCount + 2) + 1 = RcptCount + 3
        /\ RcptCount + 3 \in 1..RcptCount + 4 /\ (RcptCount + 3) + 1 = RcptCount + 4
        /\ RcptCount + 4 \in 1..RcptCount + 4 /\ (RcptCount + 4) + 1 = RcptCount + 5
    BY <1>1
  <2> QED  BY <1>5, <2>1, Zenon
<1> QED  BY <1>1, <1>4, <1>5, <1>6, <1>7, SendMailType

LEMMA ConnectType ==
  ASSUME NEW m \in 0..MaxSends
  PROVE  /\ Connect \in Seq(StepsOf(m)) \ {<<>>} /\ AuthLogin \in Seq(StepsOf(m)) \ {<<>>}
         /\ Quit \in Seq(StepsOf(m)) \ {<<>>}
         /\ \A r \in AnswerSet : Upgrade(r) \in Seq(StepsOf(m))
<1>1. \A v \in Verbs \ Carrying : Plain(v) \in StepsOf(m)
  BY PlainSteps DEF Carrying
<1>2. \A v \in {"establish", "upgrade", "greeting", "EHLO", "EHLO2", "STARTTLS", "LOGIN", "USER", "PASS", "QUIT", "close"} :
        Plain(v) \in StepsOf(m)
  BY <1>1 DEF Verbs, Local, Commands, Carrying
<1>3. Connect \in {<<Plain("establish"), Plain("upgrade"), Plain("greeting"), Plain("EHLO")>>,
                   <<Plain("establish"), Plain("greeting"), Plain("EHLO")>>}
  <2>1. \A e, u, g, h : /\ <<e>> \o <<u>> \o <<g, h>> = <<e, u, g, h>> /\ <<e>> \o <<>> \o <<g, h>> = <<e, g, h>>
    <3> SUFFICES ASSUME NEW e, NEW u, NEW g, NEW h
                 PROVE  <<e>> \o <<u>> \o <<g, h>> = <<e, u, g, h>> /\ <<e>> \o <<>> \o <<g, h>> = <<e, g, h>>
      OBVIOUS
    <3>1. <<e>> \o <<u>> = <<e, u>> /\ <<e, u>> \o <<g, h>> = <<e, u, g, h>>
      <4>1. <<e>> \o <<u>> = <<e, u>>
        BY LiteralJoins, Zenon
      <4>2. <<e, u>> \o <<g, h>> = <<e, u, g, h>>
        BY LiteralPairs, Zenon
      <4> QED  BY <4>1, <4>2, Zenon
    <3>2. <<e>> \o <<>> = <<e>> /\ <<e>> \o <<g, h>> = <<e, g, h>>
      <4>1. <<e>> \o <<>> = <<e>>
        BY LiteralJoins, Zenon
      <4>2. <<e>> \o <<g, h>> = <<e, g, h>>
        BY LiteralJoins, Zenon
      <4> QED  BY <4>1, <4>2, Zenon
    <3> QED  BY <3>1, <3>2, Zenon
  <2>2. CASE mode = "SSL_TLS"
    BY <2>1, <2>2, Zenon DEF Connect
  <2>3. CASE mode # "SSL_TLS"
    BY <2>1, <2>3, Zenon DEF Connect
  <2> QED  BY <2>2, <2>3
<1>4. Connect \in Seq(StepsOf(m)) \ {<<>>}
  <2> DEFINE S == StepsOf(m)
  <2>1. \A a, b, c, d \in S : <<a, b, c, d>> \in Seq(S) \ {<<>>} /\ <<a, b, c>> \in Seq(S) \ {<<>>}
    OBVIOUS
  <2>2. /\ Plain("establish") \in S /\ Plain("upgrade") \in S /\ Plain("greeting") \in S /\ Plain("EHLO") \in S
    BY <1>2
  <2> HIDE DEF S
  <2>3. Connect \in Seq(S) \ {<<>>}
    <3>1. CASE Connect = <<Plain("establish"), Plain("upgrade"), Plain("greeting"), Plain("EHLO")>>
      BY <3>1, <2>1, <2>2, Zenon
    <3>2. CASE Connect = <<Plain("establish"), Plain("greeting"), Plain("EHLO")>>
      BY <3>2, <2>1, <2>2, Zenon
    <3> QED  BY <1>3, <3>1, <3>2
  <2> QED  BY <2>3 DEF S
<1>5. AuthLogin \in Seq(StepsOf(m)) \ {<<>>} /\ Quit \in Seq(StepsOf(m)) \ {<<>>}
  BY <1>2 DEF AuthLogin, Quit
<1>6. \A r \in AnswerSet : Upgrade(r) \in Seq(StepsOf(m))
  BY <1>2 DEF Upgrade
<1> QED  BY <1>4, <1>5, <1>6

-----------------------------------------------------------------------------
(* Types.                                                                  *)
ReadsAnAnswer(jobs) == \A s \in Slots : jobs[s].at = "reply" => Head(jobs[s].todo).verb \in Commands \cup {"greeting"}

LEMMA Bounds == {MaxSends, MaxOps, MaxLate, MaxFaults} \subseteq Nat /\ MaxLines \in Nat \ {0}
BY SmtpAssumption

LEMMA CliScriptType ==
  ASSUME NEW op \in CliCommands, NEW m \in 0..MaxSends, op = "send" => m \in Msgs
  PROVE  CliScript(op) \in Seq(StepsOf(m)) \ {<<>>}
<1>1. CASE op = "connect"
  <2>1. CliScript(op) = Connect
    BY <1>1, Zenon DEF CliScript, Simple
  <2> QED  BY <2>1, ConnectType
<1>2. CASE op = "send"
  <2>1. SendMail \in Seq(StepsOf(m)) /\ Len(SendMail) = Len(Envelope) + 4 /\ Len(Envelope) \in Nat
    BY <1>2, SendMailType, EnvelopeProperties
  <2>2. SendMail # <<>>
    BY <2>1
  <2>3. CliScript(op) = SendMail
    BY <1>2, Zenon DEF CliScript, Simple
  <2> QED  BY <2>1, <2>2, <2>3
<1>3. CASE op = "auth"
  <2>1. Plain("AUTH") \in StepsOf(m)
    BY PlainSteps DEF Verbs, Commands, Carrying
  <2>2. CliScript(op) = <<Plain("AUTH")>>
    BY <1>3, Zenon DEF CliScript, Simple
  <2> QED  BY <2>1, <2>2
<1>4. CASE op = "login"
  <2>1. CliScript(op) = AuthLogin
    BY <1>4, Zenon DEF CliScript, Simple
  <2> QED  BY <2>1, ConnectType
<1>5. CASE op = "quit"
  <2>1. CliScript(op) = Quit
    BY <1>5, Zenon DEF CliScript, Simple
  <2> QED  BY <2>1, ConnectType
<1>6. CASE op \in Simple
  <2>1. Plain(op) \in StepsOf(m)
    BY <1>6, PlainSteps DEF Verbs, Commands, Carrying, Simple
  <2>2. CliScript(op) = <<Plain(op)>>
    BY <1>6, Zenon DEF CliScript, Simple
  <2> QED  BY <2>1, <2>2
<1> QED  BY <1>1, <1>2, <1>3, <1>4, <1>5, <1>6 DEF CliCommands, Simple

LEMMA DesktopSendType ==
  ASSUME NEW m \in Msgs
  PROVE  DesktopSend \in Seq(StepsOf(m)) \ {<<>>}
<1> DEFINE S == StepsOf(m)
<1>1. m \in 0..MaxSends
  BY SmtpAssumption DEF Msgs
<1>2. Plain("close") \in S /\ Plain("AUTH") \in S
  BY <1>1, PlainSteps DEF Verbs, Local, Commands, Carrying
<1>3. Connect \in Seq(S) /\ SendMail \in Seq(S)
  BY <1>1, ConnectType, SendMailType
<1> DEFINE a == <<Plain("close")>>
           b == <<Plain("AUTH")>>
<1>4. a \in Seq(S) /\ b \in Seq(S) /\ Len(a) = 1
  BY <1>2
<1>5. DesktopSend = a \o Connect \o b \o SendMail
  BY DEF DesktopSend
<1> HIDE DEF a, b, S
<1>6. a \o Connect \in Seq(S) /\ Len(a \o Connect) = Len(a) + Len(Connect)
  <2>1. a \in Seq(S) /\ Connect \in Seq(S)
    BY <1>3, <1>4
  <2>2. a \o Connect \in Seq(S)
    BY <2>1, JoinType
  <2>3. Len(a \o Connect) = Len(a) + Len(Connect)
    BY <2>1
  <2> QED  BY <2>2, <2>3
<1> DEFINE c == a \o Connect
<1>7. c \in Seq(S) /\ Len(c) = 1 + Len(Connect)
  BY <1>4, <1>6
<1> HIDE DEF c
<1>8. c \o b \in Seq(S) /\ Len(c \o b) = Len(c) + Len(b)
  <2>1. c \o b \in Seq(S)
    BY <1>4, <1>7, JoinType
  <2> QED  BY <1>4, <1>7, <2>1
<1> DEFINE d == c \o b
<1>9. d \in Seq(S) /\ Len(d) = Len(c) + Len(b)
  BY <1>8
<1>10. DesktopSend = d \o SendMail
  BY <1>5 DEF c
<1> HIDE DEF d
<1>11. d \o SendMail \in Seq(S) /\ Len(d \o SendMail) = Len(d) + Len(SendMail)
  <2>1. d \o SendMail \in Seq(S)
    BY <1>3, <1>9, JoinType
  <2> QED  BY <1>3, <1>9, <2>1
<1>12. Len(DesktopSend) # 0
  <2>1. Len(b) \in Nat /\ Len(Connect) \in Nat /\ Len(SendMail) \in Nat
    BY <1>3, <1>4
  <2> QED  BY <1>7, <1>9, <1>10, <1>11, <2>1
<1>13. DesktopSend # <<>>
  BY <1>12
<1> QED  BY <1>10, <1>11, <1>13 DEF S

LEMMA IdleType == Idle \in JobSet /\ Idle.at = "step" /\ Idle.op = "none"
<1>1. 0 \in 0..MaxSends
  BY Bounds
<1>2. <<>> \in Seq(StepSet) /\ <<>> \in Seq(StepsOf(0))
  OBVIOUS
<1> QED  BY <1>1, <1>2 DEF Idle, JobSet

LEMMA FinishTypes ==
  ASSUME UserTypes, JobTypes, NEW s \in Slots, NEW jobs \in [Slots -> JobSet], ReadsAnAnswer(jobs),
         NEW how \in {"ok", "shared", "strayed", "failed"}, Finish(jobs, s, how)
  PROVE  JobTypes' /\ result' \in ResultSet /\ ready' \in BOOLEAN /\ alive' \in BOOLEAN
<1>1. job' \in [Slots -> JobSet] /\ \A t \in Slots : job'[t] = IF t = s THEN Idle ELSE jobs[t]
  BY IdleType DEF Finish
<1>2. ReadsAnAnswer(job')
  BY <1>1, IdleType DEF ReadsAnAnswer
<1>3. result' \in ResultSet
  <2>1. job[s].msg \in 0..MaxSends
    BY DEF JobTypes, JobSet
  <2>2. result \in ResultSet
    BY DEF UserTypes
  <2>3. result' = IF job[s].msg = 0 THEN result ELSE [result EXCEPT ![job[s].msg] = how]
    BY DEF Finish
  <2> QED  BY <2>1, <2>2, <2>3, SmtpAssumption DEF ResultSet, Msgs
<1>4. job[s].waited \in BOOLEAN
  BY DEF JobTypes, JobSet
<1>5. ready' \in BOOLEAN /\ alive' \in BOOLEAN
  BY <1>4 DEF Finish
<1> QED  BY <1>1, <1>2, <1>3, <1>5 DEF JobTypes, ReadsAnAnswer

LEMMA ProceedTypes ==
  ASSUME UserTypes, JobTypes, NEW s \in Slots, NEW jobs \in [Slots -> JobSet], ReadsAnAnswer(jobs),
         NEW todo \in Seq(StepsOf(jobs[s].msg)), jobs[s].op # "none", Proceed(jobs, s, todo)
  PROVE  JobTypes' /\ result' \in ResultSet /\ ready' \in BOOLEAN /\ alive' \in BOOLEAN
<1>1. CASE todo = <<>>
  <2>1. Finish(jobs, s, Trust)
    BY <1>1 DEF Proceed
  <2>2. Trust \in {"ok", "shared", "strayed", "failed"}
    BY DEF Trust
  <2> QED  BY <2>1, <2>2, FinishTypes
<1>2. CASE todo # <<>>
  <2>1. job' = [jobs EXCEPT ![s].todo = todo, ![s].at = "step"] /\ UNCHANGED <<result, ready, alive>>
    BY <1>2 DEF Proceed
  <2>2. job' = [jobs EXCEPT ![s] = [jobs[s] EXCEPT !.todo = todo, !.at = "step"]]
    BY <2>1
  <2>3. [jobs[s] EXCEPT !.todo = todo, !.at = "step"] \in JobSet
    <3>1. todo \in Seq(StepSet)
      BY DEF StepsOf
    <3> DEFINE next == [jobs[s] EXCEPT !.todo = todo, !.at = "step"]
    <3>2. /\ next \in [op : CliCommands \cup {"none"}, todo : Seq(StepSet),
                      at : {"token", "step", "reply", "handshake"}, msg : 0..MaxSends,
                      stale : BOOLEAN, waited : BOOLEAN]
          /\ next.op = jobs[s].op /\ next.todo = todo /\ next.at = "step" /\ next.msg = jobs[s].msg
      BY <3>1 DEF JobSet
    <3> HIDE DEF next
    <3>3. (next.op = "none") = FALSE /\ (next.todo = <<>>) = FALSE
      BY <1>2, <3>2
    <3> QED  BY <3>2, <3>3 DEF JobSet, next
  <2>4. job' \in [Slots -> JobSet] /\ job'[s].at = "step" /\ \A t \in Slots \ {s} : job'[t] = jobs[t]
    BY <2>2, <2>3 DEF JobSet
  <2>5. ReadsAnAnswer(job')
    BY <2>4 DEF ReadsAnAnswer
  <2> QED  BY <2>1, <2>4, <2>5 DEF JobTypes, ReadsAnAnswer, UserTypes
<1> QED  BY <1>1, <1>2

LEMMA RebuiltTypes ==
  ASSUME JobTypes, NEW s \in Slots
  PROVE  Rebuilt(s) \in [Slots -> JobSet] /\ ReadsAnAnswer(Rebuilt(s)) /\ Rebuilt(s)[s] = job[s]
<1>1. ASSUME NEW t \in Slots
      PROVE  Rebuilt(s)[t] \in JobSet /\ Rebuilt(s)[t].at = job[t].at /\ Rebuilt(s)[t].todo = job[t].todo
  <2>1. job[t] \in JobSet
    BY DEF JobTypes
  <2>2. [job[t] EXCEPT !.stale = TRUE] \in JobSet
    BY <2>1 DEF JobSet
  <2>3. Rebuilt(s)[t] = IF t # s /\ job[t].at = "reply" THEN [job[t] EXCEPT !.stale = TRUE] ELSE job[t]
    BY DEF Rebuilt
  <2>4. [job[t] EXCEPT !.stale = TRUE].at = job[t].at /\ [job[t] EXCEPT !.stale = TRUE].todo = job[t].todo
    BY <2>1 DEF JobSet
  <2> QED  BY <2>1, <2>2, <2>3, <2>4
<1>2. Rebuilt(s) \in [Slots -> JobSet]
  BY <1>1 DEF Rebuilt
<1>3. Rebuilt(s)[s] = job[s]
  BY DEF Rebuilt
<1> QED  BY <1>1, <1>2, <1>3 DEF JobTypes, ReadsAnAnswer

LEMMA BeginTypes ==
  ASSUME Types, NEW s \in Slots, NEW op \in CliCommands, NEW m \in 0..MaxSends,
         NEW script \in Seq(StepsOf(m)) \ {<<>>}, NEW at \in {"token", "step"}, Begin(s, op, script, at, m)
  PROVE  Types'
<1> USE DEF Types
<1> DEFINE new == [op |-> op, todo |-> script, at |-> at, msg |-> m, stale |-> FALSE, waited |-> TRUE]
<1>1. new \in JobSet
  <2>1. script \in Seq(StepSet)
    BY DEF StepsOf
  <2> QED  BY <2>1 DEF JobSet, CliCommands
<1>2. job' = [job EXCEPT ![s] = new]
  BY DEF Begin
<1>3. JobTypes'
  BY <1>1, <1>2 DEF JobTypes
<1>4. UserTypes'
  <2>1. result' \in ResultSet
    <3>1. result \in ResultSet /\ result' = IF m = 0 THEN result ELSE [result EXCEPT ![m] = "running"]
      BY DEF UserTypes, Begin
    <3> QED  BY <3>1 DEF ResultSet
  <2>2. overlapped' \in BOOLEAN /\ ready' \in BOOLEAN /\ UNCHANGED <<driver, mode, alive>>
    BY DEF Begin, UserTypes
  <2>3. body' \in [Msgs -> Bodies \cup {"none"}]
    BY DEF UserTypes, Begin
  <2> QED  BY <2>1, <2>2, <2>3 DEF UserTypes
<1>5. ClientTypes' /\ LinkTypes'
  BY DEF Begin, client, link, ClientTypes, LinkTypes
<1>6. BoundTypes'
  BY Bounds DEF Begin, BoundTypes
<1> QED  BY <1>3, <1>4, <1>5, <1>6

LEMMA NextMsgType == Types /\ NextMsg \in Msgs => NextMsg \in 0..MaxSends
BY Bounds DEF Msgs

LEMMA FaultTypes ==
  ASSUME Types, NEW f, Fault(f), UNCHANGED <<ops, late, strayed>>
  PROVE  BoundTypes'
BY Bounds DEF Types, BoundTypes, Fault

LEMMA FailTypes ==
  ASSUME Types, NEW s \in Slots, Fail(s), UNCHANGED <<driver, mode, body, overlapped>>
  PROVE  JobTypes' /\ UserTypes'
<1>1. job \in [Slots -> JobSet] /\ ReadsAnAnswer(job)
  BY DEF Types, JobTypes, ReadsAnAnswer
<1>2. JobTypes' /\ result' \in ResultSet /\ ready' \in BOOLEAN /\ alive' \in BOOLEAN
  BY <1>1, FinishTypes DEF Types, Fail
<1> QED  BY <1>2 DEF Types, UserTypes

(* What a running job has left, and what is left after its next step.      *)
LEMMA JobFacts ==
  ASSUME Types, NEW s \in Running
  PROVE  /\ s \in Slots /\ job[s] \in JobSet /\ job[s].todo \in Seq(StepsOf(job[s].msg)) \ {<<>>}
         /\ job[s].op # "none" /\ job[s].msg \in 0..MaxSends
         /\ Now(s) \in StepsOf(job[s].msg) /\ Rest(s) \in Seq(StepsOf(job[s].msg))
<1>1. s \in Slots /\ job[s] \in JobSet /\ job[s].op # "none"
  BY DEF Running, Types, JobTypes
<1>2. job[s].todo \in Seq(StepsOf(job[s].msg)) /\ job[s].todo # <<>> /\ job[s].msg \in 0..MaxSends
  BY <1>1 DEF JobSet
<1>3. Head(job[s].todo) \in StepsOf(job[s].msg) /\ Tail(job[s].todo) \in Seq(StepsOf(job[s].msg))
  BY <1>2, HeadTailProperties
<1> QED  BY <1>1, <1>2, <1>3 DEF Now, Rest

LEMMA GoOnTypes ==
  ASSUME Types, NEW s \in Running, NEW jobs, jobs = job \/ jobs = Rebuilt(s),
         NEW todo \in Seq(StepsOf(job[s].msg)), Proceed(jobs, s, todo), UNCHANGED <<driver, mode, body>>,
         overlapped' \in BOOLEAN
  PROVE  JobTypes' /\ UserTypes'
<1>1. s \in Slots /\ job[s].op # "none"
  BY DEF Running
<1>2. jobs \in [Slots -> JobSet] /\ ReadsAnAnswer(jobs) /\ jobs[s] = job[s]
  <2>1. job \in [Slots -> JobSet] /\ ReadsAnAnswer(job)
    BY DEF Types, JobTypes, ReadsAnAnswer
  <2>2. Rebuilt(s) \in [Slots -> JobSet] /\ ReadsAnAnswer(Rebuilt(s)) /\ Rebuilt(s)[s] = job[s]
    BY <1>1, RebuiltTypes DEF Types
  <2> QED  BY <2>1, <2>2
<1>3. UserTypes /\ JobTypes /\ todo \in Seq(StepsOf(jobs[s].msg)) /\ jobs[s].op # "none"
  BY <1>1, <1>2 DEF Types
<1>4. JobTypes' /\ result' \in ResultSet /\ ready' \in BOOLEAN /\ alive' \in BOOLEAN
  BY <1>1, <1>2, <1>3, ProceedTypes
<1> QED  BY <1>4 DEF Types, UserTypes

LEMMA JobAtTypes ==
  ASSUME Types, NEW s \in Running, NEW at \in {"step", "reply", "handshake"}, job' = [job EXCEPT ![s].at = at],
         at = "reply" => Now(s).verb \in Commands \cup {"greeting"}
  PROVE  JobTypes'
<1>1. s \in Slots /\ job[s] \in JobSet /\ job[s].op # "none"
  BY JobFacts
<1>2. [job[s] EXCEPT !.at = at] \in JobSet /\ job' = [job EXCEPT ![s] = [job[s] EXCEPT !.at = at]]
  BY <1>1 DEF JobSet
<1>3. job' \in [Slots -> JobSet] /\ job'[s] = [job[s] EXCEPT !.at = at] /\ \A t \in Slots \ {s} : job'[t] = job[t]
  BY <1>1, <1>2 DEF Types, JobTypes
<1>4. job'[s].at = at /\ job'[s].todo = job[s].todo
  BY <1>1, <1>3 DEF JobSet
<1> QED  BY <1>3, <1>4 DEF Types, JobTypes, Now

LEMMA TakeDataCases ==
  ASSUME NEW c, TakeData(c)
  PROVE  \/ /\ c.verb = "text" /\ LoneDot(c.msg) /\ srv' = Fresh
            /\ delivered' = delivered \cup {[Mail EXCEPT !.bodies = @ \cup {c.msg}, !.whole = FALSE]}
            /\ in' = in \o <<Answer("DOT", "2xx", 1, FALSE), Answer("text", "5xx", 1, FALSE)>>
         \/ /\ c.verb = "text" /\ ~LoneDot(c.msg)
            /\ srv' = [srv EXCEPT !.bodies = @ \cup {c.msg}, !.whole = @ /\ Attached(c.msg)]
            /\ UNCHANGED <<delivered, in>>
         \/ /\ c.verb = "DOT" /\ srv' = Fresh
            /\ \/ delivered' = delivered \cup {Mail} /\ Reply("DOT", "2xx", 1, FALSE)
               \/ \E code \in Bad : UNCHANGED delivered /\ Reply("DOT", code, 1, FALSE)
         \/ c.verb \notin {"text", "DOT"} /\ srv' = [srv EXCEPT !.junk = TRUE] /\ UNCHANGED <<delivered, in>>
<1>1. CASE c.verb = "text" /\ LoneDot(c.msg)
  BY <1>1, Zenon DEF TakeData
<1>2. CASE c.verb = "text" /\ ~LoneDot(c.msg)
  BY <1>2, Zenon DEF TakeData
<1>3. CASE c.verb = "DOT"
  BY <1>3, Zenon DEF TakeData
<1>4. CASE c.verb \notin {"text", "DOT"}
  BY <1>4, Zenon DEF TakeData
<1> QED  BY <1>1, <1>2, <1>3, <1>4

LEMMA ReplyType ==
  ASSUME LinkTypes, NEW v \in Commands \cup {"text", "greeting"}, NEW code \in Codes, NEW n \in Nat, NEW tls \in BOOLEAN,
         Reply(v, code, n, tls)
  PROVE  in' \in Seq(AnswerSet)
<1>1. Answer(v, code, n, tls) \in AnswerSet
  BY DEF Answer, AnswerSet
<1> QED  BY <1>1, AppendProperties DEF Reply, LinkTypes

LEMMA BadType == Bad \subseteq {"5xx", "garbled"} /\ Bad \subseteq Codes
BY DEF Bad, Codes

LEMMA LineCountsType == \A v : LineCounts(v) \subseteq Nat
<1>1. MaxLines + 1 \in Nat /\ 1..MaxLines + 1 \subseteq Nat /\ {1} \subseteq Nat
  BY Bounds
<1> QED  BY <1>1 DEF LineCounts

LEMMA SessionTypes ==
  ASSUME NEW x \in SessionSet, NEW c \in LineSet
  PROVE  /\ Fresh \in SessionSet /\ [x EXCEPT !.junk = TRUE] \in SessionSet
         /\ [x EXCEPT !.phase = "command"] \in SessionSet /\ [x EXCEPT !.phase = "login"] \in SessionSet
         /\ [x EXCEPT !.phase = "data"] \in SessionSet /\ [x EXCEPT !.from = c.msg] \in SessionSet
         /\ c.verb = "RCPT" => [x EXCEPT !.rcpts = @ \cup {<<c.msg, c.rcpt>>}] \in SessionSet
         /\ c.verb = "text" => [x EXCEPT !.bodies = @ \cup {c.msg}, !.whole = @ /\ Attached(c.msg)] \in SessionSet
<1>0. 0 \in 0..MaxSends
  BY Bounds
<1>1. Fresh \in SessionSet
  BY <1>0 DEF Fresh, SessionSet
<1>2. x.rcpts \subseteq Msgs \X Recipients /\ x.bodies \subseteq Msgs /\ x.whole \in BOOLEAN
  BY DEF SessionSet
<1>3. ASSUME c.verb = "RCPT" PROVE x.rcpts \cup {<<c.msg, c.rcpt>>} \in SUBSET (Msgs \X Recipients)
  BY <1>2, <1>3 DEF LineSet, Carrying
<1>4. ASSUME c.verb = "text" PROVE x.bodies \cup {c.msg} \in SUBSET Msgs
  BY <1>2, <1>4 DEF LineSet, Carrying
<1>5. (x.whole /\ Attached(c.msg)) \in BOOLEAN
  OBVIOUS
<1>6. c.verb = "RCPT" => [x EXCEPT !.rcpts = @ \cup {<<c.msg, c.rcpt>>}] \in SessionSet
  BY <1>3 DEF SessionSet
<1>7. c.verb = "text" => [x EXCEPT !.bodies = @ \cup {c.msg}, !.whole = @ /\ Attached(c.msg)] \in SessionSet
  BY <1>4, <1>5 DEF SessionSet
<1>8. /\ [x EXCEPT !.junk = TRUE] \in SessionSet
      /\ [x EXCEPT !.phase = "command"] \in SessionSet /\ [x EXCEPT !.phase = "login"] \in SessionSet
      /\ [x EXCEPT !.phase = "data"] \in SessionSet
  BY DEF SessionSet
<1>9. [x EXCEPT !.from = c.msg] \in SessionSet
  BY DEF SessionSet, LineSet
<1> QED  BY <1>1, <1>6, <1>7, <1>8, <1>9

LEMMA ServeTypes ==
  ASSUME Types, Serve
  PROVE  LinkTypes'
<1> DEFINE c == Head(out)
<1>1. LinkTypes /\ srv \in SessionSet /\ in \in Seq(AnswerSet)
  BY DEF Types, LinkTypes
<1>2. c \in LineSet /\ c.verb \in Commands \cup {"text"} /\ out' \in Seq(LineSet)
  <2>1. out \in Seq(LineSet) /\ out # <<>> /\ out' = Tail(out)
    BY <1>1 DEF LinkTypes, Serve
  <2>2. c \in LineSet /\ Tail(out) \in Seq(LineSet)
    BY <2>1, HeadTailProperties
  <2> QED  BY <2>1, <2>2 DEF LineSet
<1> HIDE DEF c
<1>3. \/ srv.phase = "data" /\ TakeData(c) /\ UNCHANGED net
      \/ srv.phase = "login" /\ TakeLogin(c) /\ UNCHANGED net
      \/ srv.phase = "command" /\ c.verb # "QUIT" /\ TakeCommand(c) /\ UNCHANGED <<delivered, net>>
      \/ /\ srv.phase = "command" /\ c.verb = "QUIT" /\ Reply("QUIT", "2xx", 1, FALSE) /\ net' = "cut"
         /\ UNCHANGED <<srv, delivered>>
  BY DEF Serve, c
<1>4. net' \in {"none", "up", "cut"} /\ hung' \in BOOLEAN
  BY <1>1, <1>3 DEF LinkTypes, Serve
<1>5. ASSUME NEW v \in Commands \cup {"text", "greeting"}, NEW code \in Codes, NEW n \in Nat, NEW tls \in BOOLEAN,
             Reply(v, code, n, tls)
      PROVE  in' \in Seq(AnswerSet)
  BY <1>1, <1>5, ReplyType
<1>6. srv' \in SessionSet /\ in' \in Seq(AnswerSet)
  <2>1. CASE srv.phase = "data" /\ TakeData(c)
    <3>1. CASE LoneDot(c.msg) /\ srv' = Fresh /\ in' = in \o <<Answer("DOT", "2xx", 1, FALSE), Answer("text", "5xx", 1, FALSE)>>
      <4>1. <<Answer("DOT", "2xx", 1, FALSE), Answer("text", "5xx", 1, FALSE)>> \in Seq(AnswerSet)
        <5>1. Answer("DOT", "2xx", 1, FALSE) \in AnswerSet /\ Answer("text", "5xx", 1, FALSE) \in AnswerSet
          BY DEF Answer, AnswerSet, Commands, Codes
        <5>2. \A a, b \in AnswerSet : <<a, b>> \in Seq(AnswerSet)
          OBVIOUS
        <5> QED  BY <5>1, <5>2
      <4> QED  BY <1>1, <1>2, <3>1, <4>1, JoinType, SessionTypes
    <3>2. CASE c.verb = "text" /\ srv' = [srv EXCEPT !.bodies = @ \cup {c.msg}, !.whole = @ /\ Attached(c.msg)] /\ in' = in
      BY <1>1, <1>2, <3>2, SessionTypes
    <3>3. CASE srv' = Fresh /\ \E code \in Codes : Reply("DOT", code, 1, FALSE)
      BY <1>1, <1>2, <1>5, <3>3, SessionTypes DEF Commands
    <3>4. CASE srv' = [srv EXCEPT !.junk = TRUE] /\ in' = in
      BY <1>1, <1>2, <3>4, SessionTypes
    <3> QED  BY <2>1, <3>1, <3>2, <3>3, <3>4, TakeDataCases, BadType DEF Codes
  <2>2. CASE TakeLogin(c)
    <3>1. srv' = srv \/ srv' = [srv EXCEPT !.phase = "command"]
      BY <2>2 DEF TakeLogin
    <3>2. \E code \in Codes, v \in Commands \cup {"text"} : Reply(v, code, 1, FALSE)
      BY <1>2, <2>2, BadType DEF TakeLogin, Codes, Commands
    <3> QED  BY <1>1, <1>2, <1>5, <3>1, <3>2, SessionTypes
  <2>3. CASE TakeCommand(c)
    <3>1. srv' \in SessionSet
      BY <1>1, <1>2, <2>3, SessionTypes DEF TakeCommand
    <3>2. \E code \in Codes, v \in Commands \cup {"text"}, n \in Nat, tls \in BOOLEAN : Reply(v, code, n, tls)
      <4>1. CASE c.verb \in {"EHLO", "EHLO2", "STARTTLS", "AUTH", "RSET"} \cup Simple /\
                 \E n \in LineCounts(c.verb), tls \in IF c.verb = "EHLO" THEN BOOLEAN ELSE {FALSE} : Reply(c.verb, "2xx", n, tls)
        BY <1>2, <4>1, LineCountsType DEF Codes
      <4>2. CASE \E code \in Codes : Reply(c.verb, code, 1, FALSE)
        BY <1>2, <4>2
      <4> QED  BY <2>3, <4>1, <4>2, BadType DEF TakeCommand, Codes
    <3> QED  BY <1>5, <3>1, <3>2
  <2>4. CASE Reply("QUIT", "2xx", 1, FALSE) /\ srv' = srv
    BY <1>1, <1>5, <2>4 DEF Commands, Codes
  <2> QED  BY <1>3, <2>1, <2>2, <2>3, <2>4
<1> QED  BY <1>2, <1>4, <1>6 DEF LinkTypes

LEMMA Empties == \A S : <<>> \in Seq(S)
OBVIOUS

LEMMA TypesInit == Init => Types
<1> SUFFICES ASSUME Init PROVE Types
  OBVIOUS
<1>1. ClientTypes /\ UserTypes /\ BoundTypes
  <2>1. result \in ResultSet
    BY DEF Init, ResultSet
  <2>2. ops \in 0..MaxOps /\ late \in 0..MaxLate /\ faults \in 0..MaxFaults
    BY Bounds DEF Init
  <2> QED  BY <2>1, <2>2 DEF Init, ClientTypes, UserTypes, BoundTypes
<1>2. LinkTypes
  <2>1. Fresh \in SessionSet
    <3>1. 0 \in 0..MaxSends
      BY Bounds
    <3> QED  BY <3>1 DEF Fresh, SessionSet
  <2> QED  BY <2>1, Empties DEF Init, LinkTypes
<1>3. JobTypes
  BY IdleType DEF Init, JobTypes
<1> QED  BY <1>1, <1>2, <1>3 DEF Types

LEMMA TypesJobStep ==
  ASSUME Types, NEW s \in Slots, JobStep(s)
  PROVE  Types'
<1> USE DEF Types
<1>0. s \in Running /\ s \in Slots
  BY DEF JobStep, TokenArrives, CloseConnection, EstablishRefused, Establish, EstablishFails, UpgradeToTLS, HandshakeEnds,
         WriteCommand, ReadGreeting, ReadResponse, ReadTimesOut, ReadFails, StaleReadResumes, AtStep, Waiting
<1>1. /\ job[s] \in JobSet /\ job[s].todo \in Seq(StepsOf(job[s].msg)) /\ job[s].todo # <<>>
      /\ Now(s) \in StepsOf(job[s].msg) /\ Rest(s) \in Seq(StepsOf(job[s].msg)) /\ job[s].msg \in 0..MaxSends
  BY <1>0, JobFacts
<1>2. ASSUME Crash PROVE Types'
  BY <1>2 DEF Crash, client, link, user, ClientTypes, LinkTypes, JobTypes, UserTypes, BoundTypes
<1>3. ASSUME Fail(s), UNCHANGED <<driver, mode, body, overlapped>> PROVE JobTypes' /\ UserTypes'
  BY <1>3, FailTypes
<1>4. ASSUME Proceed(job, s, Rest(s)) \/ Proceed(Rebuilt(s), s, Rest(s)), UNCHANGED <<driver, mode, body>>,
             overlapped' \in BOOLEAN
      PROVE  JobTypes' /\ UserTypes'
  BY <1>0, <1>1, <1>4, GoOnTypes
<1>5. UNCHANGED <<ops, late, strayed, faults>> => BoundTypes'
  BY DEF BoundTypes
<1>6. UNCHANGED client => ClientTypes'
  BY DEF client, ClientTypes
<1>7. UNCHANGED link => LinkTypes'
  BY DEF link, LinkTypes
<1>8. CASE TokenArrives(s)
  <2>1. CASE job' = [job EXCEPT ![s].at = "step"] /\ UNCHANGED <<result, ready, alive, faults>>
    <3>1. JobTypes'
      BY <1>0, <2>1, JobAtTypes
    <3> QED  BY <1>5, <1>6, <1>7, <1>8, <2>1, <3>1 DEF TokenArrives, UserTypes
  <2>2. CASE Fault("token") /\ Fail(s)
    <3>1. BoundTypes'
      BY <1>8, <2>2, FaultTypes DEF TokenArrives
    <3> QED  BY <1>3, <1>6, <1>7, <1>8, <2>2, <3>1 DEF TokenArrives
  <2> QED  BY <1>8, <2>1, <2>2 DEF TokenArrives
<1>9. CASE CloseConnection(s)
  <2>1. CASE Crash
    BY <1>2, <2>1
  <2>2. CASE ~Crash
    <3>1. ClientTypes' /\ LinkTypes'
      BY <1>9, <2>2, Empties DEF CloseConnection, ClientTypes, LinkTypes
    <3>2. JobTypes' /\ UserTypes'
      BY <1>4, <1>9, <2>2 DEF CloseConnection, UserTypes
    <3> QED  BY <1>5, <1>9, <2>2, <3>1, <3>2 DEF CloseConnection
  <2> QED  BY <2>1, <2>2
<1>10. CASE EstablishRefused(s)
  BY <1>3, <1>5, <1>6, <1>7, <1>10 DEF EstablishRefused
<1>11. CASE Establish(s)
  <2>1. ClientTypes'
    BY <1>11 DEF Establish, ClientTypes
  <2>2. LinkTypes'
    <3>1. Fresh \in SessionSet
      <4>1. 0 \in 0..MaxSends
        BY Bounds
      <4> QED  BY <4>1 DEF Fresh, SessionSet
    <3>2. \A code \in {"2xx", "5xx"} : Answer("greeting", code, 1, FALSE) \in AnswerSet
      BY DEF Answer, AnswerSet, Codes
    <3>3. \A a \in AnswerSet : <<a>> \in Seq(AnswerSet)
      OBVIOUS
    <3>4. in' \in Seq(AnswerSet)
      BY <1>11, <3>2, <3>3 DEF Establish
    <3> QED  BY <1>11, <3>1, <3>4, Empties DEF Establish, LinkTypes
  <2>3. JobTypes' /\ UserTypes'
    BY <1>4, <1>11 DEF Establish
  <2>4. BoundTypes'
    BY <1>11 DEF Establish, BoundTypes
  <2> QED  BY <2>1, <2>2, <2>3, <2>4
<1>12. CASE EstablishFails(s)
  <2>1. ClientTypes'
    BY <1>12 DEF EstablishFails, ClientTypes
  <2>2. BoundTypes'
    BY <1>12, FaultTypes DEF EstablishFails
  <2> QED  BY <1>3, <1>7, <1>12, <2>1, <2>2 DEF EstablishFails
<1>13. CASE UpgradeToTLS(s)
  <2>1. ClientTypes'
    BY <1>13 DEF UpgradeToTLS, ClientTypes
  <2>2. JobTypes' /\ UserTypes'
    <3>1. CASE job' = [job EXCEPT ![s].at = "handshake"] /\ UNCHANGED <<result, ready, alive>>
      <4>1. JobTypes'
        BY <1>0, <3>1, JobAtTypes
      <4> QED  BY <1>13, <3>1, <4>1 DEF UpgradeToTLS, UserTypes
    <3>2. CASE Fail(s)
      BY <1>3, <1>13, <3>2 DEF UpgradeToTLS
    <3> QED  BY <1>13, <3>1, <3>2 DEF UpgradeToTLS
  <2> QED  BY <1>5, <1>7, <1>13, <2>1, <2>2 DEF UpgradeToTLS
<1>14. CASE HandshakeEnds(s)
  <2>0. UNCHANGED <<driver, mode, link, body, overlapped, ops, late, strayed>>
    BY <1>14 DEF HandshakeEnds
  <2>1. CASE net = "up" /\ inner' = "secure" /\ conn' = "TlsActive" /\ Proceed(Rebuilt(s), s, Rest(s)) /\ UNCHANGED faults
    <3>1. ClientTypes' /\ LinkTypes' /\ BoundTypes'
      BY <1>5, <1>7, <2>0, <2>1 DEF ClientTypes
    <3>2. JobTypes' /\ UserTypes'
      BY <1>4, <2>0, <2>1 DEF UserTypes
    <3> QED  BY <3>1, <3>2
  <2>2. CASE Fault("tls") /\ Fail(s) /\ UNCHANGED client
    <3>1. BoundTypes'
      BY <2>0, <2>2, FaultTypes
    <3> QED  BY <1>3, <1>6, <1>7, <2>0, <2>2, <3>1
  <2>3. CASE Fail(s) /\ UNCHANGED <<client, faults>>
    BY <1>3, <1>5, <1>6, <1>7, <2>0, <2>3
  <2> QED  BY <1>14, <2>1, <2>2, <2>3 DEF HandshakeEnds
<1>15. CASE WriteCommand(s)
  <2>1. CASE Crash
    BY <1>2, <2>1
  <2>2. CASE ~Crash
    <3>0. UNCHANGED <<driver, mode, client, net, hung, in, srv, delivered, body, overlapped, ops, late, strayed, faults>>
      BY <1>15, <2>2 DEF WriteCommand
    <3>1. Now(s).verb \in Commands \cup {"text"}
      BY <1>15 DEF WriteCommand, AtStep
    <3>2. out' \in Seq(LineSet)
      <4>1. CASE out' = Append(out, [verb |-> Now(s).verb, rcpt |-> Now(s).rcpt, msg |-> job[s].msg])
        <5>1. [verb |-> Now(s).verb, rcpt |-> Now(s).rcpt, msg |-> job[s].msg] \in LineSet
          BY <1>1, <3>1 DEF LineSet, StepsOf, StepSet
        <5> QED  BY <4>1, <5>1, AppendProperties DEF LinkTypes
      <4>2. CASE out' = out
        BY <4>2 DEF LinkTypes
      <4> QED  BY <1>15, <2>2, <4>1, <4>2 DEF WriteCommand
    <3>3. JobTypes' /\ UserTypes'
      <4>1. CASE Proceed(job, s, Rest(s))
        BY <1>4, <3>0, <4>1 DEF UserTypes
      <4>2. CASE Now(s).verb # "text" /\ job' = [job EXCEPT ![s].at = "reply"] /\ UNCHANGED <<result, ready, alive>>
        <5>1. JobTypes'
          BY <1>0, <3>1, <4>2, JobAtTypes
        <5> QED  BY <3>0, <4>2, <5>1 DEF UserTypes
      <4>3. CASE Fail(s)
        BY <1>3, <3>0, <4>3
      <4> QED  BY <1>15, <2>2, <4>1, <4>2, <4>3 DEF WriteCommand
    <3> QED  BY <1>5, <1>6, <3>0, <3>2, <3>3 DEF LinkTypes
  <2> QED  BY <2>1, <2>2
<1>16. CASE ReadGreeting(s)
  <2>1. CASE Crash
    BY <1>2, <2>1
  <2>2. CASE ~Crash
    <3>1. Now(s).verb \in Commands \cup {"greeting"}
      BY <1>16 DEF ReadGreeting, AtStep
    <3>2. job' = [job EXCEPT ![s].at = "reply"] /\ UNCHANGED <<driver, mode, client, link, user, alive, late, strayed, faults>>
      BY <1>16, <2>2 DEF ReadGreeting
    <3>3. JobTypes'
      BY <1>0, <3>1, <3>2, JobAtTypes
    <3> QED  BY <1>5, <1>6, <1>7, <3>2, <3>3 DEF user, UserTypes
  <2> QED  BY <2>1, <2>2
<1>17. CASE ReadResponse(s)
  <2> DEFINE r == Head(in)
             todo == (IF Now(s).verb = "EHLO" THEN Upgrade(r) ELSE <<>>) \o Rest(s)
  <2>1. r \in AnswerSet /\ Tail(in) \in Seq(AnswerSet)
    BY <1>17, HeadTailProperties DEF ReadResponse, LinkTypes
  <2> HIDE DEF r
  <2>2. in' \in Seq(AnswerSet)
    <3>1. in' = (IF WithinLimit(r) THEN <<>> ELSE Unread(r)) \o Tail(in)
      BY <1>17 DEF ReadResponse, r
    <3>2. Unread(r) \in Seq(AnswerSet)
      <4>1. CASE r.lines > MaxLines
        <5>1. r.lines - MaxLines \in Nat
          BY <2>1, <4>1, Bounds DEF AnswerSet
        <5>2. [r EXCEPT !.lines = @ - MaxLines] \in AnswerSet
          BY <2>1, <5>1 DEF AnswerSet
        <5>3. \A a \in AnswerSet : <<a>> \in Seq(AnswerSet)
          OBVIOUS
        <5>4. Unread(r) = <<[r EXCEPT !.lines = @ - MaxLines]>>
          BY <4>1 DEF Unread
        <5> QED  BY <5>2, <5>3, <5>4
      <4>2. CASE ~(r.lines > MaxLines)
        BY <4>2 DEF Unread
      <4> QED  BY <4>1, <4>2
    <3>3. (IF WithinLimit(r) THEN <<>> ELSE Unread(r)) \in Seq(AnswerSet)
      BY <3>2
    <3> QED  BY <2>1, <3>1, <3>3, JoinType
  <2>3. JobTypes' /\ UserTypes'
    <3>0. UNCHANGED <<driver, mode, body, overlapped>>
      BY <1>17 DEF ReadResponse
    <3>1. CASE Proceed(job, s, todo)
      <4>1. (IF Now(s).verb = "EHLO" THEN Upgrade(r) ELSE <<>>) \in Seq(StepsOf(job[s].msg))
        <5>1. Upgrade(r) \in Seq(StepsOf(job[s].msg))
          BY <1>1, <2>1, ConnectType
        <5> QED  BY <5>1, Empties
      <4>2. todo \in Seq(StepsOf(job[s].msg))
        BY <1>1, <4>1, JoinType
      <4> HIDE DEF todo
      <4> QED  BY <1>0, <3>0, <3>1, <4>2, GoOnTypes DEF UserTypes
    <3>2. CASE Fail(s)
      BY <1>3, <3>0, <3>2
    <3> QED  BY <1>17, <3>1, <3>2 DEF ReadResponse, r
  <2>4. BoundTypes'
    <3>1. UNCHANGED <<ops, late, faults>> /\ strayed' = (strayed \/ r.lines > MaxLines)
      BY <1>17 DEF ReadResponse, r
    <3> QED  BY <3>1 DEF BoundTypes
  <2> QED  BY <1>6, <1>17, <2>2, <2>3, <2>4 DEF ReadResponse, LinkTypes
<1>18. CASE ReadTimesOut(s)
  <2>1. BoundTypes'
    <3>1. UNCHANGED <<ops, faults>> /\ strayed' \in {strayed, TRUE}
          /\ (late' = late \/ (late < MaxLate /\ late' = late + 1))
      BY <1>18 DEF ReadTimesOut
    <3>2. late' \in 0..MaxLate
      BY <3>1, Bounds DEF BoundTypes
    <3> QED  BY <3>1, <3>2 DEF BoundTypes
  <2> QED  BY <1>3, <1>6, <1>7, <1>18, <2>1 DEF ReadTimesOut
<1>19. CASE ReadFails(s)
  BY <1>3, <1>5, <1>6, <1>7, <1>19 DEF ReadFails
<1>20. CASE StaleReadResumes(s)
  BY <1>2, <1>3, <1>5, <1>6, <1>7, <1>20 DEF StaleReadResumes
<1> QED  BY <1>8, <1>9, <1>10, <1>11, <1>12, <1>13, <1>14, <1>15, <1>16, <1>17, <1>18, <1>19, <1>20 DEF JobStep

LEMMA TypesStep == Types /\ [Next]_vars => Types'
<1> SUFFICES ASSUME Types, [Next]_vars PROVE Types'
  OBVIOUS
<1> USE DEF Types
<1>1. CASE ClickSend
  <2>1. PICK s \in Slots : Begin(s, "send", DesktopSend, "token", NextMsg)
    BY <1>1 DEF ClickSend
  <2>2. NextMsg \in Msgs /\ NextMsg \in 0..MaxSends
    BY <1>1, NextMsgType DEF ClickSend
  <2>3. DesktopSend \in Seq(StepsOf(NextMsg)) \ {<<>>} /\ "send" \in CliCommands
    BY <2>2, DesktopSendType DEF CliCommands
  <2> QED  BY <2>1, <2>2, <2>3, BeginTypes
<1>2. CASE Type
  <2>1. ASSUME NEW s \in Slots, NEW op \in CliOps \ {"send"}, Begin(s, op, CliScript(op), "step", 0)
        PROVE  Types'
    <3>1. op \in CliCommands /\ 0 \in 0..MaxSends
      BY Bounds, SmtpAssumption
    <3>2. CliScript(op) \in Seq(StepsOf(0)) \ {<<>>}
      BY <3>1, CliScriptType
    <3> QED  BY <2>1, <3>1, <3>2, BeginTypes
  <2>2. ASSUME NEW s \in Slots, NextMsg \in Msgs, Begin(s, "send", CliScript("send"), "step", NextMsg)
        PROVE  Types'
    <3>1. "send" \in CliCommands /\ NextMsg \in 0..MaxSends
      BY <2>2, NextMsgType DEF CliCommands
    <3>2. CliScript("send") \in Seq(StepsOf(NextMsg)) \ {<<>>}
      BY <2>2, <3>1, CliScriptType
    <3> QED  BY <2>2, <3>1, <3>2, BeginTypes
  <2> QED  BY <1>2, <2>1, <2>2 DEF Type
<1>3. CASE RefreshEnables
  <2>1. BoundTypes'
    BY <1>3, FaultTypes DEF RefreshEnables
  <2> QED  BY <1>3, <2>1 DEF RefreshEnables, client, link, ClientTypes, LinkTypes, JobTypes, UserTypes
<1>4. CASE HandlerGivesUp
  <2>1. BoundTypes'
    BY <1>4, FaultTypes DEF HandlerGivesUp
  <2>2. PICK s \in Running : job' = [job EXCEPT ![s].waited = FALSE]
    BY <1>4 DEF HandlerGivesUp
  <2>3. JobTypes'
    <3>1. s \in Slots /\ job[s] \in JobSet
      BY JobFacts
    <3>2. [job[s] EXCEPT !.waited = FALSE] \in JobSet /\ job' = [job EXCEPT ![s] = [job[s] EXCEPT !.waited = FALSE]]
      BY <2>2, <3>1 DEF JobSet
    <3>3. job' \in [Slots -> JobSet] /\ \A t \in Slots : job'[t].at = job[t].at /\ job'[t].todo = job[t].todo
      BY <3>1, <3>2 DEF JobTypes, JobSet
    <3> QED  BY <3>3 DEF JobTypes
  <2> QED  BY <1>4, <2>1, <2>3 DEF HandlerGivesUp, client, link, ClientTypes, LinkTypes, UserTypes
<1>5. CASE \E s \in Slots : JobStep(s)
  BY <1>5, TypesJobStep
<1>6. CASE Serve
  <2>1. LinkTypes'
    BY <1>6, ServeTypes
  <2> QED  BY <1>6, <2>1 DEF Serve, client, user, ClientTypes, JobTypes, UserTypes, BoundTypes
<1>7. CASE Cut
  <2>1. BoundTypes'
    BY <1>7, FaultTypes DEF Cut, user
  <2>2. LinkTypes'
    BY <1>7, Empties DEF Cut, LinkTypes
  <2> QED  BY <1>7, <2>1, <2>2 DEF Cut, client, user, ClientTypes, JobTypes, UserTypes
<1>8. CASE Hang
  <2>1. BoundTypes'
    BY <1>8, FaultTypes DEF Hang, user
  <2>2. LinkTypes'
    BY <1>8 DEF Hang, LinkTypes
  <2> QED  BY <1>8, <2>1, <2>2 DEF Hang, client, user, ClientTypes, JobTypes, UserTypes
<1>9. CASE UNCHANGED vars
  BY <1>9 DEF vars, client, link, user, ClientTypes, LinkTypes, JobTypes, UserTypes, BoundTypes
<1> QED  BY <1>1, <1>2, <1>3, <1>4, <1>5, <1>6, <1>7, <1>8, <1>9 DEF Next

(* The client, the link, the jobs and the user's side keep their types.    *)
THEOREM SmtpTypesTheorem == Spec => []TypeOK
<1>1. Types => TypeOK
  <2> SUFFICES ASSUME Types PROVE TypeOK
    OBVIOUS
  <2>1. ASSUME NEW s \in Slots
        PROVE  /\ job[s].at \in {"token", "step", "reply", "handshake"} /\ job[s].msg \in 0..MaxSends
               /\ {job[s].stale, job[s].waited} \subseteq BOOLEAN /\ (job[s].op = "none") = (job[s].todo = <<>>)
    BY DEF Types, JobTypes, JobSet
  <2>2. \A i \in DOMAIN in : in[i].code \in {"2xx", "3xx", "5xx", "garbled"}
    <3>1. in \in Seq(AnswerSet)
      BY DEF Types, LinkTypes
    <3>2. \A i \in DOMAIN in : in[i] \in AnswerSet
      BY <3>1
    <3> QED  BY <3>2 DEF AnswerSet, Codes
  <2>3. \A i \in DOMAIN out : out[i].verb \in Commands \cup {"text"}
    BY DEF Types, LinkTypes, LineSet
  <2>4. srv.rcpts \subseteq Msgs \X Recipients /\ srv.bodies \subseteq Msgs
    BY DEF Types, LinkTypes, SessionSet
  <2> QED  BY <2>1, <2>2, <2>3, <2>4 DEF TypeOK, Types, ClientTypes, LinkTypes, UserTypes, BoundTypes, ResultSet
<1> QED  BY <1>1, TypesInit, TypesStep, PTL DEF Spec

-----------------------------------------------------------------------------
(* The window's scripts.                                                   *)
LEMMA OpeningShape ==
  ASSUME NEW p \in Openings
  PROVE  /\ p \in Seq(Verbs) /\ Len(p) \in 1..5
         /\ Len(p) > 1 => Tail(p) \in Openings
         /\ p[1] \in {"close", "establish", "upgrade", "greeting", "EHLO", "STARTTLS", "EHLO2"}
         /\ p[1] = "close" => Len(p) > 1 /\ p[2] = "establish"
         /\ p[1] = "establish" => Len(p) > 1 /\ (p[2] = "greeting" \/ (p[2] = "upgrade" /\ Len(p) > 2 /\ p[3] = "greeting"))
         /\ p[1] = "upgrade" => Len(p) > 1 /\ (p[2] = "greeting" \/ p[2] = "EHLO2")
         /\ p[1] = "greeting" => Len(p) > 1 /\ p[2] = "EHLO"
         /\ p[1] = "EHLO" => Len(p) = 1
         /\ p[1] = "STARTTLS" => Len(p) > 2 /\ p[2] = "upgrade" /\ p[3] = "EHLO2"
<1> DEFINE V == Verbs
<1>0. "close" \in V /\ "establish" \in V /\ "upgrade" \in V /\ "greeting" \in V /\ "EHLO" \in V /\ "STARTTLS" \in V /\ "EHLO2" \in V
  BY DEF Verbs, Local, Commands
<1> HIDE DEF V
<1>1. CASE p = <<"close", "establish", "upgrade", "greeting", "EHLO">>
  <2>1. Tail(p) = <<"establish", "upgrade", "greeting", "EHLO">>
    BY <1>1
  <2>2. p \in Seq(V)
    BY <1>0, <1>1
  <2> QED  BY <1>1, <2>1, <2>2 DEF Openings, V
<1>2. CASE p = <<"establish", "upgrade", "greeting", "EHLO">>
  <2>1. Tail(p) = <<"upgrade", "greeting", "EHLO">>
    BY <1>2
  <2>2. p \in Seq(V)
    BY <1>0, <1>2
  <2> QED  BY <1>2, <2>1, <2>2 DEF Openings, V
<1>3. CASE p = <<"upgrade", "greeting", "EHLO">>
  <2>1. Tail(p) = <<"greeting", "EHLO">>
    BY <1>3
  <2>2. p \in Seq(V)
    BY <1>0, <1>3
  <2> QED  BY <1>3, <2>1, <2>2 DEF Openings, V
<1>4. CASE p = <<"close", "establish", "greeting", "EHLO">>
  <2>1. Tail(p) = <<"establish", "greeting", "EHLO">>
    BY <1>4
  <2>2. p \in Seq(V)
    BY <1>0, <1>4
  <2> QED  BY <1>4, <2>1, <2>2 DEF Openings, V
<1>5. CASE p = <<"establish", "greeting", "EHLO">>
  <2>1. Tail(p) = <<"greeting", "EHLO">>
    BY <1>5
  <2>2. p \in Seq(V)
    BY <1>0, <1>5
  <2> QED  BY <1>5, <2>1, <2>2 DEF Openings, V
<1>6. CASE p = <<"greeting", "EHLO">>
  <2>1. Tail(p) = <<"EHLO">>
    BY <1>6
  <2>2. p \in Seq(V)
    BY <1>0, <1>6
  <2> QED  BY <1>6, <2>1, <2>2 DEF Openings, V
<1>7. CASE p = <<"EHLO">>
  <2>2. p \in Seq(V)
    BY <1>0, <1>7
  <2> QED  BY <1>7, <2>2 DEF V
<1>8. CASE p = <<"STARTTLS", "upgrade", "EHLO2">>
  <2>1. Tail(p) = <<"upgrade", "EHLO2">>
    BY <1>8
  <2>2. p \in Seq(V)
    BY <1>0, <1>8
  <2> QED  BY <1>8, <2>1, <2>2 DEF Openings, V
<1>9. CASE p = <<"upgrade", "EHLO2">>
  <2>1. Tail(p) = <<"EHLO2">>
    BY <1>9
  <2>2. p \in Seq(V)
    BY <1>0, <1>9
  <2> QED  BY <1>9, <2>1, <2>2 DEF Openings, V
<1>10. CASE p = <<"EHLO2">>
  <2>2. p \in Seq(V)
    BY <1>0, <1>10
  <2> QED  BY <1>10, <2>2 DEF V
<1> QED  BY <1>1, <1>2, <1>3, <1>4, <1>5, <1>6, <1>7, <1>8, <1>9, <1>10 DEF Openings

LEMMA FromShape ==
  ASSUME NEW m \in Msgs, NEW k \in 1..Length
  PROVE  /\ From(k) \in Seq(StepSet) \ {<<>>} /\ From(k)[1] = AfterHello[k] /\ Head(From(k)) = AfterHello[k]
         /\ Len(From(k)) = Length + 1 - k /\ Position(From(k)) = k
         /\ Tail(From(k)) = IF k = Length THEN <<>> ELSE From(k + 1)
<1>1. AfterHello \in Seq(StepSet) /\ Len(AfterHello) = Length /\ Length \in Nat
  <2>1. AfterHello \in Seq(StepsOf(m)) /\ Len(AfterHello) = Length
    BY AfterHelloSteps
  <2>2. StepsOf(m) \subseteq StepSet
    BY DEF StepsOf
  <2> QED  BY <2>1, <2>2
<1>2. From(k) \in Seq(StepSet) /\ Len(From(k)) = Length - k + 1 /\ From(k)[1] = AfterHello[k]
  <2>1. \A i \in k..Length : AfterHello[i] \in StepSet
    BY <1>1
  <2> HIDE DEF Length
  <2>2. /\ SubSeq(AfterHello, k, Length) \in Seq(StepSet) /\ Len(SubSeq(AfterHello, k, Length)) = Length - k + 1
        /\ \A i \in 1..Length - k + 1 : SubSeq(AfterHello, k, Length)[i] = AfterHello[k + i - 1]
    BY <1>1, <2>1, SubSeqProperties
  <2> QED  BY <1>1, <2>2 DEF From
<1>3. Head(From(k)) = AfterHello[k] /\ Tail(From(k)) = From(k + 1)
  BY <1>1, HeadTailOfSubSeq DEF From
<1>4. From(k) # <<>>
  BY <1>1, <1>2
<1>5. Tail(From(Length)) = <<>>
  <2>1. SubSeq(AfterHello, Length + 1, Length) = <<>>
    BY <1>1
  <2>2. 1..Length # {} => Length \in 1..Length
    BY <1>1
  <2>3. Tail(SubSeq(AfterHello, Length, Length)) = SubSeq(AfterHello, Length + 1, Length)
    BY <1>1, <2>2, HeadTailOfSubSeq
  <2> QED  BY <2>1, <2>3 DEF From
<1>6. Position(From(k)) = k
  BY <1>1, <1>2 DEF Position
<1> QED  BY <1>1, <1>2, <1>3, <1>4, <1>5, <1>6

LEMMA JoinShape ==
  ASSUME NEW S, NEW s \in Seq(S), NEW t \in Seq(S), s # <<>>
  PROVE  Head(s \o t) = Head(s) /\ Tail(s \o t) = Tail(s) \o t /\ s \o t # <<>>
<1>1. Head(s \o t) = Head(s) /\ Tail(s \o t) = Tail(s) \o t
  OBVIOUS
<1>2. s \o t # <<>>
  OBVIOUS
<1> QED  BY <1>1, <1>2

LEMMA FromOne == ASSUME NEW m \in Msgs PROVE From(1) = AfterHello /\ Length \in Nat /\ Length >= 6 /\ RcptCount \in Nat \ {0}
<1>1. AfterHello \in Seq(StepsOf(m)) /\ Len(AfterHello) = Length /\ RcptCount \in Nat \ {0}
  BY AfterHelloSteps
<1>2. Length \in Nat /\ Length >= 6
  BY <1>1 DEF Length
<1>3. SubSeq(AfterHello, 1, Len(AfterHello)) = AfterHello
  BY <1>1
<1> QED  BY <1>1, <1>2, <1>3 DEF From

LEMMA OpenedShape ==
  ASSUME NEW m \in Msgs, NEW p \in Openings
  PROVE  LET todo == Opening(p) \o AfterHello IN
         /\ todo \in Seq(StepSet) \ {<<>>} /\ Head(todo) = Plain(p[1])
         /\ \A i \in 1..Len(p) : todo[i] = Plain(p[i])
         /\ Position(todo) = 1 - Len(p)
         /\ Tail(todo) = IF Len(p) = 1 THEN From(1) ELSE Opening(Tail(p)) \o AfterHello
<1> DEFINE a == Opening(p)
           t == AfterHello
<1>1. p \in Seq(Verbs) /\ Len(p) \in 1..5 /\ p # <<>>
  <2>1. p \in Seq(Verbs) /\ Len(p) \in 1..5
    BY OpeningShape
  <2> QED  BY <2>1
<1>2. a \in Seq(StepSet) /\ Len(a) = Len(p) /\ a # <<>> /\ \A i \in 1..Len(p) : a[i] = Plain(p[i])
  <2>1. \A i \in 1..Len(p) : Plain(p[i]) \in StepSet
    BY <1>1 DEF Plain, StepSet
  <2>2. a \in Seq(StepSet) /\ Len(a) = Len(p) /\ \A i \in 1..Len(p) : a[i] = Plain(p[i])
    BY <1>1, <2>1 DEF Opening
  <2> QED  BY <1>1, <2>2
<1>3. t \in Seq(StepSet) /\ Len(t) = Length /\ Length \in Nat
  <2>1. AfterHello \in Seq(StepsOf(m)) /\ Len(AfterHello) = Length
    BY AfterHelloSteps
  <2>2. StepsOf(m) \subseteq StepSet
    BY DEF StepsOf
  <2> QED  BY <2>1, <2>2, FromOne
<1>4. Tail(a) = Opening(Tail(p))
  <2>1. /\ Tail(a) \in Seq(StepSet) /\ Len(Tail(a)) = Len(p) - 1
        /\ \A i \in 1..Len(p) - 1 : Tail(a)[i] = a[i + 1]
    BY <1>1, <1>2, HeadTailProperties
  <2>2. /\ Tail(p) \in Seq(Verbs) /\ Len(Tail(p)) = Len(p) - 1
        /\ \A i \in 1..Len(p) - 1 : Tail(p)[i] = p[i + 1]
    BY <1>1, HeadTailProperties
  <2>3. Opening(Tail(p)) \in Seq(StepSet) /\ Len(Opening(Tail(p))) = Len(p) - 1
        /\ \A i \in 1..Len(p) - 1 : Opening(Tail(p))[i] = Plain(p[i + 1])
    <3>1. \A i \in 1..Len(p) - 1 : Plain(Tail(p)[i]) \in StepSet
      BY <1>1, <2>2 DEF Plain, StepSet
    <3> QED  BY <1>1, <2>2, <3>1 DEF Opening
  <2>4. \A i \in 1..Len(p) - 1 : Tail(a)[i] = Opening(Tail(p))[i]
    BY <1>1, <1>2, <2>1, <2>3
  <2> HIDE DEF a
  <2> QED  BY <1>1, <2>1, <2>3, <2>4, SeqEqual
<1>5. Head(a) = Plain(p[1])
  BY <1>1, <1>2
<1> HIDE DEF a, t
<1>6. Head(a \o t) = Head(a) /\ Tail(a \o t) = Tail(a) \o t /\ a \o t # <<>>
  BY <1>2, <1>3, JoinShape
<1>7. a \o t \in Seq(StepSet)
  BY <1>2, <1>3, JoinType
<1>8. Len(a \o t) = Len(a) + Len(t)
  BY <1>2, <1>3
<1>9. \A i \in 1..Len(a) : (a \o t)[i] = a[i]
  BY <1>2, <1>3
<1>10. Position(a \o t) = 1 - Len(p)
  BY <1>1, <1>2, <1>3, <1>8 DEF Position
<1>11. ASSUME Len(p) = 1 PROVE Tail(a) \o t = From(1)
  <2>1. Tail(a) = <<>>
    <3>1. Tail(a) \in Seq(StepSet) /\ Len(Tail(a)) = Len(a) - 1
      BY <1>2, HeadTailProperties
    <3>2. Len(Tail(a)) = 0
      BY <1>2, <1>11, <3>1
    <3> QED  BY <3>1, <3>2, EmptySeq
  <2>2. <<>> \o t = t
    BY <1>3, ConcatEmptySeq
  <2> QED  BY <2>1, <2>2, FromOne DEF t
<1> QED  BY <1>2, <1>4, <1>5, <1>6, <1>7, <1>9, <1>10, <1>11 DEF a, t

Opens == {"close", "establish", "upgrade", "greeting", "EHLO", "STARTTLS", "EHLO2"}

LEMMA ScriptCases ==
  ASSUME NEW m \in Msgs, NEW todo \in Scripts
  PROVE  /\ todo \in Seq(StepSet) \ {<<>>} /\ Head(todo) = todo[1] /\ Len(todo) \in Nat
         /\ \/ \E p \in Openings : /\ todo = Opening(p) \o AfterHello /\ Position(todo) = 1 - Len(p)
                                   /\ Head(todo) = Plain(p[1]) /\ p[1] \in Opens /\ Len(p) \in 1..5
                                   /\ Tail(todo) \in Scripts /\ Position(Tail(todo)) = Position(todo) + 1
            \/ \E k \in 1..Length : /\ todo = From(k) /\ Position(todo) = k /\ Head(todo) = AfterHello[k]
                                    /\ Tail(todo) = IF k = Length THEN <<>> ELSE From(k + 1)
<1>0. Length \in Nat /\ Length >= 6
  BY FromOne
<1>1. ASSUME NEW p \in Openings, todo = Opening(p) \o AfterHello
      PROVE  /\ Head(todo) = Plain(p[1]) /\ p[1] \in Opens /\ Position(todo) = 1 - Len(p) /\ Len(p) \in 1..5
             /\ todo \in Seq(StepSet) \ {<<>>} /\ Tail(todo) \in Scripts /\ Position(Tail(todo)) = Position(todo) + 1
  <2>1. /\ todo \in Seq(StepSet) \ {<<>>} /\ Head(todo) = Plain(p[1]) /\ Position(todo) = 1 - Len(p)
        /\ Tail(todo) = IF Len(p) = 1 THEN From(1) ELSE Opening(Tail(p)) \o AfterHello
    BY <1>1, OpenedShape
  <2>2. p \in Seq(Verbs) /\ Len(p) \in 1..5 /\ p[1] \in Opens /\ (Len(p) > 1 => Tail(p) \in Openings)
    BY OpeningShape DEF Opens
  <2>3. CASE Len(p) = 1
    <3>1. Position(From(1)) = 1
      BY <1>0, FromShape
    <3>2. From(1) \in Scripts
      BY <1>0 DEF Scripts
    <3>3. Tail(todo) = From(1) /\ Position(todo) = 0
      BY <2>1, <2>3
    <3>4. Tail(todo) \in Scripts /\ Position(Tail(todo)) = Position(todo) + 1
      <4>1. Position(Tail(todo)) = 1 /\ Tail(todo) \in Scripts
        BY <3>1, <3>2, <3>3, Zenon
      <4>2. Position(todo) + 1 = 1
        BY <3>3
      <4> QED  BY <4>1, <4>2, Zenon
    <3> QED  BY <2>1, <2>2, <3>4
  <2>4. CASE Len(p) # 1
    <3>1. Tail(p) \in Openings
      BY <2>2, <2>4
    <3>2. Position(Opening(Tail(p)) \o AfterHello) = 1 - Len(Tail(p))
      BY <3>1, OpenedShape
    <3>3. Len(Tail(p)) = Len(p) - 1
      <4>1. p # <<>>
        BY <2>2
      <4> QED  BY <2>2, <4>1, HeadTailProperties
    <3>4. Opening(Tail(p)) \o AfterHello \in Scripts
      BY <3>1 DEF Scripts
    <3>5. Tail(todo) = Opening(Tail(p)) \o AfterHello
      BY <2>1, <2>4
    <3>6. 1 - Len(Tail(p)) = (1 - Len(p)) + 1
      BY <2>2, <3>3
    <3>7. Tail(todo) \in Scripts /\ Position(Tail(todo)) = Position(todo) + 1
      BY <2>1, <3>2, <3>4, <3>5, <3>6
    <3> QED  BY <2>1, <2>2, <3>7
  <2> QED  BY <2>3, <2>4
<1>2. ASSUME NEW k \in 1..Length, todo = From(k)
      PROVE  /\ Position(todo) = k /\ Head(todo) = AfterHello[k] /\ todo \in Seq(StepSet) \ {<<>>}
             /\ Tail(todo) = IF k = Length THEN <<>> ELSE From(k + 1)
  BY <1>2, FromShape
<1>3. (\E p \in Openings : todo = Opening(p) \o AfterHello) \/ (\E k \in 1..Length : todo = From(k))
  BY DEF Scripts
<1>4. todo \in Seq(StepSet) \ {<<>>}
  BY <1>1, <1>2, <1>3
<1>5. Head(todo) = todo[1] /\ Len(todo) \in Nat
  BY <1>4
<1> QED  BY <1>1, <1>2, <1>3, <1>4, <1>5

(* The step at each position of a script from AUTH on.                     *)
LEMMA LaterSteps ==
  ASSUME NEW m \in Msgs, NEW k \in 1..Length
  PROVE  \/ k = 1 /\ AfterHello[k] = Plain("AUTH")
         \/ k = 2 /\ AfterHello[k] = Plain("MAIL")
         \/ k \in 3..RcptCount + 2 /\ AfterHello[k] = [verb |-> "RCPT", rcpt |-> Envelope[k - 2]]
         \/ k = RcptCount + 3 /\ AfterHello[k] = Plain("DATA")
         \/ k = RcptCount + 4 /\ AfterHello[k] = Plain("text")
         \/ k = Length /\ AfterHello[k] = Plain("DOT")
<1>1. /\ RcptCount \in Nat \ {0} /\ AfterHello[1] = Plain("AUTH") /\ AfterHello[2] = Plain("MAIL")
      /\ AfterHello[RcptCount + 3] = Plain("DATA") /\ AfterHello[RcptCount + 4] = Plain("text")
      /\ AfterHello[RcptCount + 5] = Plain("DOT")
  BY AfterHelloSteps
<1>2. ASSUME k \in 3..RcptCount + 2 PROVE AfterHello[k] = [verb |-> "RCPT", rcpt |-> Envelope[k - 2]]
  <2>1. k - 2 \in 1..RcptCount /\ (k - 2) + 2 = k
    BY <1>1, <1>2
  <2>2. \A i \in 1..RcptCount : AfterHello[i + 2] = [verb |-> "RCPT", rcpt |-> Envelope[i]]
    BY AfterHelloSteps
  <2> QED  BY <2>1, <2>2
<1>3. k = 1 \/ k = 2 \/ k \in 3..RcptCount + 2 \/ k = RcptCount + 3 \/ k = RcptCount + 4 \/ k = Length
  BY <1>1 DEF Length
<1>4. Length = RcptCount + 5
  BY DEF Length
<1> QED  BY <1>1, <1>2, <1>3, <1>4

LEMMA ScriptStep ==
  ASSUME NEW m \in Msgs, NEW todo \in Scripts
  PROVE  /\ Position(todo) \in Int /\ Position(todo) <= Length /\ Length \in Nat /\ Length >= 6
         /\ Position(todo) <= 0 => Head(todo).verb \in Opens /\ Head(todo).rcpt = "none"
         /\ Position(todo) >= 1 => /\ Position(todo) \in 1..Length
                                   /\ Head(todo) = AfterHello[Position(todo)] /\ Head(todo).verb \notin Opens
         /\ Position(todo) < Length => Tail(todo) \in Scripts /\ Position(Tail(todo)) = Position(todo) + 1
         /\ Position(todo) = Length => Tail(todo) = <<>>
<1>0. Length \in Nat /\ Length >= 6
  BY FromOne
<1>1. ASSUME NEW p \in Openings, Position(todo) = 1 - Len(p), Head(todo) = Plain(p[1]), p[1] \in Opens,
             Len(p) \in 1..5, Tail(todo) \in Scripts, Position(Tail(todo)) = Position(todo) + 1
      PROVE  /\ Position(todo) \in Int /\ Position(todo) <= 0
             /\ Head(todo).verb \in Opens /\ Head(todo).rcpt = "none"
  BY <1>1 DEF Plain
<1>2. ASSUME NEW k \in 1..Length, Position(todo) = k, Head(todo) = AfterHello[k], todo = From(k),
             Tail(todo) = IF k = Length THEN <<>> ELSE From(k + 1)
      PROVE  /\ Position(todo) \in 1..Length /\ Head(todo) = AfterHello[Position(todo)] /\ Head(todo).verb \notin Opens
             /\ k # Length => Tail(todo) \in Scripts /\ Position(Tail(todo)) = k + 1
             /\ k = Length => Tail(todo) = <<>>
  <2>1. AfterHello[k].verb \notin Opens
    <3>1. AfterHello[k] \in {Plain("AUTH"), Plain("MAIL"), Plain("DATA"), Plain("text"), Plain("DOT")}
          \/ AfterHello[k] = [verb |-> "RCPT", rcpt |-> Envelope[k - 2]]
      BY LaterSteps
    <3> QED  BY <3>1 DEF Plain, Opens
  <2>2. ASSUME k # Length PROVE From(k + 1) \in Scripts /\ Position(From(k + 1)) = k + 1
    <3>1. k + 1 \in 1..Length
      BY <1>0, <2>2
    <3>2. From(k + 1) \in Scripts
      BY <3>1 DEF Scripts
    <3> QED  BY <3>1, <3>2, FromShape
  <2> QED  BY <1>2, <2>1, <2>2
<1>3. CASE \E p \in Openings : /\ Position(todo) = 1 - Len(p) /\ Head(todo) = Plain(p[1]) /\ p[1] \in Opens
                               /\ Len(p) \in 1..5 /\ Tail(todo) \in Scripts /\ Position(Tail(todo)) = Position(todo) + 1
  <2>1. /\ Position(todo) \in Int /\ Position(todo) <= 0 /\ Head(todo).verb \in Opens /\ Head(todo).rcpt = "none"
        /\ Tail(todo) \in Scripts /\ Position(Tail(todo)) = Position(todo) + 1
    BY <1>1, <1>3
  <2> QED  BY <1>0, <2>1
<1>4. CASE \E k \in 1..Length : /\ todo = From(k) /\ Position(todo) = k /\ Head(todo) = AfterHello[k]
                                /\ Tail(todo) = IF k = Length THEN <<>> ELSE From(k + 1)
  <2>1. PICK k \in 1..Length : /\ todo = From(k) /\ Position(todo) = k /\ Head(todo) = AfterHello[k]
                               /\ Tail(todo) = IF k = Length THEN <<>> ELSE From(k + 1)
    BY <1>4
  <2>2. /\ Position(todo) \in 1..Length /\ Head(todo) = AfterHello[Position(todo)] /\ Head(todo).verb \notin Opens
        /\ k # Length => Tail(todo) \in Scripts /\ Position(Tail(todo)) = k + 1
        /\ k = Length => Tail(todo) = <<>>
    BY <1>2, <2>1
  <2> QED  BY <1>0, <2>1, <2>2
<1> QED  BY <1>3, <1>4, ScriptCases

LEMMA PlainVerb == \A v : Plain(v).verb = v /\ Plain(v).rcpt = "none"
BY DEF Plain

(* What the first steps of a script leave for the next one.                *)
LEMMA OpeningSteps ==
  ASSUME NEW m \in Msgs, NEW todo \in Scripts
  PROVE  /\ Head(todo).verb = "close" => Head(Tail(todo)).verb = "establish"
         /\ Head(todo).verb = "establish" => Greets(Tail(todo)) /\ ~Unconnected(Head(Tail(todo)).verb)
         /\ Head(todo).verb = "upgrade" => Greets(Tail(todo)) = Greets(todo) /\ ~Unconnected(Head(Tail(todo)).verb)
         /\ Head(todo).verb \in {"greeting", "STARTTLS"} => ~Greets(Tail(todo)) /\ ~Unconnected(Head(Tail(todo)).verb)
         /\ Head(todo).verb \in {"close", "establish"} => Position(todo) <= -2
         /\ Head(todo).verb \in {"upgrade", "greeting", "STARTTLS"} => Position(todo) <= -1
         /\ Head(todo).verb = "EHLO" => Position(todo) = 0 /\ Tail(todo) = From(1)
         /\ Greets(todo) => Head(todo).verb \in {"upgrade", "greeting"}
<1>1. /\ todo \in Seq(StepSet) \ {<<>>} /\ Head(todo) = todo[1] /\ Len(todo) \in Nat
      /\ \/ \E p \in Openings : todo = Opening(p) \o AfterHello
         \/ \E k \in 1..Length : todo = From(k) /\ Head(todo) = AfterHello[k]
  BY ScriptCases
<1>2. Greets(todo) => Head(todo).verb \in {"upgrade", "greeting"}
  BY <1>1 DEF Greets
<1>3. ASSUME NEW p \in Openings, todo = Opening(p) \o AfterHello
      PROVE  /\ Head(todo).verb = p[1] /\ Position(todo) = 1 - Len(p)
             /\ \A i \in 1..Len(p) : todo[i].verb = p[i]
             /\ Len(p) > 1 => /\ Tail(todo) \in Scripts /\ Head(Tail(todo)) = Tail(todo)[1] /\ Tail(todo)[1].verb = p[2]
                              /\ Len(p) > 2 => Tail(todo)[2].verb = p[3]
             /\ Len(p) = 1 => Tail(todo) = From(1)
  <2>1. /\ todo \in Seq(StepSet) \ {<<>>} /\ Head(todo) = Plain(p[1]) /\ Position(todo) = 1 - Len(p)
        /\ \A i \in 1..Len(p) : todo[i] = Plain(p[i])
        /\ Tail(todo) = IF Len(p) = 1 THEN From(1) ELSE Opening(Tail(p)) \o AfterHello
    BY <1>3, OpenedShape
  <2>2. p \in Seq(Verbs) /\ Len(p) \in 1..5 /\ (Len(p) > 1 => Tail(p) \in Openings)
    BY OpeningShape
  <2>3. Head(todo).verb = p[1] /\ \A i \in 1..Len(p) : todo[i].verb = p[i]
    BY <2>1, PlainVerb
  <2>4. ASSUME Len(p) > 1
        PROVE  /\ Tail(todo) \in Scripts /\ Head(Tail(todo)) = Tail(todo)[1] /\ Tail(todo)[1].verb = p[2]
               /\ Len(p) > 2 => Tail(todo)[2].verb = p[3]
    <3> DEFINE q == Tail(p)
               rest == Tail(todo)
    <3>1. q \in Openings /\ rest = Opening(q) \o AfterHello
      BY <2>1, <2>2, <2>4
    <3>2. p # <<>>
      BY <2>2
    <3>3. q \in Seq(Verbs) /\ Len(q) = Len(p) - 1 /\ \A i \in 1..Len(q) : q[i] = p[i + 1]
      BY <2>2, <3>2, HeadTailProperties
    <3>4. q[1] = p[2] /\ (Len(p) > 2 => q[2] = p[3] /\ Len(q) > 1)
      BY <2>2, <2>4, <3>3
    <3> HIDE DEF q, rest
    <3>5. rest \in Seq(StepSet) \ {<<>>} /\ \A i \in 1..Len(q) : rest[i] = Plain(q[i])
      BY <3>1, OpenedShape
    <3>6. Len(q) >= 1 /\ (Len(p) > 2 => Len(q) >= 2) /\ Len(q) \in Nat
      BY <2>2, <2>4, <3>3
    <3>7. rest[1] = Plain(q[1]) /\ (Len(p) > 2 => rest[2] = Plain(q[2]))
      BY <3>5, <3>6
    <3>8. rest \in Scripts /\ Head(rest) = rest[1]
      <4>1. rest \in Scripts
        BY <3>1 DEF Scripts
      <4>2. Head(rest) = rest[1]
        BY <3>5
      <4> QED  BY <4>1, <4>2
    <3>9. rest[1].verb = p[2] /\ (Len(p) > 2 => rest[2].verb = p[3])
      BY <3>4, <3>7, PlainVerb
    <3> QED  BY <3>8, <3>9 DEF rest
  <2> QED  BY <2>1, <2>3, <2>4
<1>4. CASE \E p \in Openings : todo = Opening(p) \o AfterHello
  <2>1. PICK p \in Openings : todo = Opening(p) \o AfterHello
    BY <1>4
  <2>2. /\ Head(todo).verb = p[1] /\ Position(todo) = 1 - Len(p)
        /\ \A i \in 1..Len(p) : todo[i].verb = p[i]
        /\ Len(p) > 1 => /\ Tail(todo) \in Scripts /\ Head(Tail(todo)) = Tail(todo)[1] /\ Tail(todo)[1].verb = p[2]
                         /\ Len(p) > 2 => Tail(todo)[2].verb = p[3]
        /\ Len(p) = 1 => Tail(todo) = From(1)
    BY <1>3, <2>1
  <2>3. /\ Len(p) \in 1..5
        /\ p[1] \in {"close", "establish", "upgrade", "greeting", "EHLO", "STARTTLS", "EHLO2"}
        /\ p[1] = "close" => Len(p) > 1 /\ p[2] = "establish"
        /\ p[1] = "establish" => Len(p) > 1 /\ (p[2] = "greeting" \/ (p[2] = "upgrade" /\ Len(p) > 2 /\ p[3] = "greeting"))
        /\ p[1] = "upgrade" => Len(p) > 1 /\ (p[2] = "greeting" \/ p[2] = "EHLO2")
        /\ p[1] = "greeting" => Len(p) > 1 /\ p[2] = "EHLO"
        /\ p[1] = "EHLO" => Len(p) = 1
        /\ p[1] = "STARTTLS" => Len(p) > 2 /\ p[2] = "upgrade" /\ p[3] = "EHLO2"
    BY OpeningShape
  <2>4. p[1] \in {"close", "establish"} => Len(p) > 2
    BY OpeningShape DEF Openings
  <2> DEFINE rest == Tail(todo)
  <2>5. Greets(todo) = (p[1] = "greeting" \/ (p[1] = "upgrade" /\ p[2] = "greeting"))
    <3>1. todo[1].verb = p[1] /\ (p[1] = "upgrade" => todo[2].verb = p[2])
      BY <2>2, <2>3
    <3> QED  BY <3>1 DEF Greets
  <2>6. Len(p) > 1 => Head(rest).verb = p[2] /\ rest[1].verb = p[2] /\ (Len(p) > 2 => rest[2].verb = p[3])
    BY <2>2
  <2>7. Head(todo).verb = p[1] /\ Position(todo) = 1 - Len(p)
    BY <2>2
  <2>8. Len(p) = 1 => rest = From(1)
    BY <2>2
  <2> HIDE DEF rest
  <2>9. p[1] = "close" => Head(rest).verb = "establish"
    BY <2>3, <2>6
  <2>10. p[1] = "establish" => Greets(rest) /\ ~Unconnected(Head(rest).verb)
    BY <2>3, <2>6 DEF Greets, Unconnected
  <2>11. p[1] = "upgrade" => Greets(rest) = Greets(todo) /\ ~Unconnected(Head(rest).verb)
    BY <2>3, <2>5, <2>6 DEF Greets, Unconnected
  <2>12. p[1] \in {"greeting", "STARTTLS"} => ~Greets(rest) /\ ~Unconnected(Head(rest).verb)
    BY <2>3, <2>6 DEF Greets, Unconnected
  <2>13. p[1] \in {"close", "establish"} => Position(todo) <= -2
    BY <2>3, <2>4, <2>7
  <2>14. p[1] \in {"upgrade", "greeting", "STARTTLS"} => Position(todo) <= -1
    BY <2>3, <2>7
  <2>15. p[1] = "EHLO" => Position(todo) = 0 /\ rest = From(1)
    BY <2>3, <2>7, <2>8
  <2> QED  BY <1>2, <2>7, <2>9, <2>10, <2>11, <2>12, <2>13, <2>14, <2>15 DEF rest
<1>5. CASE \E k \in 1..Length : todo = From(k) /\ Head(todo) = AfterHello[k]
  <2>1. Head(todo).verb \notin Opens
    <3>1. PICK k \in 1..Length : todo = From(k) /\ Head(todo) = AfterHello[k]
      BY <1>5
    <3>2. Position(todo) = k /\ k >= 1
      BY <3>1, FromShape
    <3> QED  BY <3>1, <3>2, ScriptStep
  <2> QED  BY <1>2, <2>1 DEF Opens
<1> QED  BY <1>1, <1>4, <1>5

(* The answer to EHLO puts the STARTTLS branch before the rest, or nothing.*)
LEMMA UpgradeScripts ==
  ASSUME NEW m \in Msgs, NEW r \in AnswerSet
  PROVE  LET todo == Upgrade(r) \o From(1) IN
         /\ todo \in Scripts /\ Position(todo) <= 1 /\ ~Greets(todo) /\ ~Unconnected(Head(todo).verb) /\ todo # <<>>
<1> DEFINE p == <<"STARTTLS", "upgrade", "EHLO2">>
           u == <<Plain("STARTTLS"), Plain("upgrade"), Plain("EHLO2")>>
<1>0. From(1) = AfterHello /\ From(1) \in Seq(StepSet) \ {<<>>} /\ Position(From(1)) = 1 /\ From(1) \in Scripts /\ 1 \in 1..Length
  <2>1. 1 \in 1..Length
    BY FromOne
  <2>2. From(1) \in Scripts
    BY <2>1 DEF Scripts
  <2> QED  BY <2>1, <2>2, FromOne, FromShape
<1>1. CASE Upgrade(r) = u
  <2>1. p \in Openings
    BY DEF Openings
  <2>2. Opening(p) = u
    <3>1. \A v \in Verbs : Plain(v) \in StepSet
      BY DEF Plain, StepSet
    <3>2. "STARTTLS" \in Verbs /\ "upgrade" \in Verbs /\ "EHLO2" \in Verbs
      BY DEF Verbs, Local, Commands
    <3>3. Plain("STARTTLS") \in StepSet /\ Plain("upgrade") \in StepSet /\ Plain("EHLO2") \in StepSet
      BY <3>1, <3>2
    <3>4. u \in Seq(StepSet) /\ Len(u) = 3 /\ u[1] = Plain("STARTTLS") /\ u[2] = Plain("upgrade") /\ u[3] = Plain("EHLO2")
      BY <3>3
    <3>5. Len(p) = 3 /\ p[1] = "STARTTLS" /\ p[2] = "upgrade" /\ p[3] = "EHLO2"
      OBVIOUS
    <3> HIDE DEF p, u
    <3>6. Opening(p) = [i \in 1..3 |-> Plain(p[i])]
      BY <3>5 DEF Opening
    <3>7. Opening(p) \in Seq(StepSet) /\ Len(Opening(p)) = 3 /\ \A i \in 1..3 : Opening(p)[i] = u[i]
      <4>1. \A i \in 1..3 : Plain(p[i]) \in StepSet
        BY <3>3, <3>5
      <4>2. Opening(p) \in Seq(StepSet) /\ Len(Opening(p)) = 3
        BY <3>6, <4>1
      <4>3. \A i \in 1..3 : Opening(p)[i] = u[i]
        BY <3>4, <3>5, <3>6
      <4> QED  BY <4>2, <4>3
    <3> QED  BY <3>4, <3>7, SeqEqual
  <2> DEFINE todo == Opening(p) \o AfterHello
  <2>3. Upgrade(r) \o From(1) = todo
    BY <1>0, <1>1, <2>2
  <2>4. todo \in Scripts
    BY <2>1 DEF Scripts
  <2> HIDE DEF u
  <2>5. /\ todo \in Seq(StepSet) \ {<<>>} /\ Head(todo) = Plain(p[1]) /\ Position(todo) = 1 - Len(p)
    BY <2>1, OpenedShape
  <2>6. Len(p) = 3 /\ p[1] = "STARTTLS"
    OBVIOUS
  <2> HIDE DEF p, todo
  <2>7. Position(todo) <= 1 /\ Head(todo).verb = "STARTTLS"
    BY <2>5, <2>6 DEF Plain
  <2>8. ~Greets(todo)
    BY <2>4, <2>7, OpeningSteps
  <2> QED  BY <2>3, <2>4, <2>5, <2>7, <2>8 DEF Unconnected
<1>2. CASE Upgrade(r) = <<>>
  <2>1. Upgrade(r) \o From(1) = From(1)
    BY <1>0, <1>2, ConcatEmptySeq
  <2>2. Head(From(1)).verb \notin Opens
    BY <1>0, ScriptStep
  <2>3. ~Greets(From(1))
    BY <1>0, <2>2, OpeningSteps DEF Opens
  <2>4. ~Unconnected(Head(From(1)).verb)
    BY <2>2 DEF Opens, Unconnected
  <2>5. Position(From(1)) <= 1
    BY <1>0
  <2> QED  BY <1>0, <2>1, <2>3, <2>4, <2>5, Zenon
<1> QED  BY <1>1, <1>2 DEF Upgrade

LEMMA OpeningTuple ==
  ASSUME NEW p \in Openings, NEW t \in Seq(StepSet), Len(t) = Len(p), \A i \in 1..Len(p) : t[i] = Plain(p[i])
  PROVE  Opening(p) = t
<1>1. p \in Seq(Verbs) /\ Len(p) \in 1..5
  BY OpeningShape
<1>2. \A i \in 1..Len(p) : Plain(p[i]) \in StepSet
  BY <1>1 DEF Plain, StepSet
<1>3. Opening(p) \in Seq(StepSet) /\ Len(Opening(p)) = Len(p) /\ \A i \in 1..Len(p) : Opening(p)[i] = Plain(p[i])
  BY <1>1, <1>2 DEF Opening
<1> QED  BY <1>1, <1>3, SeqEqual

LEMMA DesktopSendScript ==
  ASSUME NEW m \in Msgs
  PROVE  DesktopSend \in Scripts /\ Head(DesktopSend).verb = "close"
<1> DEFINE c == Plain("close")
           e == Plain("establish")
           u == Plain("upgrade")
           g == Plain("greeting")
           h == Plain("EHLO")
           secure == <<"close", "establish", "upgrade", "greeting", "EHLO">>
           plain == <<"close", "establish", "greeting", "EHLO">>
           one == <<c>>
           auth == <<Plain("AUTH")>>
<1>0. c \in StepSet /\ e \in StepSet /\ u \in StepSet /\ g \in StepSet /\ h \in StepSet /\ Plain("AUTH") \in StepSet
  BY DEF Plain, StepSet, Verbs, Local, Commands
<1>1. /\ one \in Seq(StepSet) /\ auth \in Seq(StepSet) /\ Len(one) = 1
      /\ <<e, u, g, h>> \in Seq(StepSet) /\ <<e, g, h>> \in Seq(StepSet)
      /\ <<c, e, u, g, h>> \in Seq(StepSet) /\ <<c, e, g, h>> \in Seq(StepSet)
  <2> HIDE DEF c, e, u, g, h
  <2>1. \A s \in StepSet : <<s>> \in Seq(StepSet) /\ Len(<<s>>) = 1
    OBVIOUS
  <2> QED  BY <1>0, <2>1
<1>2. Connect \in Seq(StepSet) /\ SendMail \in Seq(StepSet)
  <2>1. Connect \in Seq(StepsOf(m)) /\ SendMail \in Seq(StepsOf(m))
    <3>1. m \in 0..MaxSends
      BY Bounds DEF Msgs
    <3> QED  BY <3>1, ConnectType, SendMailType
  <2>2. StepsOf(m) \subseteq StepSet
    BY DEF StepsOf
  <2> QED  BY <2>1, <2>2
<1>3. Connect \in {<<e, u, g, h>>, <<e, g, h>>}
  <2>1. \A a1, a2, a3, a4 : /\ <<a1>> \o <<a2>> \o <<a3, a4>> = <<a1, a2, a3, a4>>
                            /\ <<a1>> \o <<>> \o <<a3, a4>> = <<a1, a3, a4>>
    <3> SUFFICES ASSUME NEW a1, NEW a2, NEW a3, NEW a4
                 PROVE  /\ <<a1>> \o <<a2>> \o <<a3, a4>> = <<a1, a2, a3, a4>>
                        /\ <<a1>> \o <<>> \o <<a3, a4>> = <<a1, a3, a4>>
      OBVIOUS
    <3>1. <<a1>> \o <<a2>> = <<a1, a2>>
      BY LiteralJoins, Zenon
    <3>2. <<a1, a2>> \o <<a3, a4>> = <<a1, a2, a3, a4>>
      BY LiteralPairs, Zenon
    <3>3. <<a1>> \o <<>> = <<a1>>
      BY LiteralJoins, Zenon
    <3>4. <<a1>> \o <<a3, a4>> = <<a1, a3, a4>>
      BY LiteralJoins, Zenon
    <3> QED  BY <3>1, <3>2, <3>3, <3>4, Zenon
  <2>2. CASE mode = "SSL_TLS"
    BY <2>1, <2>2, Zenon DEF Connect
  <2>3. CASE mode # "SSL_TLS"
    BY <2>1, <2>3, Zenon DEF Connect
  <2> QED  BY <2>2, <2>3
<1>4. DesktopSend = (one \o Connect) \o AfterHello
  <2>1. DesktopSend = ((one \o Connect) \o auth) \o SendMail
    BY DEF DesktopSend
  <2>2. AfterHello = auth \o SendMail
    BY DEF AfterHello
  <2> DEFINE f == one \o Connect
  <2>3. f \in Seq(StepSet)
    BY <1>1, <1>2, JoinType
  <2> HIDE DEF f, auth, one
  <2>4. (f \o auth) \o SendMail = f \o (auth \o SendMail)
    BY <1>1, <1>2, <2>3
  <2> QED  BY <2>1, <2>2, <2>4 DEF f
<1>5. \E p \in Openings : one \o Connect = Opening(p) /\ p[1] = "close"
  <2>1. CASE Connect = <<e, u, g, h>>
    <3> DEFINE t == <<c, e, u, g, h>>
               j == one \o Connect
    <3>1. j = t
      <4> DEFINE k == <<e, u, g, h>>
      <4>1. k \in Seq(StepSet) /\ Len(k) = 4 /\ k[1] = e /\ k[2] = u /\ k[3] = g /\ k[4] = h
        BY <1>1
      <4>2. one[1] = c
        OBVIOUS
      <4>3. t \in Seq(StepSet) /\ Len(t) = 5 /\ t[1] = c /\ t[2] = e /\ t[3] = u /\ t[4] = g /\ t[5] = h
        BY <1>1
      <4> HIDE DEF k, one, t, c, e, u, g, h
      <4>4a. one \in Seq(StepSet) /\ k \in Seq(StepSet)
        BY <1>1, <4>1
      <4>4. one \o k \in Seq(StepSet)
        BY <4>4a, JoinType
      <4>5. /\ Len(one \o k) = Len(one) + Len(k)
            /\ \A i \in 1..Len(one) : (one \o k)[i] = one[i]
        BY <4>4a
      <4>6. \A i \in 1..Len(k) : (one \o k)[Len(one) + i] = k[i]
        BY <4>4a
      <4> DEFINE x == one \o k
      <4>7. /\ x \in Seq(StepSet) /\ Len(x) = Len(one) + Len(k) /\ \A i \in 1..Len(one) : x[i] = one[i]
            /\ \A i \in 1..Len(k) : x[Len(one) + i] = k[i]
        BY <4>4, <4>5, <4>6
      <4> HIDE DEF x
      <4>8. x \in Seq(StepSet) /\ Len(x) = 5 /\ x[1] = c /\ x[2] = e /\ x[3] = u /\ x[4] = g /\ x[5] = h
        BY <1>1, <4>1, <4>2, <4>7
      <4>9. x = t
        BY <4>3, <4>8, SeqEqual
      <4> QED  BY <2>1, <4>9 DEF x, k
    <3>2. secure \in Openings /\ secure[1] = "close"
      BY DEF Openings
    <3>3. Opening(secure) = t
      <4>1. Len(t) = Len(secure) /\ \A i \in 1..Len(secure) : t[i] = Plain(secure[i])
        OBVIOUS
      <4>2. t \in Seq(StepSet)
        BY <1>1
      <4> HIDE DEF t, secure
      <4> QED  BY <3>2, <4>1, <4>2, OpeningTuple
    <3> HIDE DEF t, j, secure
    <3> QED  BY <3>1, <3>2, <3>3 DEF j
  <2>2. CASE Connect = <<e, g, h>>
    <3> DEFINE t == <<c, e, g, h>>
               j == one \o Connect
    <3>1. j = t
      <4> DEFINE k == <<e, g, h>>
      <4>1. k \in Seq(StepSet) /\ Len(k) = 3 /\ k[1] = e /\ k[2] = g /\ k[3] = h
        BY <1>1
      <4>2. one[1] = c
        OBVIOUS
      <4>3. t \in Seq(StepSet) /\ Len(t) = 4 /\ t[1] = c /\ t[2] = e /\ t[3] = g /\ t[4] = h
        BY <1>1
      <4> HIDE DEF k, one, t, c, e, u, g, h
      <4>4a. one \in Seq(StepSet) /\ k \in Seq(StepSet)
        BY <1>1, <4>1
      <4>4. one \o k \in Seq(StepSet)
        BY <4>4a, JoinType
      <4>5. /\ Len(one \o k) = Len(one) + Len(k)
            /\ \A i \in 1..Len(one) : (one \o k)[i] = one[i]
        BY <4>4a
      <4>6. \A i \in 1..Len(k) : (one \o k)[Len(one) + i] = k[i]
        BY <4>4a
      <4> DEFINE x == one \o k
      <4>7. /\ x \in Seq(StepSet) /\ Len(x) = Len(one) + Len(k) /\ \A i \in 1..Len(one) : x[i] = one[i]
            /\ \A i \in 1..Len(k) : x[Len(one) + i] = k[i]
        BY <4>4, <4>5, <4>6
      <4> HIDE DEF x
      <4>8. x \in Seq(StepSet) /\ Len(x) = 4 /\ x[1] = c /\ x[2] = e /\ x[3] = g /\ x[4] = h
        BY <1>1, <4>1, <4>2, <4>7
      <4>9. x = t
        BY <4>3, <4>8, SeqEqual
      <4> QED  BY <2>2, <4>9 DEF x, k
    <3>2. plain \in Openings /\ plain[1] = "close"
      BY DEF Openings
    <3>3. Opening(plain) = t
      <4>1. Len(t) = Len(plain) /\ \A i \in 1..Len(plain) : t[i] = Plain(plain[i])
        OBVIOUS
      <4>2. t \in Seq(StepSet)
        BY <1>1
      <4> HIDE DEF t, plain
      <4> QED  BY <3>2, <4>1, <4>2, OpeningTuple
    <3> HIDE DEF t, j, plain
    <3> QED  BY <3>1, <3>2, <3>3 DEF j
  <2> QED  BY <1>3, <2>1, <2>2
<1>6. PICK p \in Openings : one \o Connect = Opening(p) /\ p[1] = "close"
  BY <1>5
<1> HIDE DEF one
<1>7. DesktopSend = Opening(p) \o AfterHello
  BY <1>4, <1>6
<1>8. DesktopSend \in Scripts
  BY <1>7 DEF Scripts
<1>9. Head(DesktopSend) = Plain("close")
  BY <1>6, <1>7, OpenedShape
<1> QED  BY <1>8, <1>9, PlainVerb

-----------------------------------------------------------------------------
(* The server's session along the script.                                  *)
LEMMA SessionIs ==
  ASSUME NEW s \in SessionSet, ~s.junk
  PROVE  s = Session(s.phase, s.from, s.rcpts, s.bodies, s.whole)
BY DEF SessionSet, Session

LEMMA NamedFacts ==
  /\ RcptCount \in Nat \ {0} /\ Length = RcptCount + 5
  /\ Named(0) = {} /\ \A k \in Int : k >= RcptCount => Named(k) = Recipients
  /\ \A k \in Int : Named(k) \subseteq Recipients
  /\ \A k \in 1..RcptCount : Named(k) = Named(k - 1) \cup {Envelope[k]}
<1>1. RcptCount \in Nat \ {0} /\ {Envelope[i] : i \in 1..RcptCount} = Recipients /\ Length = RcptCount + 5
  BY EnvelopeProperties DEF RcptCount, Length
<1> HIDE DEF RcptCount
<1>2. {j \in 1..RcptCount : j <= 0} = {}
  BY <1>1
<1>3. \A k \in Int : k >= RcptCount => {j \in 1..RcptCount : j <= k} = 1..RcptCount
  BY <1>1
<1>4. \A k \in 1..RcptCount : {j \in 1..RcptCount : j <= k} = {j \in 1..RcptCount : j <= k - 1} \cup {k}
  BY <1>1
<1>5. \A A, B, k : A = B \cup {k} => {Envelope[i] : i \in A} = {Envelope[i] : i \in B} \cup {Envelope[k]}
  OBVIOUS
<1>6. \A k \in 1..RcptCount : Named(k) = Named(k - 1) \cup {Envelope[k]}
  BY <1>4, <1>5 DEF Named
<1>7. \A k \in Int : Named(k) \subseteq Recipients
  BY <1>1 DEF Named
<1>8. Named(0) = {}
  BY <1>2 DEF Named
<1>9. ASSUME NEW k \in Int, k >= RcptCount PROVE Named(k) = Recipients
  <2>1. {j \in 1..RcptCount : j <= k} = 1..RcptCount
    BY <1>3, <1>9
  <2> QED  BY <1>1, <2>1 DEF Named
<1> QED  BY <1>1, <1>6, <1>7, <1>8, <1>9

LEMMA SessionFacts ==
  ASSUME NEW m \in Msgs
  PROVE  /\ \A k \in Int : k <= 2 => SessionAt(m, k) = Fresh
         /\ \A k \in 3..RcptCount + 3 : SessionAt(m, k) = Session("command", m, {m} \X Named(k - 3), {}, TRUE)
         /\ SessionAt(m, RcptCount + 4) = Session("data", m, {m} \X Recipients, {}, TRUE)
         /\ SessionAt(m, Length) = Session("data", m, {m} \X Recipients, {m}, Attached(m))
<1>1. RcptCount \in Nat \ {0} /\ Length = RcptCount + 5
  BY NamedFacts
<1>2. \A k \in Int : k <= 2 => SessionAt(m, k) = Fresh
  BY DEF SessionAt
<1>3. ASSUME NEW k \in 3..RcptCount + 3
      PROVE  SessionAt(m, k) = Session("command", m, {m} \X Named(k - 3), {}, TRUE)
  <2>1. ~(k <= 2) /\ k <= RcptCount + 3 /\ k # Length
    BY <1>1
  <2> QED  BY <2>1, Zenon DEF SessionAt
<1>4. ASSUME NEW k, k = RcptCount + 4
      PROVE  SessionAt(m, k) = Session("data", m, {m} \X Recipients, {}, TRUE)
  <2>1. ~(k <= 2) /\ ~(k <= RcptCount + 3) /\ k # Length /\ k - 3 \in Int /\ k - 3 >= RcptCount
    BY <1>1, <1>4
  <2>2. Named(k - 3) = Recipients
    BY <2>1, NamedFacts
  <2> QED  BY <2>1, <2>2, Zenon DEF SessionAt
<1>5. ASSUME NEW k, k = Length
      PROVE  SessionAt(m, k) = Session("data", m, {m} \X Recipients, {m}, Attached(m))
  <2>1. ~(k <= 2) /\ ~(k <= RcptCount + 3) /\ k - 3 \in Int /\ k - 3 >= RcptCount
    BY <1>1, <1>5
  <2>2. Named(k - 3) = Recipients
    BY <2>1, NamedFacts
  <2> QED  BY <1>5, <2>1, <2>2, Zenon DEF SessionAt
<1> QED  BY <1>2, <1>3, <1>4, <1>5

LEMMA SessionCases ==
  ASSUME NEW m \in Msgs, NEW k \in Int, k <= Length
  PROVE  \/ k <= 2 /\ SessionAt(m, k) = Fresh
         \/ k \in 3..RcptCount + 3 /\ SessionAt(m, k) =
              Session("command", m, {m} \X Named(k - 3), {}, TRUE)
         \/ k = RcptCount + 4 /\ SessionAt(m, k) =
              Session("data", m, {m} \X Recipients, {}, TRUE)
         \/ k = Length /\ SessionAt(m, k) =
              Session("data", m, {m} \X Recipients, {m}, Attached(m))
<1>1. RcptCount \in Nat \ {0} /\ Length = RcptCount + 5
  BY NamedFacts
<1>2. k <= 2 \/ k \in 3..RcptCount + 3 \/ k = RcptCount + 4 \/ k = Length
  BY <1>1
<1> QED  BY <1>2, SessionFacts

LEMMA SessionOfOne ==
  ASSUME NEW m \in Msgs, NEW k \in Int, k <= Length, srv = SessionAt(m, k)
  PROVE  /\ OfOneSession(m)
         /\ srv.phase = IF k <= RcptCount + 3 THEN "command" ELSE "data"
         /\ k = RcptCount + 4 => srv.bodies = {}
         /\ k = Length => srv.bodies = {m}
<1>1. RcptCount \in Nat \ {0} /\ Length = RcptCount + 5
  BY NamedFacts
<1>2. CASE k <= 2 /\ srv = Fresh
  BY <1>1, <1>2 DEF OfOneSession, Fresh
<1>3. CASE k \in 3..RcptCount + 3 /\ srv = Session("command", m, {m} \X Named(k - 3), {}, TRUE)
  <2>1. k - 3 \in Int
    OBVIOUS
  <2>2. Named(k - 3) \subseteq Recipients
    BY <2>1, NamedFacts
  <2>3. {m} \X Named(k - 3) \subseteq {m} \X Recipients
    BY <2>2
  <2>4. OfOneSession(m) /\ srv.phase = "command"
    BY <1>3, <2>3 DEF OfOneSession, Session
  <2>5. k <= RcptCount + 3 /\ k # RcptCount + 4 /\ k # Length
    BY <1>1, <1>3
  <2> QED  BY <2>4, <2>5
<1>4. CASE k = RcptCount + 4 /\ srv = Session("data", m, {m} \X Recipients, {}, TRUE)
  <2>1. OfOneSession(m) /\ srv.phase = "data" /\ srv.bodies = {}
    BY <1>4 DEF OfOneSession, Session
  <2> QED  BY <1>1, <1>4, <2>1
<1>5. CASE k = Length /\ srv = Session("data", m, {m} \X Recipients, {m}, Attached(m))
  <2>1. OfOneSession(m) /\ srv.phase = "data" /\ srv.bodies = {m}
    BY <1>5 DEF OfOneSession, Session
  <2> QED  BY <1>1, <1>5, <2>1
<1> QED  BY <1>2, <1>3, <1>4, <1>5, SessionCases

LEMMA LineType ==
  ASSUME NEW m \in Msgs, NEW x \in StepSet, x.verb \in Commands \cup {"text"}, x.verb = "RCPT" => x.rcpt \in Recipients
  PROVE  Line(m, x) \in LineSet
<1>1. m \in 0..MaxSends
  BY Bounds DEF Msgs
<1> QED  BY <1>1 DEF Line, LineSet, StepSet

LEMMA CommandAt ==
  ASSUME NEW m \in Msgs, NEW todo \in Scripts, Head(todo).verb \in Commands
  PROVE  LET k == Position(todo)  x == Head(todo) IN
         /\ k \in Int /\ k <= Length /\ k # RcptCount + 4
         /\ x \in StepSet /\ Line(m, x) \in LineSet /\ x.verb \notin {"LOGIN", "QUIT"} /\ Line(m, x).verb = x.verb
         /\ x.verb = "DOT" <=> k = Length
         /\ k <= RcptCount + 3 \/ k = Length
<1> DEFINE k == Position(todo)
           x == Head(todo)
<1>1. RcptCount \in Nat \ {0} /\ Length = RcptCount + 5
  BY NamedFacts
<1>2. /\ k \in Int /\ k <= Length
      /\ k <= 0 => x.verb \in Opens
      /\ k >= 1 => k \in 1..Length /\ x = AfterHello[k]
  BY ScriptStep
<1>3. x \in StepSet
  BY ScriptCases, HeadTailProperties
<1>4. CASE k <= 0
  <2>1. x.verb \notin {"LOGIN", "QUIT", "DOT", "RCPT"}
    BY <1>2, <1>4 DEF Opens
  <2>2. Line(m, x) \in LineSet
    BY <1>3, <2>1, LineType
  <2> QED  BY <1>1, <1>2, <1>3, <1>4, <2>1, <2>2 DEF Line
<1>5. CASE k >= 1
  <2>1. \/ k = 1 /\ x = Plain("AUTH")
        \/ k = 2 /\ x = Plain("MAIL")
        \/ k \in 3..RcptCount + 2 /\ x = [verb |-> "RCPT", rcpt |-> Envelope[k - 2]]
        \/ k = RcptCount + 3 /\ x = Plain("DATA")
        \/ k = RcptCount + 4 /\ x = Plain("text")
        \/ k = Length /\ x = Plain("DOT")
    BY <1>2, <1>5, LaterSteps
  <2>2. x.verb = "RCPT" => x.rcpt \in Recipients
    <3>1. ASSUME k \in 3..RcptCount + 2, x = [verb |-> "RCPT", rcpt |-> Envelope[k - 2]] PROVE x.rcpt \in Recipients
      <4>1. k - 2 \in 1..Len(Envelope) /\ Envelope \in Seq(Recipients)
        <5>1. Len(Envelope) = RcptCount /\ Envelope \in Seq(Recipients)
          BY EnvelopeProperties DEF RcptCount
        <5> HIDE DEF k
        <5> QED  BY <1>1, <3>1, <5>1
      <4> QED  BY <3>1, <4>1
    <3> QED  BY <2>1, <3>1, PlainVerb
  <2>3. x.verb \notin {"LOGIN", "QUIT"} /\ (x.verb = "DOT" <=> k = Length) /\ k # RcptCount + 4
    <3>1. Plain("text").verb \notin Commands
      BY DEF Plain, Commands
    <3> HIDE DEF k
    <3> QED  BY <1>1, <2>1, <3>1, PlainVerb
  <2>4. Line(m, x) \in LineSet
    BY <1>3, <2>2, LineType
  <2> QED  BY <1>1, <1>2, <1>3, <2>3, <2>4 DEF Line
<1> QED  BY <1>2, <1>4, <1>5

LEMMA SyncedOfOne ==
  ASSUME NEW m \in Msgs, NEW k \in Int, k <= Length, Synced(m, k)
  PROVE  OfOne(m)
<1>0. RcptCount \in Nat \ {0} /\ Length = RcptCount + 5
  BY NamedFacts
<1>1. CASE out = <<>> /\ srv = SessionAt(m, k)
  <2>1. OfOneSession(m) /\ (k = RcptCount + 4 => srv.bodies = {}) /\ (k = Length => srv.bodies = {m})
        /\ srv.phase = (IF k <= RcptCount + 3 THEN "command" ELSE "data")
    BY <1>1, SessionOfOne
  <2>2. srv.phase = "data" => k = RcptCount + 4 \/ k = Length
    BY <1>0, <2>1
  <2>3. \A i \in DOMAIN out : out[i].msg = m
    BY <1>1
  <2> QED  BY <1>1, <2>1, <2>2, <2>3 DEF OfOne
<1>2. CASE k = Length /\ out = <<TextLine(m)>> /\ srv = SessionAt(m, k - 1)
  <2>1. k - 1 = RcptCount + 4 /\ k - 1 \in Int /\ k - 1 <= Length /\ ~(k - 1 <= RcptCount + 3)
    BY <1>0, <1>2
  <2>2. OfOneSession(m) /\ srv.bodies = {} /\ srv.phase = "data"
    BY <1>2, <2>1, SessionOfOne
  <2>3. TextLine(m) \in LineSet /\ TextLine(m).verb = "text" /\ TextLine(m).msg = m
    <3>1. m \in 0..MaxSends
      BY Bounds DEF Msgs
    <3> QED  BY <3>1 DEF TextLine, LineSet
  <2>4. Plain("DOT") \in StepSet /\ Line(m, Plain("DOT")) \in LineSet /\ Line(m, Plain("DOT")).verb = "DOT"
    <3>1. Plain("DOT") \in StepSet /\ Plain("DOT").verb = "DOT" /\ "DOT" \in Commands
      BY DEF Plain, StepSet, Verbs, Commands
    <3> QED  BY <3>1, LineType DEF Line
  <2>5. \A i \in DOMAIN out : out[i].msg = m
    <3>1. \A c : DOMAIN <<c>> = {1} /\ <<c>>[1] = c
      OBVIOUS
    <3> QED  BY <1>2, <2>3, <3>1
  <2>6. \E c, d \in LineSet : c.verb = "text" /\ d.verb = "DOT" /\ out \in {<<c>>, <<c, d>>}
    BY <1>2, <2>3, <2>4
  <2> QED  BY <2>2, <2>5, <2>6 DEF OfOne
<1> QED  BY <1>1, <1>2 DEF Synced

LEMMA SentOfOne ==
  ASSUME NEW m \in Msgs, NEW todo \in Scripts, Head(todo).verb \in Commands,
         Sent(m, Position(todo), Line(m, Head(todo)))
  PROVE  OfOne(m)
<1> DEFINE k == Position(todo)
           x == Head(todo)
           c == Line(m, x)
<1>0. RcptCount \in Nat \ {0} /\ Length = RcptCount + 5
  BY NamedFacts
<1>1. /\ k \in Int /\ k <= Length /\ k # RcptCount + 4 /\ c \in LineSet /\ x.verb \notin {"LOGIN", "QUIT"} /\ c.verb = x.verb
      /\ x.verb = "DOT" <=> k = Length
      /\ k <= RcptCount + 3 \/ k = Length
  BY CommandAt
<1>2. c.msg = m
  BY DEF Line
<1>3. c.verb \in Commands
  BY <1>1
<1>4. \A a, b : DOMAIN <<a>> = {1} /\ <<a>>[1] = a /\ DOMAIN <<a, b>> = {1, 2} /\ <<a, b>>[1] = a /\ <<a, b>>[2] = b
  OBVIOUS
<1>5. Sent(m, k, c)
  OBVIOUS
<1> HIDE DEF k, x, c
<1>6. CASE out = <<c>> /\ srv = SessionAt(m, k)
  <2>1. OfOneSession(m) /\ (k = Length => srv.bodies = {m})
        /\ srv.phase = (IF k <= RcptCount + 3 THEN "command" ELSE "data")
    BY <1>1, <1>6, SessionOfOne
  <2>2. \A i \in DOMAIN out : out[i].msg = m
    BY <1>2, <1>4, <1>6
  <2>3. CASE k <= RcptCount + 3
    <3>1. srv.phase = "command" /\ k # Length
      BY <1>0, <2>1, <2>3
    <3>2. \E d \in LineSet : out = <<d>> /\ d.verb \in Commands \ {"LOGIN", "DOT"}
      BY <1>1, <1>3, <1>6, <3>1
    <3> QED  BY <2>1, <2>2, <3>1, <3>2 DEF OfOne
  <2>4. CASE k = Length
    <3>1. srv.phase = "data" /\ srv.bodies = {m} /\ c.verb = "DOT"
      BY <1>0, <1>1, <2>1, <2>4
    <3> QED  BY <1>1, <1>6, <2>1, <2>2, <3>1 DEF OfOne
  <2> QED  BY <1>1, <2>3, <2>4
<1>7. CASE k = Length /\ out = <<TextLine(m), c>> /\ srv = SessionAt(m, k - 1)
  <2>1. k - 1 = RcptCount + 4 /\ k - 1 \in Int /\ k - 1 <= Length /\ ~(k - 1 <= RcptCount + 3)
    BY <1>0, <1>7
  <2>2. OfOneSession(m) /\ srv.bodies = {} /\ srv.phase = "data"
    BY <1>7, <2>1, SessionOfOne
  <2>3. TextLine(m) \in LineSet /\ TextLine(m).verb = "text" /\ TextLine(m).msg = m
    <3>1. m \in 0..MaxSends
      BY Bounds DEF Msgs
    <3> QED  BY <3>1 DEF TextLine, LineSet
  <2>4. c.verb = "DOT"
    BY <1>1, <1>7
  <2>5. \A i \in DOMAIN out : out[i].msg = m
    BY <1>2, <1>4, <1>7, <2>3
  <2>6. \E a, d \in LineSet : a.verb = "text" /\ d.verb = "DOT" /\ out \in {<<a>>, <<a, d>>}
    BY <1>1, <1>7, <2>3, <2>4
  <2> QED  BY <2>2, <2>5, <2>6 DEF OfOne
<1> QED  BY <1>5, <1>6, <1>7 DEF Sent

-----------------------------------------------------------------------------
(* The server's steps.                                                     *)

(* Without a body that ends itself, a line of the script is answered as    *)
(* planned: what the server takes leaves one session behind.               *)
Undotted == "dotted" \notin Bodies

LEMMA NotDotted ==
  ASSUME Undotted, Types, NEW m \in Msgs
  PROVE  ~LoneDot(m)
BY DEF Undotted, Types, UserTypes, LoneDot

(* What Serve does with the first line under way.                          *)
LEMMA ServeShape ==
  ASSUME Types, Serve
  PROVE  /\ net = "up" /\ out # <<>> /\ out' = Tail(out) /\ Head(out) \in LineSet
         /\ UNCHANGED <<driver, mode, client, hung, job, user, alive, late, faults>>
         /\ \/ srv.phase = "data" /\ TakeData(Head(out)) /\ UNCHANGED net
            \/ srv.phase = "login" /\ TakeLogin(Head(out)) /\ UNCHANGED net
            \/ srv.phase = "command" /\ Head(out).verb # "QUIT" /\ TakeCommand(Head(out)) /\ UNCHANGED <<delivered, net>>
            \/ /\ srv.phase = "command" /\ Head(out).verb = "QUIT" /\ Reply("QUIT", "2xx", 1, FALSE) /\ net' = "cut"
               /\ UNCHANGED <<srv, delivered>>
<1>1. out \in Seq(LineSet)
  BY DEF Types, LinkTypes
<1>2. Head(out) \in LineSet
  BY <1>1, HeadTailProperties DEF Serve
<1> QED  BY <1>2 DEF Serve

LEMMA ServeOfOne ==
  ASSUME Undotted, Types, Serve, NEW m \in Msgs, OfOne(m), net' = "up"
  PROVE  OfOne(m)'
<1> DEFINE c == Head(out)
<1>1. /\ out # <<>> /\ out' = Tail(out) /\ c \in LineSet /\ out \in Seq(LineSet) /\ srv \in SessionSet
      /\ \/ srv.phase = "data" /\ TakeData(c)
         \/ srv.phase = "command" /\ TakeCommand(c)
  <2>1. srv.phase # "login"
    BY DEF OfOne, OfOneSession
  <2>2. net' # "cut"
    OBVIOUS
  <2> QED  BY <2>1, <2>2, ServeShape DEF Types, LinkTypes
<1>2. \A a, b : Head(<<a>>) = a /\ Tail(<<a>>) = <<>> /\ Head(<<a, b>>) = a /\ Tail(<<a, b>>) = <<b>>
  OBVIOUS
<1>3. \A a : DOMAIN <<a>> = {1} /\ <<a>>[1] = a
  OBVIOUS
<1>4. \A a, b : DOMAIN <<a, b>> = {1, 2} /\ <<a, b>>[1] = a /\ <<a, b>>[2] = b
  OBVIOUS
<1>5. CASE srv.phase = "command" /\ TakeCommand(c)
  <2>1. out = <<c>> /\ c.verb \in Commands \ {"LOGIN", "DOT"} /\ c.msg = m /\ out' = <<>>
    <3>1. PICK d \in LineSet : out = <<d>> /\ d.verb \in Commands \ {"LOGIN", "DOT"}
      BY <1>1, <1>5 DEF OfOne
    <3>2. out[1].msg = m
      BY <1>3, <3>1 DEF OfOne
    <3> QED  BY <1>1, <1>2, <1>3, <3>1, <3>2
  <2>2. OfOneSession(m)
    BY DEF OfOne
  <2>3. OfOneSession(m)' /\ (srv'.phase = "data" => srv'.bodies = {})
    <3> HIDE DEF c
    <3>1. CASE srv' = srv
      BY <1>5, <2>2, <3>1 DEF OfOneSession
    <3>2. CASE srv' = Fresh
      BY <3>2 DEF OfOneSession, Fresh
    <3>3. CASE srv.from = 0 /\ srv' = [srv EXCEPT !.from = c.msg]
      BY <1>1, <1>5, <2>1, <2>2, <3>3 DEF OfOneSession, SessionSet, Msgs
    <3>4. CASE c.verb = "RCPT" /\ srv.from # 0 /\ srv' = [srv EXCEPT !.rcpts = @ \cup {<<c.msg, c.rcpt>>}]
      <4>1. c.rcpt \in Recipients
        BY <1>1, <3>4 DEF LineSet
      <4> QED  BY <1>1, <1>5, <2>1, <2>2, <3>4, <4>1 DEF OfOneSession, SessionSet
    <3>5. CASE srv.rcpts # {} /\ srv' = [srv EXCEPT !.phase = "data"]
      BY <1>1, <1>5, <2>2, <3>5 DEF OfOneSession, SessionSet
    <3> QED  BY <1>5, <2>1, <3>1, <3>2, <3>3, <3>4, <3>5 DEF TakeCommand
  <2>4. srv'.phase \in {"command", "data"}
    <3> HIDE DEF c
    <3>1. \/ srv' = srv \/ srv' = Fresh \/ srv' = [srv EXCEPT !.from = c.msg]
          \/ srv' = [srv EXCEPT !.rcpts = @ \cup {<<c.msg, c.rcpt>>}] \/ srv' = [srv EXCEPT !.phase = "data"]
      BY <1>5, <2>1 DEF TakeCommand
    <3>2. Fresh.phase = "command"
      BY DEF Fresh
    <3>3. [srv EXCEPT !.from = c.msg].phase = srv.phase /\ [srv EXCEPT !.phase = "data"].phase = "data"
          /\ [srv EXCEPT !.rcpts = @ \cup {<<c.msg, c.rcpt>>}].phase = srv.phase
      BY <1>1 DEF SessionSet
    <3> QED  BY <1>5, <3>1, <3>2, <3>3
  <2> QED  BY <2>1, <2>3, <2>4 DEF OfOne
<1>6. CASE srv.phase = "data" /\ TakeData(c)
  <2>1. OfOneSession(m) /\ srv.from = m
    BY <1>6 DEF OfOne, OfOneSession
  <2>2. CASE srv.bodies = {} /\ \E a, d \in LineSet : a.verb = "text" /\ d.verb = "DOT" /\ out \in {<<a>>, <<a, d>>}
    <3>1. PICK a \in LineSet, d \in LineSet : a.verb = "text" /\ d.verb = "DOT" /\ out \in {<<a>>, <<a, d>>}
      BY <2>2
    <3>2. c = a /\ out' \in {<<>>, <<d>>} /\ a.msg = m /\ \A i \in DOMAIN out' : out'[i].msg = m
      <4>1. CASE out = <<a>>
        BY <1>1, <1>2, <1>3, <4>1 DEF OfOne
      <4>2. CASE out = <<a, d>>
        BY <1>1, <1>2, <1>3, <1>4, <4>2 DEF OfOne
      <4> QED  BY <3>1, <4>1, <4>2
    <3>3. ~LoneDot(c.msg)
      BY <3>2, NotDotted
    <3>4. srv' = [srv EXCEPT !.bodies = @ \cup {c.msg}, !.whole = @ /\ Attached(c.msg)]
      <4> HIDE DEF c
      <4> QED  BY <1>6, <3>1, <3>2, <3>3, TakeDataCases
    <3>5. OfOneSession(m)' /\ srv'.phase = "data" /\ srv'.bodies = {m}
      <4> HIDE DEF c
      <4>1. /\ srv'.phase = srv.phase /\ srv'.junk = srv.junk /\ srv'.from = srv.from /\ srv'.rcpts = srv.rcpts
            /\ srv'.bodies = srv.bodies \cup {c.msg}
        BY <1>1, <3>4 DEF SessionSet
      <4> QED  BY <1>6, <2>1, <2>2, <3>2, <4>1 DEF OfOneSession
    <3> QED  BY <3>1, <3>2, <3>5 DEF OfOne
  <2>3. CASE \E d \in LineSet : d.verb = "DOT" /\ out = <<d>>
    <3>1. PICK d \in LineSet : d.verb = "DOT" /\ out = <<d>>
      BY <2>3
    <3>2. c = d /\ out' = <<>>
      BY <1>1, <1>2, <3>1
    <3>3. srv' = Fresh
      <4> HIDE DEF c
      <4> QED  BY <1>6, <3>1, <3>2, TakeDataCases
    <3>4. OfOneSession(m)' /\ srv'.phase = "command"
      BY <3>3 DEF OfOneSession, Fresh
    <3> QED  BY <3>2, <3>4 DEF OfOne
  <2> QED  BY <1>1, <1>6, <2>2, <2>3 DEF OfOne
<1> QED  BY <1>1, <1>5, <1>6

(* A message is delivered at the end of a body, with its own envelope.     *)
LEMMA ServeDelivers ==
  ASSUME Undotted, Types, Serve, NEW m \in Msgs, OfOne(m), NothingMixed
  PROVE  NothingMixed' /\ delivered \subseteq delivered'
<1> DEFINE c == Head(out)
<1>0. UNCHANGED driver
  BY ServeShape
<1>1. CASE UNCHANGED delivered
  BY <1>0, <1>1 DEF NothingMixed
<1>2. CASE srv.phase = "data" /\ TakeData(c)
  <2>1. out \in Seq(LineSet) /\ out # <<>>
    BY ServeShape DEF Types, LinkTypes
  <2>2. \A a, b : Head(<<a>>) = a /\ Head(<<a, b>>) = a /\ <<a>>[1] = a /\ <<a, b>>[1] = a /\ 1 \in DOMAIN <<a>> /\ 1 \in DOMAIN <<a, b>>
    OBVIOUS
  <2>3. c.msg = m /\ (c.verb = "text" \/ (c.verb = "DOT" /\ srv.bodies = {m}))
    BY <1>2, <2>1, <2>2 DEF OfOne
  <2>4. ~LoneDot(c.msg)
    BY <2>3, NotDotted
  <2> HIDE DEF c
  <2>5. UNCHANGED delivered \/ (c.verb = "DOT" /\ delivered' = delivered \cup {Mail})
    BY <1>2, <2>3, <2>4, TakeDataCases
  <2>6. ASSUME c.verb = "DOT", delivered' = delivered \cup {Mail} PROVE NothingMixed'
    <3>1. Mail.from = m /\ Mail.rcpts \subseteq {m} \X Recipients /\ Mail.bodies = {m} /\ ~Mail.junk
      BY <1>2, <2>3, <2>6 DEF Mail, OfOne, OfOneSession
    <3> QED  BY <1>0, <2>6, <3>1 DEF NothingMixed
  <2> QED  BY <1>1, <2>5, <2>6
<1>3. UNCHANGED delivered \/ (srv.phase = "data" /\ TakeData(c))
  BY ServeShape DEF TakeLogin
<1> QED  BY <1>1, <1>2, <1>3

(* The body is taken: the session of the step after it.                    *)
LEMMA ServeText ==
  ASSUME Undotted, Types, Serve, NEW m \in Msgs, Head(out) = TextLine(m), srv = SessionAt(m, Length - 1)
  PROVE  srv' = SessionAt(m, Length) /\ UNCHANGED <<in, net>>
<1> DEFINE c == Head(out)
<1>0. RcptCount \in Nat \ {0} /\ Length - 1 = RcptCount + 4
  BY NamedFacts
<1>1. srv = Session("data", m, {m} \X Recipients, {}, TRUE)
  BY <1>0, SessionFacts
<1>2. TakeData(c) /\ UNCHANGED net
  <2>1. srv.phase = "data"
    BY <1>1 DEF Session
  <2> QED  BY <2>1, ServeShape
<1>3. c.verb = "text" /\ c.msg = m /\ ~LoneDot(c.msg)
  BY NotDotted DEF TextLine
<1> HIDE DEF c
<1>4. srv' = [srv EXCEPT !.bodies = @ \cup {c.msg}, !.whole = @ /\ Attached(c.msg)] /\ UNCHANGED in
  BY <1>2, <1>3, TakeDataCases
<1>5. srv \in SessionSet /\ srv' \in SessionSet
  BY ServeTypes DEF Types, LinkTypes
<1>6. srv' = Session("data", m, {m} \X Recipients, {m}, Attached(m))
  <2>1. srv.phase = "data" /\ srv.from = m /\ srv.rcpts = {m} \X Recipients /\ srv.bodies = {} /\ ~srv.junk /\ srv.whole = TRUE
    BY <1>1 DEF Session
  <2>2. /\ srv'.phase = srv.phase /\ srv'.from = srv.from /\ srv'.rcpts = srv.rcpts /\ srv'.junk = srv.junk
        /\ srv'.bodies = srv.bodies \cup {c.msg} /\ srv'.whole = (srv.whole /\ Attached(c.msg))
    BY <1>4, <1>5 DEF SessionSet
  <2>3. srv'.bodies = {m} /\ srv'.whole = Attached(m)
    <3>1. Attached(m) \in BOOLEAN
      BY DEF Attached
    <3> QED  BY <1>3, <2>1, <2>2, <3>1
  <2>4. srv' = Session(srv'.phase, srv'.from, srv'.rcpts, srv'.bodies, srv'.whole)
    BY <1>5, <2>1, <2>2, SessionIs
  <2>5. srv'.phase = "data" /\ srv'.from = m /\ srv'.rcpts = {m} \X Recipients
    BY <2>1, <2>2
  <2> QED  BY <2>3, <2>4, <2>5
<1> QED  BY <1>2, <1>4, <1>6, SessionFacts

(* A command the server accepts leads to the session of the next step.     *)
LEMMA CommandAnswered ==
  ASSUME NEW m \in Msgs, NEW todo \in Scripts, Head(todo).verb \in Commands, Position(todo) <= RcptCount + 3,
         srv = SessionAt(m, Position(todo)), srv.phase = "command", TakeCommand(Line(m, Head(todo))), srv \in SessionSet, srv' \in SessionSet
  PROVE  \E code \in Codes, n \in Nat, tls \in BOOLEAN :
           /\ Reply(Head(todo).verb, code, n, tls)
           /\ code = Wanted(Head(todo).verb) => srv' = SessionAt(m, Position(todo) + 1)
<1> DEFINE k == Position(todo)
           x == Head(todo)
           c == Line(m, x)
           Accepts == \E code \in Codes, n \in Nat, tls \in BOOLEAN :
                        Reply(x.verb, code, n, tls) /\ (code = Wanted(x.verb) => srv' = SessionAt(m, k + 1))
<1>0. RcptCount \in Nat \ {0} /\ Length = RcptCount + 5
  BY NamedFacts
<1>1. c.verb = x.verb /\ c.rcpt = x.rcpt /\ c.msg = m
  BY DEF Line
<1>2. k \in Int /\ k <= Length /\ x.verb \notin {"LOGIN", "QUIT", "DOT"} /\ k # Length
  <2>1. k # Length
    BY <1>0
  <2> QED  BY <2>1, CommandAt
<1>3. /\ k <= 0 => x.verb \in Opens
      /\ k >= 1 => k \in 1..Length /\ x = AfterHello[k]
  BY ScriptStep
<1>4. srv \in SessionSet /\ srv' \in SessionSet /\ TakeCommand(c) /\ srv = SessionAt(m, k) /\ k <= RcptCount + 3 /\ x.verb \in Commands
  OBVIOUS
<1>5. SUFFICES Accepts
  OBVIOUS
<1> HIDE DEF k, x, c
<1>6. 1 \in Nat /\ FALSE \in BOOLEAN /\ "2xx" \in Codes /\ "3xx" \in Codes
  BY DEF Codes
<1>7. ASSUME NEW code \in Bad, Reply(c.verb, code, 1, FALSE) PROVE Accepts
  <2>1. code \in Codes /\ code # Wanted(x.verb)
    BY BadType DEF Wanted
  <2> QED  BY <1>1, <1>6, <1>7, <2>1
<1>8. CASE k <= 1
  <2>1. x.verb \in {"EHLO", "STARTTLS", "EHLO2", "AUTH"}
    <3>1. k = 1 => x = Plain("AUTH")
      BY <1>0, <1>3, AfterHelloSteps
    <3>2. k <= 0 \/ k = 1
      BY <1>2, <1>8
    <3> QED  BY <1>3, <1>4, <3>1, <3>2, PlainVerb DEF Opens, Commands
  <2>2. srv = Fresh /\ SessionAt(m, k + 1) = Fresh
    <3>1. k + 1 \in Int /\ k + 1 <= 2 /\ k <= 2
      BY <1>2, <1>8
    <3> QED  BY <1>2, <1>4, <3>1, SessionFacts
  <2>3. CASE /\ \E n \in LineCounts(c.verb), tls \in IF c.verb = "EHLO" THEN BOOLEAN ELSE {FALSE} : Reply(c.verb, "2xx", n, tls)
             /\ srv' = srv
    <3>1. PICK n \in LineCounts(c.verb), tls \in (IF c.verb = "EHLO" THEN BOOLEAN ELSE {FALSE}) : Reply(c.verb, "2xx", n, tls)
      BY <2>3
    <3>2. n \in Nat /\ tls \in BOOLEAN
      BY LineCountsType
    <3> QED  BY <1>1, <1>6, <2>2, <2>3, <3>1, <3>2
  <2> QED  BY <1>1, <1>4, <1>7, <2>1, <2>3 DEF TakeCommand
<1>9. CASE k = 2
  <2>1. x.verb = "MAIL"
    BY <1>3, <1>9, AfterHelloSteps, PlainVerb
  <2>2. srv = Fresh
    <3>1. k \in Int /\ k <= 2
      BY <1>9
    <3> QED  BY <1>4, <3>1, SessionFacts
  <2>3. CASE srv' = [srv EXCEPT !.from = c.msg] /\ Reply("MAIL", "2xx", 1, FALSE)
    <3>1. 3 \in 3..RcptCount + 3 /\ 3 - 3 = 0 /\ k + 1 = 3
      BY <1>0, <1>9
    <3>2. SessionAt(m, k + 1) = Session("command", m, {m} \X Named(0), {}, TRUE)
      BY <3>1, SessionFacts
    <3>3. {m} \X Named(0) = {}
      BY NamedFacts
    <3>4. srv' = Session("command", m, {}, {}, TRUE)
      <4>1. /\ srv'.phase = "command" /\ srv'.from = m /\ srv'.rcpts = {} /\ srv'.bodies = {} /\ srv'.junk = FALSE
            /\ srv'.whole = TRUE
        BY <1>1, <2>2, <2>3 DEF Fresh
      <4> QED  BY <1>4, <4>1, SessionIs
    <3>5. srv' = SessionAt(m, k + 1)
      BY <3>2, <3>3, <3>4
    <3>6. Reply(x.verb, "2xx", 1, FALSE)
      BY <2>1, <2>3
    <3> QED  BY <1>6, <3>5, <3>6
  <2> QED  BY <1>1, <1>4, <1>7, <2>1, <2>3 DEF TakeCommand, Simple
<1>10. CASE k \in 3..RcptCount + 2
  <2>1. x = [verb |-> "RCPT", rcpt |-> Envelope[k - 2]] /\ x.verb = "RCPT"
    <3>0. k \in 1..Length /\ k # 1 /\ k # 2 /\ k # RcptCount + 3 /\ k # RcptCount + 4 /\ k # Length
      BY <1>0, <1>10
    <3>1. x = [verb |-> "RCPT", rcpt |-> Envelope[k - 2]]
      <4>1. x = AfterHello[k]
        BY <1>3, <3>0
      <4>2. AfterHello[k] = [verb |-> "RCPT", rcpt |-> Envelope[k - 2]]
        BY <3>0, LaterSteps, Zenon
      <4> QED  BY <4>1, <4>2
    <3> QED  BY <3>1
  <2>2. /\ srv = Session("command", m, {m} \X Named(k - 3), {}, TRUE)
        /\ SessionAt(m, k + 1) = Session("command", m, {m} \X Named((k + 1) - 3), {}, TRUE)
    <3>1. k \in 3..RcptCount + 3 /\ k + 1 \in 3..RcptCount + 3
      BY <1>0, <1>10
    <3> QED  BY <1>4, <3>1, SessionFacts
  <2>3. CASE srv' = [srv EXCEPT !.rcpts = @ \cup {<<c.msg, c.rcpt>>}] /\ Reply("RCPT", "2xx", 1, FALSE)
    <3>1. k - 2 \in 1..RcptCount /\ (k + 1) - 3 = k - 2 /\ (k - 2) - 1 = k - 3
      BY <1>0, <1>10
    <3> DEFINE A == Named(k - 3)
               B == Named((k + 1) - 3)
    <3>2. B = A \cup {Envelope[k - 2]}
      <4>1. Named(k - 2) = Named((k - 2) - 1) \cup {Envelope[k - 2]}
        BY <3>1, NamedFacts
      <4> QED  BY <3>1, <4>1
    <3>3. c.rcpt = Envelope[k - 2]
      BY <1>1, <2>1
    <3>4. srv = Session("command", m, {m} \X A, {}, TRUE) /\ SessionAt(m, k + 1) = Session("command", m, {m} \X B, {}, TRUE)
      BY <2>2
    <3> HIDE DEF A, B
    <3>5. {m} \X B = ({m} \X A) \cup {<<m, Envelope[k - 2]>>}
      BY <3>2
    <3>6. srv' = Session("command", m, ({m} \X A) \cup {<<c.msg, c.rcpt>>}, {}, TRUE)
      <4>1. /\ srv'.phase = "command" /\ srv'.from = m /\ srv'.rcpts = ({m} \X A) \cup {<<c.msg, c.rcpt>>}
            /\ srv'.bodies = {} /\ srv'.junk = FALSE /\ srv'.whole = TRUE
        BY <2>3, <3>4 DEF Session
      <4> QED  BY <1>4, <4>1, SessionIs
    <3>7. srv' = SessionAt(m, k + 1)
      BY <1>1, <3>3, <3>4, <3>5, <3>6
    <3> QED  BY <1>6, <2>1, <2>3, <3>7
  <2> QED  BY <1>1, <1>4, <1>7, <2>1, <2>3 DEF TakeCommand, Simple
<1>11. CASE k = RcptCount + 3
  <2>1. x.verb = "DATA"
    BY <1>0, <1>3, <1>11, AfterHelloSteps, PlainVerb
  <2>2. /\ srv = Session("command", m, {m} \X Recipients, {}, TRUE)
        /\ SessionAt(m, k + 1) = Session("data", m, {m} \X Recipients, {}, TRUE)
    <3>1. k \in 3..RcptCount + 3 /\ k + 1 = RcptCount + 4 /\ k - 3 \in Int /\ k - 3 >= RcptCount
      BY <1>0, <1>11
    <3>2. Named(k - 3) = Recipients
      BY <3>1, NamedFacts
    <3>3. srv = Session("command", m, {m} \X Named(k - 3), {}, TRUE)
      BY <1>4, <3>1, SessionFacts
    <3>4. SessionAt(m, k + 1) = Session("data", m, {m} \X Recipients, {}, TRUE)
      BY <3>1, SessionFacts
    <3> QED  BY <3>2, <3>3, <3>4
  <2>3. CASE srv' = [srv EXCEPT !.phase = "data"] /\ Reply("DATA", "3xx", 1, FALSE)
    <3>1. srv' = SessionAt(m, k + 1)
      <4>1. /\ srv'.phase = "data" /\ srv'.from = m /\ srv'.rcpts = {m} \X Recipients /\ srv'.bodies = {}
            /\ srv'.junk = FALSE /\ srv'.whole = TRUE
        BY <2>2, <2>3 DEF Session
      <4>2. srv' = Session("data", m, {m} \X Recipients, {}, TRUE)
        BY <1>4, <4>1, SessionIs
      <4> QED  BY <2>2, <4>2
    <3> QED  BY <1>6, <2>1, <2>3, <3>1
  <2> QED  BY <1>1, <1>4, <1>7, <2>1, <2>3 DEF TakeCommand, Simple
<1>12. k <= 1 \/ k = 2 \/ k \in 3..RcptCount + 2 \/ k = RcptCount + 3
  BY <1>0, <1>2, <1>4
<1> QED  BY <1>8, <1>9, <1>10, <1>11, <1>12


LEMMA BodyKept ==
  ASSUME UNCHANGED body
  PROVE  \A m, k : Attached(m)' = Attached(m) /\ SessionAt(m, k)' = SessionAt(m, k)
BY DEF Attached, SessionAt, Fresh, Session, Named

(* Between two awaits the server takes the body at most.                   *)
LEMMA ServeSynced ==
  ASSUME Undotted, Types, Serve, NEW m \in Msgs, NEW k \in Int, Synced(m, k)
  PROVE  k = Length /\ Synced(m, k)' /\ UNCHANGED <<in, net>>
<1>1. net = "up" /\ out # <<>> /\ out' = Tail(out) /\ UNCHANGED body
  BY ServeShape DEF user
<1>2. k = Length /\ out = <<TextLine(m)>> /\ srv = SessionAt(m, k - 1)
  BY <1>1 DEF Synced
<1>3. \A a : Head(<<a>>) = a /\ Tail(<<a>>) = <<>>
  OBVIOUS
<1>4. srv' = SessionAt(m, Length) /\ UNCHANGED <<in, net>>
  BY <1>2, <1>3, ServeText
<1>5. srv' = SessionAt(m, k)'
  BY <1>1, <1>2, <1>4, BodyKept
<1> QED  BY <1>1, <1>2, <1>3, <1>4, <1>5 DEF Synced

LEMMA ServeReady ==
  ASSUME Undotted, Types, Serve, NEW m \in Msgs, NEW todo \in Scripts, Ready(m, todo)
  PROVE  Ready(m, todo)' /\ UNCHANGED net
<1>1. net = "up"
  BY ServeShape
<1>2. Synced(m, Position(todo))' /\ UNCHANGED <<in, net>>
  BY <1>1, ServeSynced, ScriptStep DEF Ready
<1> QED  BY <1>2 DEF Ready, Greets, Position

(* The end of a body is answered: taken, the message is delivered.         *)
LEMMA DotAnswered ==
  ASSUME NEW m \in Msgs, srv \in SessionSet, srv = SessionAt(m, Length), NEW c, c.verb = "DOT", TakeData(c), UNCHANGED body
  PROVE  \E code \in Codes : Reply("DOT", code, 1, FALSE) /\ (code = "2xx" => Answered(m, Length)')
<1>1. srv = Session("data", m, {m} \X Recipients, {m}, Attached(m))
  BY SessionFacts
<1>2. /\ srv.from = m /\ srv.rcpts = {m} \X Recipients /\ srv.bodies = {m} /\ srv.junk = FALSE
      /\ Attached(m) => srv.whole
  <2>1. srv.whole = Attached(m)
    BY <1>1 DEF Session
  <2> QED  BY <1>1, <2>1 DEF Session
<1>3. CASE delivered' = delivered \cup {Mail} /\ Reply("DOT", "2xx", 1, FALSE)
  <2>1. ASSUME Attached(m) PROVE Delivered(m)'
    <3>1. Mail.from = m /\ Mail.rcpts = {m} \X Recipients /\ Mail.bodies = {m} /\ ~Mail.junk /\ Mail.whole
      BY <1>2, <2>1 DEF Mail
    <3> QED  BY <1>3, <3>1 DEF Delivered
  <2>2. Answered(m, Length)'
    BY <2>1, BodyKept DEF Answered
  <2> QED  BY <1>3, <2>2 DEF Codes
<1>4. CASE \E code \in Bad : Reply("DOT", code, 1, FALSE)
  BY <1>4, BadType
<1> QED  BY <1>3, <1>4, TakeDataCases

LEMMA ServeAwaiting ==
  ASSUME Undotted, Types, Serve, NEW m \in Msgs, NEW todo \in Scripts, Awaiting(m, todo),
         Head(todo).verb \in Commands \cup {"greeting"}
  PROVE  Awaiting(m, todo)' /\ UNCHANGED net
<1> DEFINE k == Position(todo)
           c == Line(m, Head(todo))
<1>0. RcptCount \in Nat \ {0} /\ Length = RcptCount + 5 /\ k \in Int
  BY NamedFacts, ScriptStep
<1>1. net = "up" /\ out # <<>> /\ out' = Tail(out) /\ UNCHANGED body /\ Head(out) \in LineSet
  BY ServeShape DEF user
<1>2. in = <<>> /\ (Synced(m, k) \/ Sent(m, k, c))
  BY <1>1 DEF Awaiting
<1>3. CASE Synced(m, k)
  BY <1>0, <1>2, <1>3, ServeSynced DEF Awaiting, Position
<1>4. \A a, b : Head(<<a>>) = a /\ Tail(<<a>>) = <<>> /\ Head(<<a, b>>) = a /\ Tail(<<a, b>>) = <<b>>
  OBVIOUS
<1>5. CASE k = Length /\ out = <<TextLine(m), c>> /\ srv = SessionAt(m, k - 1)
  <2>1. srv' = SessionAt(m, Length) /\ UNCHANGED <<in, net>>
    BY <1>4, <1>5, ServeText
  <2>2. out' = <<c>> /\ srv' = SessionAt(m, k)'
    BY <1>1, <1>4, <1>5, <2>1, BodyKept
  <2> QED  BY <1>2, <2>1, <2>2 DEF Awaiting, Sent, Line, Position
<1>6. CASE out = <<c>> /\ srv = SessionAt(m, k)
  <2>1. Head(todo).verb \in Commands /\ Head(out) = c /\ out' = <<>>
    <3>1. c.verb \in Commands \cup {"text"}
      BY <1>1, <1>4, <1>6 DEF LineSet
    <3>2. "greeting" \notin Commands \cup {"text"}
      BY DEF Commands
    <3> QED  BY <1>1, <1>4, <1>6, <3>1, <3>2 DEF Line
  <2>2. /\ k <= Length /\ c.verb = Head(todo).verb /\ c.verb # "QUIT" /\ (c.verb = "DOT" <=> k = Length)
        /\ k <= RcptCount + 3 \/ k = Length
    BY <2>1, CommandAt
  <2>3. srv.phase = IF k <= RcptCount + 3 THEN "command" ELSE "data"
    BY <1>0, <1>6, <2>2, SessionOfOne
  <2>4. srv \in SessionSet /\ srv' \in SessionSet
    BY ServeTypes DEF Types, LinkTypes
  <2>5. ASSUME NEW code, NEW n, NEW tls, Reply(c.verb, code, n, tls), code = Wanted(c.verb) => Answered(m, k)'
        PROVE  Awaiting(m, todo)'
    <3>1. in' = <<Answer(c.verb, code, n, tls)>>
      BY <1>2, <2>5 DEF Reply
    <3>2. Len(in') = 1 /\ in'[1].code = code
      BY <3>1 DEF Answer
    <3> QED  BY <2>1, <2>2, <2>5, <3>2 DEF Awaiting, Position
  <2>6. CASE k <= RcptCount + 3
    <3>1. srv.phase = "command" /\ k # Length
      BY <1>0, <2>3, <2>6
    <3>2. TakeCommand(c) /\ UNCHANGED net
      BY <2>1, <2>2, <3>1, ServeShape
    <3>3. PICK code \in Codes, n \in Nat, tls \in BOOLEAN :
            Reply(c.verb, code, n, tls) /\ (code = Wanted(c.verb) => srv' = SessionAt(m, k + 1))
      BY <1>6, <2>1, <2>2, <2>4, <2>6, <3>1, <3>2, CommandAnswered
    <3>4. srv' = SessionAt(m, k + 1) => Answered(m, k)'
      BY <1>1, <3>1, BodyKept DEF Answered
    <3> QED  BY <2>5, <3>2, <3>3, <3>4
  <2>7. CASE k = Length
    <3>1. srv.phase = "data" /\ c.verb = "DOT"
      BY <1>0, <2>2, <2>3, <2>7
    <3>2. TakeData(c) /\ UNCHANGED net
      BY <2>1, <3>1, ServeShape
    <3>3. PICK code \in Codes : Reply("DOT", code, 1, FALSE) /\ (code = "2xx" => Answered(m, Length)')
      BY <1>1, <1>6, <2>4, <2>7, <3>1, <3>2, DotAnswered
    <3>4. Wanted("DOT") = "2xx"
      BY DEF Wanted
    <3> QED  BY <2>5, <2>7, <3>1, <3>2, <3>3, <3>4
  <2> QED  BY <2>2, <2>6, <2>7
<1> QED  BY <1>2, <1>3, <1>5, <1>6 DEF Sent

-----------------------------------------------------------------------------
(* What a step of a job leaves of the jobs.                                *)
Kept(t)  == job'[t].op = job[t].op /\ job'[t].todo = job[t].todo /\ job'[t].at = job[t].at /\ job'[t].msg = job[t].msg
Ended(s) == Running' = Running \ {s} /\ \A t \in Slots \ {s} : Kept(t)
Continued(s, todo, at) == /\ Running' = Running /\ \A t \in Slots \ {s} : Kept(t)
                          /\ job'[s].todo = todo /\ job'[s].at = at /\ job'[s].msg = job[s].msg

LEMMA OthersKept ==
  ASSUME Types, NEW s \in Slots, NEW j, NEW jobs, jobs = job \/ jobs = Rebuilt(s), job' = [jobs EXCEPT ![s] = j]
  PROVE  job'[s] = j /\ \A t \in Slots \ {s} : Kept(t)
<1>1. job \in [Slots -> JobSet] /\ Rebuilt(s) \in [Slots -> JobSet]
  BY RebuiltTypes DEF Types, JobTypes
<1>2. job'[s] = j /\ \A t \in Slots \ {s} : job'[t] = jobs[t]
  BY <1>1
<1>3. ASSUME NEW t \in Slots \ {s} PROVE Kept(t)
  <2>1. Rebuilt(s)[t] = IF t # s /\ job[t].at = "reply" THEN [job[t] EXCEPT !.stale = TRUE] ELSE job[t]
    BY DEF Rebuilt
  <2>2. job[t] \in JobSet
    BY <1>1
  <2>3. LET u == [job[t] EXCEPT !.stale = TRUE] IN
        u.op = job[t].op /\ u.todo = job[t].todo /\ u.at = job[t].at /\ u.msg = job[t].msg
    BY <2>2 DEF JobSet
  <2> QED  BY <1>2, <2>1, <2>3 DEF Kept
<1> QED  BY <1>2, <1>3

LEMMA RunningAfter ==
  ASSUME NEW s \in Slots, \A t \in Slots \ {s} : Kept(t)
  PROVE  /\ job'[s].op = "none" => Running' = Running \ {s}
         /\ job'[s].op = job[s].op => Running' = Running
         /\ job'[s].op # "none" => Running' = Running \cup {s}
BY DEF Running, Kept

LEMMA FinishEnds ==
  ASSUME Types, NEW s \in Running, NEW jobs, jobs = job \/ jobs = Rebuilt(s), NEW how, Finish(jobs, s, how)
  PROVE  /\ Ended(s)
         /\ \A m \in Msgs : result'[m] = result[m] \/ (m = job[s].msg /\ result'[m] = how)
<1>1. s \in Slots
  BY JobFacts
<1>2. job'[s] = Idle /\ \A t \in Slots \ {s} : Kept(t)
  BY <1>1, OthersKept DEF Finish
<1>3. Ended(s)
  BY <1>1, <1>2, IdleType, RunningAfter DEF Ended
<1>4. result \in ResultSet /\ result' = IF job[s].msg = 0 THEN result ELSE [result EXCEPT ![job[s].msg] = how]
  BY DEF Finish, Types, UserTypes
<1> QED  BY <1>3, <1>4 DEF ResultSet

LEMMA FailEnds ==
  ASSUME Types, NEW s \in Running, Fail(s)
  PROVE  Ended(s) /\ \A m \in Msgs : Reported(m)' => Reported(m)
<1>1. Ended(s) /\ \A m \in Msgs : result'[m] = result[m] \/ (m = job[s].msg /\ result'[m] = "failed")
  BY FinishEnds DEF Fail
<1> QED  BY <1>1 DEF Reported

LEMMA ProceedContinues ==
  ASSUME Types, NEW s \in Running, NEW jobs, jobs = job \/ jobs = Rebuilt(s), NEW todo, todo # <<>>, Proceed(jobs, s, todo)
  PROVE  Continued(s, todo, "step") /\ UNCHANGED result
<1>1. s \in Slots /\ job[s] \in JobSet
  BY JobFacts
<1>2. jobs \in [Slots -> JobSet] /\ jobs[s] = job[s]
  BY <1>1, RebuiltTypes DEF Types, JobTypes
<1>3. job' = [jobs EXCEPT ![s].todo = todo, ![s].at = "step"] /\ UNCHANGED result
  BY DEF Proceed
<1> DEFINE j == [job[s] EXCEPT !.todo = todo, !.at = "step"]
<1>4. job' = [jobs EXCEPT ![s] = j]
  BY <1>1, <1>2, <1>3
<1>5. j.op = job[s].op /\ j.todo = todo /\ j.at = "step" /\ j.msg = job[s].msg
  BY <1>1 DEF JobSet
<1> HIDE DEF j
<1>6. job'[s] = j /\ \A t \in Slots \ {s} : Kept(t)
  BY <1>1, <1>4, OthersKept
<1> QED  BY <1>1, <1>3, <1>5, <1>6, RunningAfter DEF Continued

LEMMA AtContinues ==
  ASSUME Types, NEW s \in Running, NEW at, job' = [job EXCEPT ![s].at = at]
  PROVE  Continued(s, job[s].todo, at)
<1>1. s \in Slots /\ job[s] \in JobSet
  BY JobFacts
<1> DEFINE j == [job[s] EXCEPT !.at = at]
<1>2. job' = [job EXCEPT ![s] = j]
  BY <1>1 DEF Types, JobTypes
<1>3. j.op = job[s].op /\ j.todo = job[s].todo /\ j.at = at /\ j.msg = job[s].msg
  BY <1>1 DEF JobSet
<1> HIDE DEF j
<1>4. job'[s] = j /\ \A t \in Slots \ {s} : Kept(t)
  BY <1>1, <1>2, OthersKept
<1> QED  BY <1>1, <1>3, <1>4, RunningAfter DEF Continued

(* The same connection and message, the same place in the script.          *)
LEMMA PlaceKept ==
  ASSUME NEW m, NEW todo, UNCHANGED <<net, out, in, srv, delivered, body>>
  PROVE  (Ready(m, todo) => Ready(m, todo)') /\ (Awaiting(m, todo) => Awaiting(m, todo)')
<1>1. \A k : SessionAt(m, k)' = SessionAt(m, k) /\ Attached(m)' = Attached(m)
  BY BodyKept
<1>2. \A k : Synced(m, k)' = Synced(m, k) /\ \A c : Sent(m, k, c)' = Sent(m, k, c)
  BY <1>1 DEF Synced, Sent
<1>3. Delivered(m)' = Delivered(m)
  BY DEF Delivered
<1>4. \A k : Answered(m, k)' = Answered(m, k)
  BY <1>1, <1>3 DEF Answered
<1>5. Ready(m, todo) => Ready(m, todo)'
  BY <1>2 DEF Ready
<1>6. Awaiting(m, todo) => Awaiting(m, todo)'
  BY <1>2, <1>4 DEF Awaiting
<1> QED  BY <1>5, <1>6

LEMMA WireKept ==
  ASSUME Wire, UNCHANGED <<driver, overlapped>>, net' = "up" => net = "up" /\ UNCHANGED <<srv, out>>
  PROVE  Wire'
<1> SUFFICES ASSUME Window', ~overlapped', net' = "up" PROVE (\E m \in Msgs : OfOne(m))'
  BY DEF Wire
<1>1. PICK m \in Msgs : OfOne(m)
  BY DEF Wire, Window
<1>2. OfOne(m)'
  BY <1>1 DEF OfOne, OfOneSession
<1> QED  BY <1>2

LEMMA ResultsKept ==
  ASSUME Results, UNCHANGED <<driver, delivered, body>>, \A m \in Msgs : Reported(m)' => Reported(m)
  PROVE  Results'
<1>1. \A m : Delivered(m)' = Delivered(m) /\ Attached(m)' = Attached(m)
  BY DEF Delivered, Attached
<1> QED  BY <1>1 DEF Results, Window, AttachedMeansDelivered, NothingMixed

(* A job that ends leaves no other one on a connection of its own.         *)
LEMMA EndedKeeps ==
  ASSUME Types, Alone, Flow, NEW s \in Running, Ended(s), UNCHANGED <<driver, overlapped>>
  PROVE  Alone' /\ Flow' /\ Steps'
<1>1. \A t \in Running' : t \in Running /\ Kept(t)
  BY DEF Ended, Running
<1>2. Alone'
  BY <1>1 DEF Alone
<1>3. Flow'
  BY <1>1 DEF Flow, Window, Kept, Now
<1>4. Steps'
  BY DEF Alone, Ended, Steps
<1> QED  BY <1>2, <1>3, <1>4

LEMMA ContinuedKeeps ==
  ASSUME Types, Alone, Flow, NEW s \in Running, NEW todo, NEW at, Continued(s, todo, at), UNCHANGED <<driver, overlapped>>,
         Window => /\ todo \in Scripts /\ at # "token" /\ (at = "handshake" => Head(todo).verb = "upgrade")
                   /\ ~overlapped /\ ~Unconnected(Head(todo).verb) => InStepAt(s)'
  PROVE  Alone' /\ Flow' /\ Steps'
<1>1. Running' = Running /\ s \in Slots /\ \A t \in Running \ {s} : Kept(t)
  BY JobFacts DEF Continued, Running
<1>2. Alone'
  BY <1>1 DEF Alone
<1>3. Flow'
  BY <1>1 DEF Flow, Window, Kept, Now, Continued
<1>4. Steps'
  BY <1>1 DEF Alone, Steps, Continued, Now, Window
<1> QED  BY <1>2, <1>3, <1>4

LEMMA FailKeeps ==
  ASSUME Types, Parts, NEW s \in Running, Fail(s), UNCHANGED <<driver, delivered, body, overlapped>>,
         net' = "up" => net = "up" /\ UNCHANGED <<srv, out>>
  PROVE  Parts'
BY FailEnds, EndedKeeps, WireKept, ResultsKept DEF Parts

LEMMA UnmovedKeeps ==
  ASSUME Alone, Flow, Steps, UNCHANGED <<driver, net, out, in, srv, delivered, job, body, overlapped>>
  PROVE  Alone' /\ Flow' /\ Steps'
<1>1. Running' = Running
  BY DEF Running
<1>2. Alone' /\ Flow'
  BY <1>1 DEF Alone, Flow, Window, Now
<1>3. \A m, todo : (Ready(m, todo) => Ready(m, todo)') /\ (Awaiting(m, todo) => Awaiting(m, todo)')
  BY PlaceKept
<1>4. \A s : InStepAt(s) => InStepAt(s)'
  BY <1>3 DEF InStepAt
<1> QED  BY <1>1, <1>2, <1>4 DEF Steps, Window, Now

LEMMA StillKeeps ==
  ASSUME Types, Parts, UNCHANGED <<driver, link, job, body, overlapped>>,
         \A m \in Msgs : Reported(m)' => Reported(m)
  PROVE  Parts'
<1>1. UNCHANGED <<net, out, in, srv, delivered>>
  BY DEF link
<1> QED  BY <1>1, WireKept, ResultsKept, UnmovedKeeps DEF Parts

-----------------------------------------------------------------------------
(* The steps of a job, one by one.                                         *)
LEMMA StepOf ==
  ASSUME Types, NEW s \in Slots, JobStep(s)
  PROVE  s \in Running
BY DEF JobStep, TokenArrives, CloseConnection, EstablishRefused, Establish, EstablishFails, UpgradeToTLS, HandshakeEnds,
       WriteCommand, ReadGreeting, ReadResponse, ReadTimesOut, ReadFails, StaleReadResumes, AtStep, Waiting

LEMMA PlaceOf ==
  ASSUME Types, Parts, Window, NEW s \in Running
  PROVE  /\ job[s].msg \in Msgs /\ job[s].todo \in Scripts /\ Now(s) = Head(job[s].todo) /\ Rest(s) = Tail(job[s].todo)
         /\ job[s].at = "handshake" => Now(s).verb = "upgrade"
         /\ job[s].at = "token" => Now(s).verb = "close"
         /\ ~overlapped /\ job[s].at # "token" /\ ~Unconnected(Now(s).verb) => InStepAt(s)
         /\ Position(job[s].todo) \in Int /\ Position(job[s].todo) <= Length
         /\ Position(job[s].todo) < Length => Rest(s) \in Scripts /\ Position(Rest(s)) = Position(job[s].todo) + 1
<1>1. job[s].msg \in Msgs /\ job[s].todo \in Scripts /\ Now(s) = Head(job[s].todo) /\ Rest(s) = Tail(job[s].todo)
  BY DEF Parts, Flow, Now, Rest
<1>2. /\ Position(job[s].todo) \in Int /\ Position(job[s].todo) <= Length
      /\ Position(job[s].todo) < Length => Rest(s) \in Scripts /\ Position(Rest(s)) = Position(job[s].todo) + 1
  BY <1>1, ScriptStep
<1> QED  BY <1>1, <1>2 DEF Parts, Flow, Steps

LEMMA TextPlace ==
  ASSUME Types, Parts, Window, NEW s \in Running, Now(s).verb = "text"
  PROVE  /\ Position(job[s].todo) = Length - 1 /\ Length \in Nat /\ Tail(job[s].todo) \in Scripts
         /\ Position(Tail(job[s].todo)) = Length /\ Line(job[s].msg, Head(job[s].todo)) = TextLine(job[s].msg)
<1> DEFINE todo == job[s].todo
           k == Position(todo)
<1>1. job[s].msg \in Msgs /\ todo \in Scripts /\ Head(todo).verb = "text"
  BY PlaceOf
<1>2. /\ k \in Int /\ k <= Length /\ Length \in Nat
      /\ k <= 0 => Head(todo).verb \in Opens
      /\ k >= 1 => k \in 1..Length /\ Head(todo) = AfterHello[k]
      /\ k < Length => Tail(todo) \in Scripts /\ Position(Tail(todo)) = k + 1
  BY <1>1, ScriptStep
<1>3. "text" \notin Opens
  BY DEF Opens
<1>4. k \in 1..Length /\ AfterHello[k].verb = "text"
  BY <1>1, <1>2, <1>3
<1>5. k = RcptCount + 4 /\ AfterHello[k] = Plain("text")
  <2>1. job[s].msg \in Msgs
    BY <1>1
  <2> HIDE DEF k, todo
  <2>2. PICK m \in Msgs : TRUE
    BY <2>1
  <2>3. \/ k = 1 /\ AfterHello[k] = Plain("AUTH")
        \/ k = 2 /\ AfterHello[k] = Plain("MAIL")
        \/ k \in 3..RcptCount + 2 /\ AfterHello[k] = [verb |-> "RCPT", rcpt |-> Envelope[k - 2]]
        \/ k = RcptCount + 3 /\ AfterHello[k] = Plain("DATA")
        \/ k = RcptCount + 4 /\ AfterHello[k] = Plain("text")
        \/ k = Length /\ AfterHello[k] = Plain("DOT")
    BY <1>4, <2>2, LaterSteps
  <2> QED  BY <1>4, <2>3, PlainVerb
<1>6. Head(todo) = Plain("text") /\ k = Length - 1
  BY <1>2, <1>4, <1>5, NamedFacts
<1>7. Line(job[s].msg, Head(todo)) = TextLine(job[s].msg)
  BY <1>6, PlainVerb DEF Line, TextLine
<1> QED  BY <1>1, <1>2, <1>6, <1>7

LEMMA CrashKeeps ==
  ASSUME Types, Parts, Crash
  PROVE  Parts'
BY StillKeeps DEF Crash, user, Reported

LEMMA FailingSteps ==
  ASSUME Types, Parts, NEW s \in Running,
         EstablishRefused(s) \/ EstablishFails(s) \/ ReadTimesOut(s) \/ ReadFails(s) \/ StaleReadResumes(s)
  PROVE  Parts'
<1>1. CASE Crash
  BY <1>1, CrashKeeps
<1>2. (Fail(s) /\ UNCHANGED <<driver, link, body, overlapped>>) \/ Crash
  BY DEF EstablishRefused, EstablishFails, ReadTimesOut, ReadFails, StaleReadResumes
<1>3. CASE Fail(s) /\ UNCHANGED <<driver, link, body, overlapped>>
  BY <1>3, FailKeeps DEF link
<1> QED  BY <1>1, <1>2, <1>3

(* Where the connection is as the script wants it, the job is in step.     *)
LEMMA ReadyThen ==
  ASSUME NEW s, NEW m, NEW todo, NEW at \in {"step", "handshake"}, Continued(s, todo, at), m = job[s].msg, Ready(m, todo)',
         net' # "up" => out' = <<>>
  PROVE  InStepAt(s)'
<1>1. Ready(job[s].msg, job[s].todo)'
  <2>1. job'[s].msg = m /\ job'[s].todo = todo
    BY DEF Continued
  <2> QED  BY <2>1 DEF Ready
<1>2. job'[s].at \in {"step", "handshake"}
  BY DEF Continued
<1> QED  BY <1>1, <1>2 DEF InStepAt

LEMMA AwaitingThen ==
  ASSUME NEW s, NEW m, NEW todo, Continued(s, todo, "reply"), m = job[s].msg, Awaiting(m, todo)', net' # "up" => out' = <<>>
  PROVE  InStepAt(s)'
<1>1. Awaiting(job[s].msg, job[s].todo)'
  <2>1. job'[s].msg = m /\ job'[s].todo = todo
    BY DEF Continued
  <2> QED  BY <2>1 DEF Awaiting
<1>2. job'[s].at = "reply"
  BY DEF Continued
<1> QED  BY <1>1, <1>2 DEF InStepAt

(* A step that goes on.                                                    *)
LEMMA GoingOn ==
  ASSUME Types, Parts, NEW s \in Running, NEW todo, NEW at, Continued(s, todo, at),
         UNCHANGED <<driver, delivered, body, overlapped, result>>, Wire',
         Window => /\ todo \in Scripts /\ at # "token" /\ (at = "handshake" => Head(todo).verb = "upgrade")
                   /\ ~overlapped /\ ~Unconnected(Head(todo).verb) => InStepAt(s)'
  PROVE  Parts'
<1>1. Alone' /\ Flow' /\ Steps'
  BY ContinuedKeeps DEF Parts
<1>2. Results'
  BY ResultsKept DEF Parts, Reported
<1> QED  BY <1>1, <1>2 DEF Parts

LEMMA ProceedKeeps ==
  ASSUME Types, Parts, NEW s \in Running, NEW jobs, jobs = job \/ jobs = Rebuilt(s), NEW todo, Proceed(jobs, s, todo),
         UNCHANGED <<driver, delivered, body, overlapped>>, Wire',
         Window => todo \in Scripts /\ (~overlapped /\ ~Unconnected(Head(todo).verb) => InStepAt(s)')
  PROVE  Parts'
<1>1. CASE todo = <<>>
  <2>1. ~Window
    BY <1>1, PlaceOf, ScriptCases
  <2>2. Ended(s)
    BY <1>1, FinishEnds DEF Proceed
  <2>3. Results'
    BY <2>1 DEF Results, Window
  <2> QED  BY <2>2, <2>3, EndedKeeps DEF Parts
<1>2. CASE todo # <<>>
  <2>1. Continued(s, todo, "step") /\ UNCHANGED result
    BY <1>2, ProceedContinues
  <2> QED  BY <2>1, GoingOn
<1> QED  BY <1>1, <1>2

LEMMA TokenArrivesKeeps ==
  ASSUME Types, Parts, NEW s \in Running, TokenArrives(s)
  PROVE  Parts'
<1>0. job[s].at = "token" /\ UNCHANGED <<driver, link, body, overlapped>> /\ UNCHANGED <<net, srv, out, delivered>>
  BY DEF TokenArrives, link
<1>1. CASE Fail(s)
  BY <1>0, <1>1, FailKeeps
<1>2. CASE job' = [job EXCEPT ![s].at = "step"] /\ UNCHANGED result
  <2>1. Continued(s, job[s].todo, "step")
    BY <1>2, AtContinues
  <2>2. Window => job[s].todo \in Scripts /\ Unconnected(Head(job[s].todo).verb)
    BY <1>0, PlaceOf DEF Unconnected
  <2>3. Wire'
    BY <1>0, WireKept DEF Parts
  <2> QED  BY <1>0, <1>2, <2>1, <2>2, <2>3, GoingOn
<1> QED  BY <1>1, <1>2 DEF TokenArrives

LEMMA CloseConnectionKeeps ==
  ASSUME Types, Parts, NEW s \in Running, CloseConnection(s)
  PROVE  Parts'
<1>1. CASE Crash
  BY <1>1, CrashKeeps
<1>2. CASE ~Crash
  <2>1. /\ net' = "none" /\ Proceed(Rebuilt(s), s, Rest(s)) /\ UNCHANGED <<driver, delivered, body, overlapped>>
        /\ Now(s).verb = "close"
    BY <1>2 DEF CloseConnection, AtStep
  <2>2. Wire'
    BY <2>1, WireKept DEF Parts
  <2>3. ASSUME Window PROVE Rest(s) \in Scripts /\ Unconnected(Head(Rest(s)).verb)
    <3>1. Position(job[s].todo) <= -2 /\ Length >= 6 /\ Length \in Nat /\ Head(Tail(job[s].todo)).verb = "establish"
      BY <2>1, <2>3, PlaceOf, OpeningSteps, ScriptStep
    <3>2. Rest(s) \in Scripts
      BY <2>3, <3>1, PlaceOf
    <3> QED  BY <3>1, <3>2 DEF Unconnected, Rest
  <2> QED  BY <2>1, <2>2, <2>3, ProceedKeeps
<1> QED  BY <1>1, <1>2

LEMMA EstablishKeeps ==
  ASSUME Types, Parts, NEW s \in Running, Establish(s)
  PROVE  Parts'
<1>1. /\ net' = "up" /\ srv' = Fresh /\ out' = <<>> /\ Len(in') = 1 /\ overlapped' = (Running # {s})
      /\ Proceed(job, s, Rest(s)) /\ UNCHANGED <<driver, delivered, body>> /\ Now(s).verb = "establish" /\ job[s].at = "step"
  BY DEF Establish, AtStep
<1>2. CASE ~Window
  <2>1. Flow' /\ Wire' /\ Steps' /\ Results'
    BY <1>1, <1>2 DEF Flow, Wire, Steps, Results, Window
  <2>2. Running' \subseteq Running
    <3>1. CASE Rest(s) = <<>>
      BY <1>1, <3>1, FinishEnds DEF Proceed, Ended
    <3>2. CASE Rest(s) # <<>>
      BY <1>1, <3>2, ProceedContinues DEF Continued
    <3> QED  BY <3>1, <3>2
  <2>3. Alone'
    BY <1>1, <2>2 DEF Alone
  <2> QED  BY <2>1, <2>3 DEF Parts
<1>3. CASE Window
  <2>0. PICK m \in Msgs, todo \in {Rest(s)} : m = job[s].msg /\ todo = Rest(s)
    BY <1>3, PlaceOf
  <2>1. todo \in Scripts /\ Greets(todo) /\ Position(todo) \in Int /\ Position(todo) <= -1 /\ ~Unconnected(Head(todo).verb)
    <3>1. /\ Position(job[s].todo) <= -2 /\ Length >= 6 /\ Length \in Nat
          /\ Greets(Tail(job[s].todo)) /\ ~Unconnected(Head(Tail(job[s].todo)).verb)
      BY <1>1, <1>3, PlaceOf, OpeningSteps, ScriptStep
    <3>2. todo = Tail(job[s].todo) /\ Rest(s) \in Scripts /\ Position(Rest(s)) = Position(job[s].todo) + 1
          /\ Position(job[s].todo) \in Int
      BY <1>3, <2>0, <3>1, PlaceOf
    <3>3. todo \in Scripts /\ Position(todo) \in Int /\ Position(todo) <= -1
      BY <2>0, <3>1, <3>2
    <3> QED  BY <3>1, <3>2, <3>3
  <2>2. Continued(s, todo, "step") /\ UNCHANGED result /\ s \in Slots
    BY <1>1, <2>0, <2>1, ScriptCases, ProceedContinues, JobFacts
  <2>3. overlapped' \/ \A t \in Running' : t = s
    BY <1>1, <2>2 DEF Continued
  <2>4. Alone'
    BY <2>3 DEF Alone
  <2>5. Flow'
    BY <1>3, <2>1, <2>2 DEF Parts, Flow, Window, Kept, Now, Continued, Running
  <2>6. OfOne(m)'
    BY <1>1 DEF OfOne, OfOneSession, Fresh
  <2>7. Wire'
    BY <2>6 DEF Wire
  <2>8. Ready(m, todo)'
    <3>1. SessionAt(m, Position(todo))' = Fresh
      <4>1. Position(todo) <= 2
        BY <2>1
      <4>2. SessionAt(m, Position(todo)) = Fresh
        BY <2>1, <4>1, SessionFacts
      <4> QED  BY <1>1, <4>2, BodyKept
    <3>2. Synced(m, Position(todo))'
      BY <1>1, <3>1 DEF Synced
    <3> QED  BY <1>1, <2>1, <3>2 DEF Ready
  <2>9. InStepAt(s)'
    BY <1>1, <2>0, <2>2, <2>8, ReadyThen
  <2>10. Steps'
    BY <2>3, <2>9 DEF Steps
  <2>11. Results'
    BY <1>1, <2>2, ResultsKept DEF Parts, Reported
  <2> QED  BY <2>4, <2>5, <2>7, <2>10, <2>11 DEF Parts
<1> QED  BY <1>2, <1>3

LEMMA UpgradeToTLSKeeps ==
  ASSUME Types, Parts, NEW s \in Running, UpgradeToTLS(s)
  PROVE  Parts'
<1>1. Now(s).verb = "upgrade" /\ job[s].at = "step" /\ UNCHANGED <<driver, link, body, overlapped>>
      /\ UNCHANGED <<net, out, in, srv, delivered>>
  BY DEF UpgradeToTLS, AtStep, link
<1>2. CASE Fail(s)
  BY <1>1, <1>2, FailKeeps
<1>3. CASE job' = [job EXCEPT ![s].at = "handshake"] /\ UNCHANGED result
  <2>1. Continued(s, job[s].todo, "handshake")
    BY <1>3, AtContinues
  <2>2. Wire'
    BY <1>1, WireKept DEF Parts
  <2>3. ASSUME Window, ~overlapped PROVE InStepAt(s)'
    <3>1. PICK m \in Msgs, todo \in {job[s].todo} : m = job[s].msg /\ todo = job[s].todo
      BY <2>3, PlaceOf
    <3>2. InStepAt(s)
      BY <1>1, <2>3, PlaceOf DEF Unconnected
    <3>3. Ready(m, todo)' /\ (net' # "up" => out' = <<>>)
      BY <1>1, <3>1, <3>2, PlaceKept DEF InStepAt
    <3> QED  BY <2>1, <3>1, <3>3, ReadyThen
  <2>4. Window => job[s].todo \in Scripts /\ Head(job[s].todo).verb = "upgrade"
    BY <1>1, PlaceOf
  <2> QED  BY <1>1, <1>3, <2>1, <2>2, <2>3, <2>4, GoingOn
<1> QED  BY <1>2, <1>3 DEF UpgradeToTLS

LEMMA HandshakeEndsKeeps ==
  ASSUME Types, Parts, NEW s \in Running, HandshakeEnds(s)
  PROVE  Parts'
<1>1. job[s].at = "handshake" /\ UNCHANGED <<driver, link, body, overlapped>> /\ UNCHANGED <<net, out, in, srv, delivered>>
  BY DEF HandshakeEnds, link
<1>2. CASE Fail(s)
  BY <1>1, <1>2, FailKeeps
<1>3. CASE net = "up" /\ Proceed(Rebuilt(s), s, Rest(s))
  <2>1. Wire'
    BY <1>1, WireKept DEF Parts
  <2>2. ASSUME Window PROVE Rest(s) \in Scripts /\ (~overlapped => InStepAt(s)')
    <3>0. PICK m \in Msgs, todo \in Scripts : m = job[s].msg /\ todo = job[s].todo
      BY <2>2, PlaceOf
    <3>1. Head(todo).verb = "upgrade" /\ Rest(s) = Tail(todo)
      BY <1>1, <2>2, <3>0, PlaceOf
    <3>2. Position(todo) \in Int /\ Position(todo) <= -1 /\ Length \in Nat /\ Length >= 6 /\ Greets(Tail(todo)) = Greets(todo)
      BY <3>1, OpeningSteps, ScriptStep
    <3>3. Tail(todo) \in Scripts /\ Position(Tail(todo)) = Position(todo) + 1
      BY <3>2, ScriptStep
    <3>4. Continued(s, Tail(todo), "step")
      BY <1>3, <3>1, <3>3, ScriptCases, ProceedContinues
    <3>5. ASSUME ~overlapped PROVE InStepAt(s)'
      <4>1. Ready(m, todo) /\ (net # "up" => out = <<>>)
        BY <1>1, <2>2, <3>0, <3>1, <3>5, PlaceOf DEF InStepAt, Unconnected
      <4>2. out = <<>> /\ srv = SessionAt(m, Position(todo)) /\ (in = <<>> \/ (Greets(todo) /\ Len(in) = 1))
        BY <1>3, <3>2, <4>1 DEF Ready, Synced
      <4>3. SessionAt(m, Position(todo)) = Fresh /\ SessionAt(m, Position(Tail(todo))) = Fresh
        <5>1. Position(Tail(todo)) \in Int /\ Position(todo) <= 2 /\ Position(Tail(todo)) <= 2
          BY <3>2, <3>3
        <5> QED  BY <3>2, <5>1, SessionFacts
      <4>4. Synced(m, Position(Tail(todo)))
        BY <4>2, <4>3 DEF Synced
      <4>5. Ready(m, Tail(todo))
        BY <3>2, <4>2, <4>4 DEF Ready
      <4>6. Ready(m, Tail(todo))' /\ (net' # "up" => out' = <<>>)
        BY <1>1, <4>1, <4>5, PlaceKept
      <4> QED  BY <3>0, <3>4, <4>6, ReadyThen
    <3> QED  BY <3>1, <3>3, <3>5
  <2> QED  BY <1>1, <1>3, <2>1, <2>2, ProceedKeeps
<1> QED  BY <1>2, <1>3 DEF HandshakeEnds

LEMMA ReadGreetingKeeps ==
  ASSUME Types, Parts, NEW s \in Running, ReadGreeting(s)
  PROVE  Parts'
<1>1. CASE Crash
  BY <1>1, CrashKeeps
<1>2. CASE ~Crash
  <2>1. /\ Now(s).verb = "greeting" /\ job[s].at = "step" /\ job' = [job EXCEPT ![s].at = "reply"]
        /\ UNCHANGED <<driver, body, overlapped, result>> /\ UNCHANGED <<net, out, in, srv, delivered>>
    BY <1>2 DEF ReadGreeting, AtStep, link, user
  <2>2. Continued(s, job[s].todo, "reply")
    BY <2>1, AtContinues
  <2>3. Wire'
    BY <2>1, WireKept DEF Parts
  <2>4. ASSUME Window, ~overlapped PROVE InStepAt(s)'
    <3>1. PICK m \in Msgs, todo \in Scripts : m = job[s].msg /\ todo = job[s].todo
      BY <2>4, PlaceOf
    <3>2. Ready(m, todo) /\ (net # "up" => out = <<>>) /\ Head(todo).verb = "greeting"
      BY <2>1, <2>4, <3>1, PlaceOf DEF Unconnected, InStepAt
    <3>3. Position(todo) \in Int /\ Position(todo) <= -1 /\ Length \in Nat /\ Length >= 6
      BY <3>2, OpeningSteps, ScriptStep
    <3>4. ASSUME in = <<>> PROVE Awaiting(m, todo)
      BY <3>2, <3>4 DEF Ready, Awaiting
    <3>5. ASSUME Len(in) = 1 PROVE Awaiting(m, todo)
      <4>1. out = <<>> /\ (net = "up" => srv = SessionAt(m, Position(todo)))
        BY <3>2, <3>3 DEF Ready, Synced
      <4>2. SessionAt(m, Position(todo)) = SessionAt(m, Position(todo) + 1)
        <5>1. Position(todo) + 1 \in Int /\ Position(todo) <= 2 /\ Position(todo) + 1 <= 2
          BY <3>3
        <5> QED  BY <3>3, <5>1, SessionFacts
      <4>3. Answered(m, Position(todo))
        BY <3>3, <4>1, <4>2 DEF Answered
      <4> QED  BY <3>5, <4>1, <4>3 DEF Awaiting
    <3>6. Awaiting(m, todo)
      BY <3>2, <3>4, <3>5 DEF Ready
    <3>7. Awaiting(m, todo)' /\ (net' # "up" => out' = <<>>)
      BY <2>1, <3>2, <3>6, PlaceKept
    <3> QED  BY <2>2, <3>1, <3>7, AwaitingThen
  <2>5. Window => job[s].todo \in Scripts
    BY PlaceOf
  <2> QED  BY <2>1, <2>2, <2>3, <2>4, <2>5, GoingOn
<1> QED  BY <1>1, <1>2

LEMMA OneSessionNext ==
  (/\ \A m \in Msgs, k \in Int : k <= Length /\ Synced(m, k) => OfOne(m)
   /\ \A m \in Msgs, todo \in Scripts :
        Head(todo).verb \in Commands /\ Sent(m, Position(todo), Line(m, Head(todo))) => OfOne(m))'
<1>1. \A m \in Msgs, k \in Int : k <= Length /\ Synced(m, k) => OfOne(m)
  BY SyncedOfOne
<1>2. \A m \in Msgs, todo \in Scripts :
        Head(todo).verb \in Commands /\ Sent(m, Position(todo), Line(m, Head(todo))) => OfOne(m)
  BY SentOfOne
<1> QED  BY <1>1, <1>2, PTL

(* A command goes out behind the body at most; the body goes out alone.    *)
LEMMA WriteCommandKeeps ==
  ASSUME Types, Parts, NEW s \in Running, WriteCommand(s)
  PROVE  Parts'
<1>1. CASE Crash
  BY <1>1, CrashKeeps
<1>2. CASE net # "up" /\ Fail(s) /\ UNCHANGED <<driver, net, out, srv, delivered, body, overlapped>>
  BY <1>2, FailKeeps
<1> DEFINE line == [verb |-> Now(s).verb, rcpt |-> Now(s).rcpt, msg |-> job[s].msg]
           Written == /\ net = "up" /\ out' = Append(out, line)
                      /\ IF Now(s).verb = "text" THEN Proceed(job, s, Rest(s))
                         ELSE job' = [job EXCEPT ![s].at = "reply"] /\ UNCHANGED result
                      /\ UNCHANGED <<driver, net, in, srv, delivered, body, overlapped>>
<1>3. CASE Written
  <2>1. /\ net = "up" /\ net' = "up" /\ out' = Append(out, line) /\ UNCHANGED <<driver, in, srv, delivered, body, overlapped>>
        /\ Now(s).verb = "text" => Proceed(job, s, Rest(s))
        /\ Now(s).verb # "text" => job' = [job EXCEPT ![s].at = "reply"] /\ UNCHANGED result
        /\ Now(s).verb \in Commands \cup {"text"} /\ job[s].at = "step"
    BY <1>3 DEF WriteCommand, AtStep
  <2>2. \A a, b : Append(<<>>, a) = <<a>> /\ Append(<<b>>, a) = <<b, a>>
    <3>1. ASSUME NEW a, NEW b PROVE Append(<<>>, a) = <<a>> /\ Append(<<b>>, a) = <<b, a>>
      <4>1. Append(<<>>, a) = <<a>>
        OBVIOUS
      <4>2. <<b>> \in Seq({a, b}) /\ a \in {a, b}
        OBVIOUS
      <4>3. Append(<<b>>, a) = <<b>> \o <<a>>
        BY <4>2, AppendIsConcat
      <4> QED  BY <4>1, <4>3, LiteralJoins, Zenon
    <3> QED  BY <3>1
  <2>3. "text" \notin Commands /\ \A v \in Commands \cup {"text"} : ~Unconnected(v) /\ v \notin {"upgrade", "greeting"}
    BY DEF Commands, Unconnected
  <2>4. CASE overlapped \/ ~Window
    <3>1. Wire'
      BY <2>1, <2>4 DEF Wire, Window
    <3>2. CASE Now(s).verb = "text"
      <4>1. Window => Rest(s) \in Scripts
        BY <2>1, <3>2, TextPlace DEF Rest
      <4> QED  BY <2>1, <2>4, <3>1, <3>2, <4>1, ProceedKeeps
    <3>3. CASE Now(s).verb # "text"
      <4>1. Continued(s, job[s].todo, "reply")
        BY <2>1, <3>3, AtContinues
      <4>2. Window => job[s].todo \in Scripts
        BY PlaceOf
      <4> QED  BY <2>1, <2>4, <3>1, <3>3, <4>1, <4>2, GoingOn
    <3> QED  BY <3>2, <3>3
  <2>5. CASE ~overlapped /\ Window
    <3>0. PICK m \in Msgs, todo \in Scripts : m = job[s].msg /\ todo = job[s].todo
      BY <2>5, PlaceOf
    <3> DEFINE k == Position(todo)
    <3>1. k \in Int /\ k <= Length /\ Now(s) = Head(todo) /\ Rest(s) = Tail(todo) /\ line = Line(m, Head(todo))
      BY <2>5, <3>0, PlaceOf DEF Line
    <3>2. in = <<>> /\ Synced(m, k)
      <4>1. Ready(m, todo)
        BY <2>1, <2>3, <2>5, <3>0, PlaceOf DEF InStepAt
      <4>2. ~Greets(todo)
        BY <2>1, <2>3, <3>1, OpeningSteps
      <4> QED  BY <2>1, <4>1, <4>2 DEF Ready
    <3>3. \A j : SessionAt(m, j)' = SessionAt(m, j)
      BY <2>1, BodyKept
    <3>4. CASE Now(s).verb = "text"
      <4>1. k = Length - 1 /\ Tail(todo) \in Scripts /\ Position(Tail(todo)) = Length /\ Line(m, Head(todo)) = TextLine(m) /\ Length \in Nat
        BY <2>1, <2>5, <3>0, <3>1, <3>4, TextPlace
      <4>2. out = <<>> /\ srv = SessionAt(m, Length - 1)
        BY <3>2, <4>1 DEF Synced
      <4>3. out' = <<TextLine(m)>> /\ srv' = SessionAt(m, Length - 1)'
        BY <2>1, <2>2, <3>1, <3>3, <4>1, <4>2
      <4>4. Synced(m, Length)'
        BY <4>3 DEF Synced
      <4>5. Ready(m, Tail(todo))'
        BY <2>1, <3>2, <4>1, <4>4 DEF Ready
      <4>6. Continued(s, Tail(todo), "step")
        BY <2>1, <3>1, <3>4, <4>1, ScriptCases, ProceedContinues
      <4>7. InStepAt(s)'
        BY <2>1, <3>0, <4>5, <4>6, ReadyThen
      <4>8. Wire'
        BY <4>1, <4>4, OneSessionNext DEF Wire
      <4> QED  BY <2>1, <3>1, <3>4, <4>1, <4>7, <4>8, ProceedKeeps
    <3>5. CASE Now(s).verb # "text"
      <4>1. Head(todo).verb \in Commands
        BY <2>1, <3>1, <3>5
      <4>2. Sent(m, k, Line(m, Head(todo)))'
        <5>1. CASE out = <<>> /\ srv = SessionAt(m, k)
          BY <2>1, <2>2, <3>1, <3>3, <5>1 DEF Sent
        <5>2. CASE k = Length /\ out = <<TextLine(m)>> /\ srv = SessionAt(m, k - 1)
          BY <2>1, <2>2, <3>1, <3>3, <5>2 DEF Sent
        <5> QED  BY <3>2, <5>1, <5>2 DEF Synced
      <4>3. Awaiting(m, todo)'
        BY <2>1, <3>2, <4>2 DEF Awaiting, Position
      <4>4. Continued(s, todo, "reply")
        BY <2>1, <3>0, <3>5, AtContinues
      <4>5. InStepAt(s)'
        BY <2>1, <3>0, <4>3, <4>4, AwaitingThen
      <4>6. Wire'
        BY <3>1, <4>1, <4>2, OneSessionNext DEF Wire
      <4> QED  BY <2>1, <3>5, <4>4, <4>5, <4>6, GoingOn
    <3> QED  BY <3>4, <3>5
  <2> QED  BY <2>4, <2>5
<1> QED  BY <1>1, <1>2, <1>3 DEF WriteCommand, client

(* An answer that is good for its step moves the job on, or ends it.       *)
LEMMA LastStep ==
  ASSUME NEW m \in Msgs, NEW todo \in Scripts, Position(todo) = Length
  PROVE  Tail(todo) = <<>> /\ Head(todo).verb # "EHLO"
<1>1. todo \in Seq(StepSet) \ {<<>>} /\ Len(todo) \in Nat /\ Length \in Nat /\ Length >= 6
  BY ScriptCases, ScriptStep
<1>2. Len(todo) = 1
  <2>1. Length + 1 - Len(todo) = Length
    BY DEF Position
  <2>2. \A a, b \in Nat : a + 1 - b = a => b = 1
    OBVIOUS
  <2> QED  BY <1>1, <2>1, <2>2, Zenon
<1>3. Tail(todo) \in Seq(StepSet) /\ Len(Tail(todo)) = 0
  BY <1>1, <1>2, HeadTailProperties
<1>4. Head(todo).verb # "EHLO"
  BY <1>1, OpeningSteps
<1> QED  BY <1>3, <1>4, EmptySeq

(* What a job in step finds in an answer good for its step.                *)
LEMMA GoodAnswer ==
  ASSUME Types, Parts, Window, ~overlapped, NEW s \in Running, Waiting(s), in # <<>>, NEW m \in Msgs, NEW todo \in Scripts,
         m = job[s].msg, todo = job[s].todo, Head(in).code = Wanted(Head(todo).verb)
  PROVE  out = <<>> /\ Tail(in) = <<>> /\ Answered(m, Position(todo))
<1>1. ~Unconnected(Head(todo).verb) /\ Now(s) = Head(todo)
  <2>1. Head(todo).verb \in Commands \cup {"greeting"}
    BY JobFacts DEF Types, JobTypes, Waiting
  <2> QED  BY <2>1 DEF Unconnected, Commands, Now
<1>2. Awaiting(m, todo)
  BY <1>1, PlaceOf DEF Waiting, InStepAt
<1>3. out = <<>> /\ Len(in) = 1 /\ (in[1].code = Wanted(Head(todo).verb) => Answered(m, Position(todo)))
  BY <1>2 DEF Awaiting
<1>4. in \in Seq(AnswerSet)
  BY DEF Types, LinkTypes
<1>5. Head(in) = in[1] /\ Tail(in) \in Seq(AnswerSet) /\ Len(Tail(in)) = 0
  BY <1>3, <1>4, HeadTailProperties
<1> QED  BY <1>3, <1>5, EmptySeq

LEMMA ReadResponseKeeps ==
  ASSUME Types, Parts, NEW s \in Running, ReadResponse(s)
  PROVE  Parts'
<1> DEFINE r == Head(in)
           v == Now(s).verb
           next == (IF v = "EHLO" THEN Upgrade(r) ELSE <<>>) \o Rest(s)
<1>0. /\ Waiting(s) /\ in # <<>> /\ UNCHANGED <<driver, net, out, srv, delivered, body, overlapped>>
      /\ in' = (IF WithinLimit(r) THEN <<>> ELSE Unread(r)) \o Tail(in)
      /\ IF Accepted(v, r) THEN Proceed(job, s, next) ELSE Fail(s)
  BY DEF ReadResponse
<1>1. CASE ~Accepted(v, r)
  BY <1>0, <1>1, FailKeeps
<1>2. CASE Accepted(v, r)
  <2>1. Proceed(job, s, next) /\ r.code = Wanted(v) /\ in' = <<>> \o Tail(in)
    BY <1>0, <1>2 DEF Accepted
  <2>2. Wire'
    BY <1>0, WireKept DEF Parts
  <2>3. in \in Seq(AnswerSet) /\ r \in AnswerSet /\ <<>> \o <<>> = <<>>
    BY <1>0, HeadTailProperties DEF Types, LinkTypes
  <2> HIDE DEF next, r, v
  <2>4. CASE ~Window
    BY <1>0, <2>1, <2>2, <2>4, ProceedKeeps
  <2>5. CASE Window
    <3>0. PICK m \in Msgs, todo \in Scripts, rest \in {next} : m = job[s].msg /\ todo = job[s].todo /\ rest = next
      BY <2>5, PlaceOf
    <3>1. v = Head(todo).verb /\ Rest(s) = Tail(todo) /\ rest = (IF v = "EHLO" THEN Upgrade(r) ELSE <<>>) \o Tail(todo)
      BY <3>0 DEF v, next, Now, Rest
    <3>2. Position(todo) \in Int /\ Position(todo) <= Length /\ Length \in Nat /\ Length >= 6
      BY ScriptStep
    <3>3. ASSUME ~overlapped PROVE out = <<>> /\ in' = <<>> /\ Answered(m, Position(todo))
      BY <1>0, <2>1, <2>3, <2>5, <3>0, <3>1, <3>3, GoodAnswer DEF r
    <3>4. CASE Position(todo) = Length
      <4>1. rest = <<>>
        BY <2>3, <3>1, <3>4, LastStep
      <4>2. Finish(job, s, Trust)
        BY <2>1, <3>0, <4>1 DEF Proceed
      <4>3. /\ Ended(s)
            /\ \A a \in Msgs : result'[a] = result[a] \/ (a = m /\ result'[a] = Trust)
        BY <3>0, <4>2, FinishEnds
      <4>4. \A a : Attached(a)' = Attached(a) /\ Delivered(a)' = Delivered(a)
        BY <1>0 DEF Attached, Delivered
      <4>5. ~overlapped => (Attached(m) => Delivered(m))
        BY <3>3, <3>4 DEF Answered
      <4>6. Results'
        <5>1. AttachedMeansDelivered'
          BY <2>5, <4>3, <4>4, <4>5 DEF Parts, Results, AttachedMeansDelivered, Reported, Trust
        <5> QED  BY <1>0, <2>5, <5>1 DEF Parts, Results, NothingMixed
      <4> QED  BY <1>0, <2>2, <4>3, <4>6, EndedKeeps DEF Parts
    <3>5. CASE Position(todo) < Length
      <4>1. /\ rest \in Scripts /\ Position(rest) \in Int
            /\ \/ Position(rest) = Position(todo) + 1
               \/ Position(todo) = 0 /\ Position(rest) <= 1
        <5>1. CASE v = "EHLO"
          <6>1. Position(todo) = 0 /\ Tail(todo) = From(1)
            BY <3>1, <5>1, OpeningSteps
          <6>2. rest = Upgrade(r) \o From(1)
            BY <3>1, <5>1, <6>1
          <6>3. rest \in Scripts /\ Position(rest) <= 1
            BY <2>3, <6>2, UpgradeScripts
          <6> QED  BY <6>1, <6>3, ScriptStep
        <5>2. CASE v # "EHLO"
          <6>1. Tail(todo) \in Scripts /\ Position(Tail(todo)) = Position(todo) + 1
            BY <3>5, ScriptStep
          <6>2. Tail(todo) \in Seq(StepSet)
            BY <6>1, ScriptCases
          <6>3. rest = Tail(todo)
            BY <3>1, <5>2, <6>2, ConcatEmptySeq
          <6> QED  BY <3>2, <6>1, <6>3
        <5> QED  BY <5>1, <5>2
      <4>2. ASSUME ~overlapped PROVE InStepAt(s)'
        <5>1. out' = <<>> /\ in' = <<>> /\ (net' = "up" => srv' = SessionAt(m, Position(todo) + 1))
          BY <1>0, <3>2, <3>3, <3>5, <4>2 DEF Answered
        <5>2. SessionAt(m, Position(todo) + 1) = SessionAt(m, Position(rest))
          <6>1. CASE Position(todo) = 0 /\ Position(rest) <= 1
            <7>1. Position(todo) + 1 <= 2 /\ Position(todo) + 1 \in Int /\ Position(rest) <= 2
              BY <4>1, <6>1
            <7> QED  BY <4>1, <7>1, SessionFacts
          <6> QED  BY <4>1, <6>1
        <5>3. net' = "up" => Synced(m, Position(rest))'
          BY <1>0, <5>1, <5>2, BodyKept DEF Synced
        <5>4. Ready(m, rest)'
          BY <5>1, <5>3 DEF Ready
        <5>5. Continued(s, rest, "step")
          BY <2>1, <3>0, <4>1, ScriptCases, ProceedContinues
        <5> QED  BY <3>0, <5>1, <5>4, <5>5, ReadyThen
      <4> QED  BY <1>0, <2>1, <2>2, <3>0, <4>1, <4>2, ProceedKeeps
    <3> QED  BY <3>2, <3>4, <3>5
  <2> QED  BY <2>4, <2>5
<1> QED  BY <1>1, <1>2

LEMMA JobStepKeeps ==
  ASSUME Types, Parts, NEW s \in Slots, JobStep(s)
  PROVE  Parts'
BY StepOf, FailingSteps, TokenArrivesKeeps, CloseConnectionKeeps, EstablishKeeps, UpgradeToTLSKeeps, HandshakeEndsKeeps,
   WriteCommandKeeps, ReadGreetingKeeps, ReadResponseKeeps DEF JobStep

-----------------------------------------------------------------------------
(* The user, the server and the network.                                   *)
LEMMA BeginKeeps ==
  ASSUME Types, Parts, NEW s \in Slots, NEW op \in CliCommands, NEW script, NEW at, NEW m \in 0..MaxSends, Begin(s, op, script, at, m),
         Window => m \in Msgs /\ script = DesktopSend /\ at = "token"
  PROVE  Parts'
<1> DEFINE j == [op |-> op, todo |-> script, at |-> at, msg |-> m, stale |-> FALSE, waited |-> TRUE]
<1>1. /\ job' = [job EXCEPT ![s] = j] /\ overlapped' = (overlapped \/ Running # {})
      /\ result' = IF m = 0 THEN result ELSE [result EXCEPT ![m] = "running"]
      /\ UNCHANGED <<driver, net, out, in, srv, delivered>>
      /\ \A a \in Msgs \ {m} : body'[a] = body[a]
  <2>1. body' = body \/ \E b \in Bodies : body' = [body EXCEPT ![m] = b]
    BY DEF Begin
  <2>2. \A a \in Msgs \ {m} : body'[a] = body[a]
    BY <2>1 DEF Types, UserTypes
  <2> QED  BY <2>2 DEF Begin, link
<1>2. j.op = op /\ j.todo = script /\ j.at = at /\ j.msg = m /\ op # "none"
  BY DEF CliCommands
<1> HIDE DEF j
<1>3. job'[s] = j /\ \A t \in Slots \ {s} : Kept(t)
  BY <1>1, OthersKept
<1>4. Running' = Running \cup {s}
  BY <1>2, <1>3, RunningAfter
<1>5. Alone'
  BY <1>1, <1>4 DEF Alone
<1>6. Flow'
  <2>1. ASSUME Window PROVE script \in Scripts /\ m \in Msgs /\ at = "token" /\ Head(script).verb = "close"
    BY <2>1, DesktopSendScript
  <2> QED  BY <1>1, <1>2, <1>3, <1>4, <2>1 DEF Parts, Flow, Window, Kept, Now
<1>7. Wire'
  BY <1>1 DEF Parts, Wire, Window, OfOne, OfOneSession
<1>8. Steps'
  BY <1>1, <1>2, <1>3, <1>4 DEF Steps, Window
<1>9. Results'
  <2>1. \A a \in Msgs : Reported(a)' => Reported(a) /\ Attached(a)' = Attached(a)
    <3> SUFFICES ASSUME NEW a \in Msgs, Reported(a)' PROVE Reported(a) /\ Attached(a)' = Attached(a)
      OBVIOUS
    <3>1. a # m /\ result'[a] = result[a]
      <4>1. result \in ResultSet
        BY DEF Types, UserTypes
      <4>2. result' = [result EXCEPT ![m] = "running"] \/ (m = 0 /\ result' = result)
        BY <1>1
      <4>3. a # 0
        BY Bounds DEF Msgs
      <4> QED  BY <4>1, <4>2, <4>3 DEF ResultSet, Reported
    <3> QED  BY <1>1, <3>1 DEF Reported, Attached
  <2>2. \A a : Delivered(a)' = Delivered(a)
    BY <1>1 DEF Delivered
  <2>3. AttachedMeansDelivered => AttachedMeansDelivered'
    BY <2>1, <2>2 DEF AttachedMeansDelivered
  <2> QED  BY <1>1, <2>3 DEF Parts, Results, Window, NothingMixed
<1> QED  BY <1>5, <1>6, <1>7, <1>8, <1>9 DEF Parts

LEMMA UserKeeps ==
  ASSUME Types, Parts, ClickSend \/ Type \/ RefreshEnables \/ HandlerGivesUp
  PROVE  Parts'
<1>1. CASE ClickSend
  <2>1. PICK s \in Slots : Begin(s, "send", DesktopSend, "token", NextMsg)
    BY <1>1 DEF ClickSend
  <2>2. NextMsg \in Msgs /\ NextMsg \in 0..MaxSends /\ "send" \in CliCommands
    BY <1>1, NextMsgType DEF ClickSend, CliCommands
  <2> QED  BY <2>1, <2>2, BeginKeeps
<1>2. CASE Type
  <2>1. ~Window
    BY <1>2 DEF Type, Window
  <2>2. ASSUME NEW s \in Slots, NEW op \in CliOps \ {"send"}, Begin(s, op, CliScript(op), "step", 0)
        PROVE  Parts'
    <3>1. op \in CliCommands /\ 0 \in 0..MaxSends
      BY Bounds, SmtpAssumption
    <3> QED  BY <2>1, <2>2, <3>1, BeginKeeps
  <2>3. ASSUME NEW s \in Slots, NextMsg \in Msgs, Begin(s, "send", CliScript("send"), "step", NextMsg)
        PROVE  Parts'
    <3>1. "send" \in CliCommands /\ NextMsg \in 0..MaxSends
      BY <2>3, NextMsgType DEF CliCommands
    <3> QED  BY <2>1, <2>3, <3>1, BeginKeeps
  <2> QED  BY <1>2, <2>2, <2>3 DEF Type
<1>3. CASE RefreshEnables
  BY <1>3, StillKeeps DEF RefreshEnables, Reported
<1>4. CASE HandlerGivesUp
  <2>1. ~Window /\ UNCHANGED <<driver, overlapped>>
    BY <1>4 DEF HandlerGivesUp, Window
  <2>2. Flow' /\ Wire' /\ Steps' /\ Results'
    BY <2>1 DEF Flow, Wire, Steps, Results, Window
  <2>3. PICK s \in Running : job' = [job EXCEPT ![s].waited = FALSE]
    BY <1>4 DEF HandlerGivesUp
  <2>4. Running' = Running
    <3>1. s \in Slots /\ job[s] \in JobSet
      BY JobFacts
    <3> DEFINE j == [job[s] EXCEPT !.waited = FALSE]
    <3>2. job' = [job EXCEPT ![s] = j] /\ j.op = job[s].op
      BY <2>3, <3>1 DEF Types, JobTypes, JobSet
    <3> HIDE DEF j
    <3>3. job'[s] = j /\ \A t \in Slots \ {s} : Kept(t)
      BY <3>1, <3>2, OthersKept
    <3> QED  BY <3>1, <3>2, <3>3, RunningAfter
  <2>5. Alone'
    BY <2>1, <2>4 DEF Parts, Alone
  <2> QED  BY <2>2, <2>5 DEF Parts
<1> QED  BY <1>1, <1>2, <1>3, <1>4

LEMMA ServeGrows ==
  ASSUME Types, Serve
  PROVE  delivered \subseteq delivered' /\ (overlapped => \A d \in delivered' : d \in delivered \/ d.trust = "shared")
<1> DEFINE cut == [Mail EXCEPT !.bodies = @ \cup {Head(out).msg}, !.whole = FALSE]
<1>1. Mail.trust = Trust /\ cut.trust = Trust /\ (overlapped => Trust = "shared")
  BY DEF Mail, Trust
<1>2. UNCHANGED delivered \/ TakeData(Head(out))
  BY ServeShape DEF TakeLogin
<1>3. delivered' \in {delivered, delivered \cup {Mail}, delivered \cup {cut}}
  BY <1>2, TakeDataCases
<1> HIDE DEF cut
<1> QED  BY <1>1, <1>3

LEMMA ServeKeeps ==
  ASSUME Undotted, Types, Parts, Serve
  PROVE  Parts'
<1>1. net = "up" /\ UNCHANGED <<driver, job, overlapped, result, body>>
  BY ServeShape DEF user
<1>2. Running' = Running
  BY <1>1 DEF Running
<1>3. Alone' /\ Flow'
  BY <1>1, <1>2 DEF Parts, Alone, Flow, Window, Now
<1>4. Wire'
  <2> SUFFICES ASSUME Window', ~overlapped', net' = "up" PROVE (\E m \in Msgs : OfOne(m))'
    BY DEF Wire
  <2>1. PICK m \in Msgs : OfOne(m)
    BY <1>1 DEF Parts, Wire, Window
  <2> QED  BY <2>1, ServeOfOne
<1>5. Steps'
  <2>1. ASSUME Window, NEW s \in Running, job[s].at # "token", InStepAt(s) PROVE InStepAt(s)'
    <3>1. PICK m \in Msgs, todo \in Scripts : m = job[s].msg /\ todo = job[s].todo
      BY <2>1, PlaceOf
    <3>2. CASE job[s].at \in {"step", "handshake"}
      <4>1. Ready(m, todo)' /\ net' = "up"
        BY <1>1, <2>1, <3>1, <3>2, ServeReady DEF InStepAt
      <4>2. Ready(job[s].msg, job[s].todo)'
        BY <1>1, <3>1, <4>1 DEF Ready
      <4> QED  BY <1>1, <3>2, <4>1, <4>2 DEF InStepAt
    <3>3. CASE job[s].at = "reply"
      <4>1. Head(todo).verb \in Commands \cup {"greeting"}
        BY <3>1, <3>3, JobFacts DEF Types, JobTypes
      <4>2. Awaiting(m, todo)' /\ net' = "up"
        BY <1>1, <2>1, <3>1, <3>3, <4>1, ServeAwaiting DEF InStepAt
      <4>3. Awaiting(job[s].msg, job[s].todo)'
        BY <1>1, <3>1, <4>2 DEF Awaiting
      <4> QED  BY <1>1, <3>3, <4>2, <4>3 DEF InStepAt
    <3>4. job[s].at \in {"step", "handshake", "reply"}
      BY <2>1, JobFacts DEF JobSet
    <3> QED  BY <3>2, <3>3, <3>4
  <2> QED  BY <1>1, <1>2, <2>1 DEF Parts, Steps, Window, Now
<1>6. delivered \subseteq delivered'
  BY ServeGrows
<1>7. ASSUME Window, NothingMixed PROVE NothingMixed'
  <2>1. CASE overlapped
    BY <1>1, <1>7, <2>1, ServeGrows DEF NothingMixed
  <2>2. CASE ~overlapped
    <3>1. PICK m \in Msgs : OfOne(m)
      BY <1>1, <1>7, <2>2 DEF Parts, Wire
    <3> QED  BY <1>7, <3>1, ServeDelivers
  <2> QED  BY <2>1, <2>2
<1>8. ASSUME AttachedMeansDelivered PROVE AttachedMeansDelivered'
  <2>1. \A m : Attached(m)' = Attached(m) /\ (Delivered(m) => Delivered(m)')
    BY <1>1, <1>6 DEF Attached, Delivered
  <2> QED  BY <1>1, <1>8, <2>1 DEF AttachedMeansDelivered, Reported
<1>9. Results'
  BY <1>1, <1>7, <1>8 DEF Parts, Results, Window
<1> QED  BY <1>3, <1>4, <1>5, <1>9 DEF Parts

LEMMA NetworkKeeps ==
  ASSUME Types, Parts, Cut \/ Hang
  PROVE  Parts'
<1>1. CASE Cut
  <2>1. /\ net' = "cut" /\ out' = <<>> /\ in' \in {in, <<>>}
        /\ UNCHANGED <<driver, srv, delivered, job, result, body, overlapped>>
    BY <1>1 DEF Cut, user
  <2>2. Wire' /\ Results'
    BY <2>1, WireKept, ResultsKept DEF Parts, Reported
  <2>3. Running' = Running
    BY <2>1 DEF Running
  <2>4. Alone' /\ Flow'
    BY <2>1, <2>3 DEF Parts, Alone, Flow, Window, Now
  <2>5. ASSUME NEW m, NEW todo, Ready(m, todo) PROVE Ready(m, todo)'
    BY <2>1, <2>5 DEF Ready
  <2>6. ASSUME NEW m, NEW todo, Awaiting(m, todo) PROVE Awaiting(m, todo)'
    <3>1. Delivered(m)' = Delivered(m) /\ Attached(m)' = Attached(m)
      BY <2>1 DEF Delivered, Attached
    <3>2. \A k : Answered(m, k) => Answered(m, k)'
      BY <2>1, <3>1 DEF Answered
    <3>3. CASE in' = <<>>
      BY <2>1, <3>3 DEF Awaiting
    <3>4. CASE in' = in
      BY <2>1, <2>6, <3>2, <3>4 DEF Awaiting
    <3> QED  BY <2>1, <3>3, <3>4
  <2>7. \A s : InStepAt(s) => InStepAt(s)'
    BY <2>1, <2>5, <2>6 DEF InStepAt
  <2>8. Steps'
    BY <2>1, <2>3, <2>7 DEF Parts, Steps, Window, Now
  <2> QED  BY <2>2, <2>4, <2>8 DEF Parts
<1>2. CASE Hang
  <2>1. UNCHANGED <<driver, net, out, in, srv, delivered, job, result, body, overlapped>>
    BY <1>2 DEF Hang, user
  <2>2. Wire' /\ Results'
    BY <2>1, WireKept, ResultsKept DEF Parts, Reported
  <2>3. Alone' /\ Flow' /\ Steps'
    BY <2>1, UnmovedKeeps DEF Parts
  <2> QED  BY <2>2, <2>3 DEF Parts
<1> QED  BY <1>1, <1>2

LEMMA PartsStep == Undotted /\ Types /\ Parts /\ [Next]_vars => Parts'
<1> SUFFICES ASSUME Undotted, Types, Parts, [Next]_vars PROVE Parts'
  OBVIOUS
<1>1. CASE UNCHANGED vars
  BY <1>1, StillKeeps DEF vars, user, Reported
<1> QED  BY <1>1, JobStepKeeps, UserKeeps, ServeKeeps, NetworkKeeps DEF Next

LEMMA PartsInit == Init => Parts
<1> SUFFICES ASSUME Init PROVE Parts
  OBVIOUS
<1>1. Running = {}
  BY DEF Init, Running, Idle
<1>2. net # "up" /\ delivered = {} /\ \A m \in Msgs : ~Reported(m)
  BY DEF Init, Reported
<1> QED  BY <1>1, <1>2 DEF Parts, Alone, Flow, Wire, Steps, Results, AttachedMeansDelivered, NothingMixed

-----------------------------------------------------------------------------
LEMMA IInvAlways ==
  ASSUME Undotted
  PROVE  Spec => []IInv
<1>1. Init => IInv
  BY TypesInit, PartsInit DEF IInv
<1>2. IInv /\ [Next]_vars => IInv'
  BY TypesStep, PartsStep DEF IInv
<1> QED  BY <1>1, <1>2, PTL DEF Spec

(* onSendButtonClicked and asyncSendMail: the window reads the answers in  *)
(* step.  While one of its reads waits on a connection of its own, one     *)
(* answer at most is under way, that of the command sent.                  *)
THEOREM InStepTheorem ==
  ASSUME Undotted
  PROVE  Spec => []InStep
<1>1. IInv => InStep
  <2> SUFFICES ASSUME IInv, Window, ~overlapped, NEW s \in Running, job[s].at = "reply"
               PROVE  Len(in) + Cardinality({i \in DOMAIN out : out[i].verb # "text"}) <= 1
    BY DEF InStep, Window
  <2> DEFINE lines == {i \in DOMAIN out : out[i].verb # "text"}
  <2>1. PICK m \in Msgs, todo \in Scripts : m = job[s].msg /\ todo = job[s].todo
    BY PlaceOf DEF IInv
  <2>2. Awaiting(m, todo) /\ (net # "up" => out = <<>>)
    <3>1. Head(todo).verb \in Commands \cup {"greeting"}
      BY <2>1, JobFacts DEF IInv, Types, JobTypes
    <3>2. ~Unconnected(Now(s).verb)
      BY <2>1, <3>1 DEF Unconnected, Commands, Now
    <3> QED  BY <2>1, <3>2, PlaceOf DEF IInv, InStepAt
  <2>3. \A a, b : DOMAIN <<a>> = {1} /\ <<a>>[1] = a /\ DOMAIN <<a, b>> = {1, 2} /\ <<a, b>>[1] = a /\ <<a, b>>[2] = b
    OBVIOUS
  <2>4. TextLine(m).verb = "text"
    BY DEF TextLine
  <2>5. (in = <<>> /\ (lines = {} \/ lines = {1} \/ lines = {2})) \/ (Len(in) = 1 /\ lines = {})
    <3> DEFINE c == Line(m, Head(todo))
    <3>1. out = <<>> => lines = {}
      OBVIOUS
    <3>2. out = <<TextLine(m)>> => lines = {}
      BY <2>3, <2>4
    <3>3. out = <<c>> => lines = {} \/ lines = {1}
      <4> HIDE DEF c
      <4> QED  BY <2>3
    <3>4. out = <<TextLine(m), c>> => lines = {} \/ lines = {2}
      <4> HIDE DEF c
      <4> QED  BY <2>3, <2>4
    <3>5. out = <<>> \/ out = <<TextLine(m)>> \/ out = <<c>> \/ out = <<TextLine(m), c>>
      BY <2>2 DEF Awaiting, Synced, Sent
    <3>6. in = <<>> \/ (Len(in) = 1 /\ out = <<>>)
      BY <2>2 DEF Awaiting
    <3> HIDE DEF c, lines
    <3> QED  BY <3>1, <3>2, <3>3, <3>4, <3>5, <3>6
  <2>6. Cardinality({}) = 0 /\ Cardinality({1}) = 1 /\ Cardinality({2}) = 1 /\ Len(<<>>) = 0
    BY FS_EmptySet, FS_Singleton
  <2> HIDE DEF lines
  <2>7. Len(in) + Cardinality(lines) <= 1
    <3>1. (Len(in) = 0 /\ Cardinality(lines) \in {0, 1}) \/ (Len(in) = 1 /\ Cardinality(lines) = 0)
      BY <2>5, <2>6, Zenon
    <3> QED  BY <3>1
  <2> QED  BY <2>7 DEF lines
<1> QED  BY IInvAlways, <1>1, PTL

(* asyncReset, closeConnection and a session for every message: nothing    *)
(* the window leaves behind on a connection ends up in another message,    *)
(* whatever is refused, lost or late and however often the user retries.   *)
THEOREM NothingMixedTheorem ==
  ASSUME Undotted
  PROVE  Spec => [](Window => NothingMixed)
<1>1. IInv => (Window => NothingMixed)
  BY DEF IInv, Parts, Results
<1> QED  BY IInvAlways, <1>1, PTL

(* onSendButtonClicked: where the window reports a message as sent and its *)
(* attachments could be read, the server has taken it, whole, for each of  *)
(* its recipients.                                                         *)
THEOREM DeliveredTheorem ==
  ASSUME Undotted
  PROVE  Spec => [](Window => AttachedMeansDelivered)
<1>1. IInv => (Window => AttachedMeansDelivered)
  BY DEF IInv, Parts, Results
<1> QED  BY IInvAlways, <1>1, PTL

(* The promise itself, where the condition is part of it: late and overlong*)
(* answers on the connection take nothing from it in the window.           *)
COROLLARY AcceptedTheorem ==
  ASSUME Undotted
  PROVE  Spec => [](Window => AcceptedMeansDelivered)
<1>1. IInv => (Window => AcceptedMeansDelivered)
  BY DEF IInv, Parts, Results, AttachedMeansDelivered, AcceptedMeansDelivered, Promised, Reported
<1> QED  BY IInvAlways, <1>1, PTL
=============================================================================
