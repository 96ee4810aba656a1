------------------------- MODULE ImapClient_proofs -------------------------
(***************************************************************************)
(* Proofs about ImapClient, for any mailboxes, operations, faults and      *)
(* bounds: types, that the ranges sent with SELECT are those of the cache, *)
(* that nothing but DONE is sent to a server that idles, that an operation *)
(* is told the status of its own answer, that what is cached of a mailbox  *)
(* came from it, and that what vanished from a mailbox does not come back  *)
(* into the cache.                                                         *)
(***************************************************************************)
EXTENDS ImapClient, SequenceTheorems, FiniteSetTheorems, TLAPS

(* Types.                                                                  *)
NoneOr     == Mailboxes \cup {"none"}
Selecting  == {"SELECT", "SELECT_QRESYNC", "EXAMINE"}
Singles    == {"CAPABILITY2", "XOAUTH2", "SELECT", "SELECT_QRESYNC", "EXAMINE", "CLOSE", "EXPUNGE", "CHANGEDSINCE",
               "UIDFETCH", "BODY", "UIDSTORE", "UIDMOVE", "UIDEXPUNGE", "SIMPLE", "ENABLE", "CAPABILITY3", "greeting",
               "closeConnection", "literal", "DONE"}
Todos      == {<<v>> : v \in Singles}
              \cup {<<"establish", "greeting">>, <<"upgrade", "CAPABILITY2">>, <<"LOGIN", "CAPABILITY3">>,
                    <<"LOGOUT", "closeConnection">>, <<"APPEND", "literal">>, <<"wait", "DONE">>, Idling,
                    <<"STARTTLS", "upgrade", "CAPABILITY2">>, <<"CAPABILITY", "STARTTLS", "upgrade", "CAPABILITY2">>,
                    <<"greeting", "CAPABILITY", "STARTTLS", "upgrade", "CAPABILITY2">>, Connect(143)}
Verbs      == Singles \cup {"establish", "upgrade", "LOGIN", "LOGOUT", "APPEND", "wait", "IDLE", "STARTTLS", "CAPABILITY"}
JobRecords == [op : CliCommands \cup {"none"}, todo : Todos \cup {<<>>}, at : {"step", "reply", "handshake"}, tag : Nat, box : NoneOr,
               uids : SUBSET Uids, opt : BOOLEAN, dirty : {"none", "mailbox", "set"}, waited : BOOLEAN]
JobSet     == {j \in JobRecords :
                 /\ j.op = "none" <=> j.todo = <<>>
                 /\ j.op = "none" => j.at = "step"
                 /\ j.todo # <<>> /\ j.todo[1] \in Selecting => j.box \in Mailboxes
                 /\ j.todo = <<"BODY">> => \E u \in Uids : j.uids = {u}}

Place      == Mailboxes \X Nat
Bodies     == {<<>>, <<"empty">>} \cup (Mailboxes \X Nat \X Uids)
FetchData  == [of : Place, uid : Uids, mod : Nat, seen : BOOLEAN, env : BOOLEAN, body : Bodies]
SelectData == [validity : Nat, next : Nat, modseq : Nat]
Caps       == SUBSET {"STARTTLS", "QRESYNC"}
ItemSet    ==
  [kind : {"greeting", "tagged", "plus", "EXISTS"}, tag : Nat, ok : BOOLEAN, slash : BOOLEAN, uids : {{}}, data : {<<>>}]
  \cup [kind : {"FETCH"}, tag : Nat, ok : BOOLEAN, slash : BOOLEAN, uids : {{}}, data : FetchData]
  \cup [kind : {"VANISHED", "EXPUNGE"}, tag : Nat, ok : BOOLEAN, slash : BOOLEAN, uids : SUBSET Uids, data : Place]
  \cup [kind : {"caps"}, tag : Nat, ok : BOOLEAN, slash : BOOLEAN, uids : {{}}, data : Caps]
  \cup [kind : {"selected"}, tag : Nat, ok : BOOLEAN, slash : BOOLEAN, uids : {{}}, data : SelectData]
LineSet    == {x \in [verb : Verbs \cup {"ack"}, tag : Nat, box : NoneOr, uids : SUBSET Uids, opt : BOOLEAN,
                      since : Nat, validity : Nat, known : SUBSET Int] :
                 x.verb \in Selecting => x.box \in Mailboxes}

SessionSet == [auth : BOOLEAN, box : NoneOr, idle : Nat, qresync : BOOLEAN, sasl : BOOLEAN, literal : NoneOr, cont : Nat,
               news : Seq(ItemSet), offer : Caps]
BoxSet     == [validity : Nat \ {0}, next : Nat \ {0}, modseq : Nat,
               msgs : UNION {[S -> [mod : Nat, seen : BOOLEAN]] : S \in SUBSET Uids},
               gone : UNION {[S -> Nat] : S \in SUBSET Uids}]
EntrySet   == [mod : Nat, seen : BOOLEAN, env : BOOLEAN, body : Bodies, of : Place]
CacheSet   == [validity : Nat, modseq : Nat, next : Nat, msgs : UNION {[S -> EntrySet] : S \in SUBSET Uids}]

ClientTypes == /\ conn \in {"Disconnected", "Connected"} /\ tag \in Nat /\ idle \in [on : BOOLEAN, tag : Nat]
               /\ job \in JobSet
LinkTypes   == net \in {"none", "up", "cut", "silent", "null"} /\ out \in Seq(LineSet) /\ in \in Seq(ItemSet)
StateTypes  == /\ cli \in [box : NoneOr, validity : Nat, modseq : Nat, qresync : BOOLEAN]
               /\ cache \in [Mailboxes -> CacheSet]
ServerTypes == srv \in SessionSet /\ box \in [Mailboxes -> BoxSet]
BoundTypes  == /\ {misled, lost, alive} \subseteq BOOLEAN
               /\ ops \in 0..MaxOps /\ changes \in 0..MaxChanges /\ faults \in 0..MaxFaults
Types == ClientTypes /\ LinkTypes /\ StateTypes /\ ServerTypes /\ BoundTypes

(* No tag is known before it is taken.                                     *)
Tags == /\ job.tag <= tag /\ idle.tag <= tag /\ srv.idle <= tag
        /\ \A i \in DOMAIN out : out[i].tag <= tag
        /\ idle.on \/ (job.at = "reply" /\ Now = "IDLE") => idle.tag # 0

(* What is asked since a MODSEQ is asked of the mailbox the program is in.  *)
Placed == job.todo # <<>> /\ job.todo[1] = "CHANGEDSINCE" => cli.box # "none"

-----------------------------------------------------------------------------
(* The conversation. What has come is lines without a status, such lines   *)
(* and a "+", or an answer: its status comes last.                         *)
Status(x) == x.kind = "tagged"
Clean(s)  == \A i \in DOMAIN s : s[i].kind \notin {"tagged", "plus"}
Prompt(s) == \E k \in DOMAIN s : s[k].kind = "plus" /\ \A i \in DOMAIN s \ {k} : s[i].kind \notin {"tagged", "plus"}
Answer(s) == s # <<>> /\ s[Len(s)].kind = "tagged" /\ \A i \in DOMAIN s \ {Len(s)} : s[i].kind \notin {"tagged", "plus"}

(* A server idles, waits for a literal or for the empty line: one of them. *)
OneWait == /\ srv.literal # "none" => ~srv.sasl /\ srv.idle = 0
           /\ srv.sasl => srv.idle = 0

Asking   == job.at = "reply" /\ Now # "greeting"
Choosing == job.at = "reply" /\ Now \in Selecting
Talk ==
  /\ net # "up" => out = <<>>
  /\ net = "none" <=> conn = "Disconnected"
  /\ Clean(in) \/ Prompt(in) \/ Answer(in)
  /\ out # <<>> => Len(out) = 1 /\ Clean(in) /\ Asking /\ (out[1].verb = Now \/ (Now = "XOAUTH2" /\ out[1].verb = "ack"))
  /\ job.at = "reply" => net # "none"
  /\ job.at # "reply" => Clean(in)
  /\ job.at = "reply" /\ Now = "greeting" => out = <<>> /\ Clean(in)
  /\ job.todo # <<>> /\ job.todo[1] = "greeting" => job.at = "reply"
  /\ Clean(srv.news)

(* While the server idles, the operation is IDLE and has not ended; while  *)
(* it waits for a literal, or for the empty line, it is APPEND or XOAUTH2. *)
Idles ==
  srv.idle # 0 =>
    /\ Clean(in) \/ Prompt(in)
    /\ \/ job.todo = Idling /\ job.at = "reply" /\ out = <<>> /\ Prompt(in)
       \/ job.todo = <<"wait", "DONE">> /\ job.at = "step"
       \/ job.todo = <<"DONE">> /\ (job.at = "reply" => out # <<>>)
Literal ==
  srv.literal # "none" =>
    \/ job.todo = <<"APPEND", "literal">> /\ job.at = "reply" /\ out = <<>> /\ Prompt(in)
    \/ job.todo = <<"literal">> /\ (job.at = "reply" => out # <<>>)
Sasl == srv.sasl => job.todo = <<"XOAUTH2">> /\ job.at = "reply" /\ (out # <<>> \/ Prompt(in))

(* SELECT is under way or answered.                                        *)
Due == Choosing => IF out # <<>> THEN out[1].tag = job.tag ELSE Answer(in) /\ in[Len(in)].tag = job.tag

Waits == net = "up" => Idles /\ Literal /\ Sasl /\ Due

(* A flag list the parser stops at is in an accepted answer only.          *)
All(s, P)   == \A i \in DOMAIN s : s[i] \in P
Unmarked    == {x \in ItemSet : ~x.slash}
Accepted(s) == s # <<>> /\ Status(s[Len(s)]) /\ s[Len(s)].ok
NoSlash     == All(srv.news, Unmarked) /\ (All(in, Unmarked) \/ Accepted(in))

-----------------------------------------------------------------------------
(* What is cached. Where a message is: its mailbox and the UIDVALIDITY.    *)
At2(m)   == <<m, box[m].validity>>
Here2    == <<cli.box, cli.validity>>

Own(c, m) ==
  /\ c.validity = 0 => DOMAIN c.msgs = {}
  /\ \A u \in DOMAIN c.msgs : /\ c.msgs[u].of = <<m, c.validity>>
                              /\ c.msgs[u].body \in {<<>>, <<"empty">>, <<m, c.validity, u>>}
Files == \A m \in Mailboxes : Own(cache[m], m)

Cli == /\ conn = "Disconnected" => cli.box = "none"
       /\ cli.box # "none" /\ cli.validity # 0 => cache[cli.box].validity \in {0, cli.validity}

(* The server has the program's mailbox selected, or none.                 *)
Settled == cli.box # "none" /\ srv.box # "none" => srv.box = cli.box /\ cli.validity = box[srv.box].validity

(* What is pending is about the mailbox that is selected.                  *)
Pending == {x \in ItemSet : /\ x.kind # "selected"
                            /\ x.kind = "FETCH" => srv.box # "none" /\ x.data.of = At2(srv.box) /\ x.data.body = <<>>}

(* What has come is about the mailbox the program is in, without a body or *)
(* with the one that was asked for.                                        *)
IsHere(x)  == cli.box # "none" => cli.validity # 0 /\ x.data.of = Here2
Bare       == {x \in ItemSet : x.kind # "selected" /\ (x.kind = "FETCH" => x.data.body = <<>> /\ IsHere(x))}
AskedFor   == {x \in ItemSet : /\ x.kind = "FETCH" /\ job.at = "reply" /\ Now = "BODY" /\ x.data.uid \in job.uids
                               /\ IsHere(x) /\ (cli.box # "none" => x.data.body = <<cli.box, cli.validity, x.data.uid>>)}
Unselected == {x \in ItemSet : x.kind # "selected"}
Arrived    == ~Choosing => All(in, Bare \cup AskedFor)

(* What the answer to SELECT says is where the server now is.              *)
Chosen ==
  Choosing => IF out # <<>> THEN Settled /\ All(in, Unselected)
              ELSE \A i \in DOMAIN in : Status(in[i]) =>
                     /\ Of(in, "selected") = {} /\ net = "up" => srv.box = "none"
                     /\ \A k \in Of(in, "selected") :
                          /\ in[k].data.validity # 0 /\ in[i].ok
                          /\ net = "up" => srv.box = job.box /\ in[k].data.validity = box[job.box].validity

Belong == /\ Files /\ Cli /\ All(srv.news, Pending) /\ Arrived /\ Chosen
          /\ net = "up" /\ ~Choosing => Settled
          /\ out # <<>> /\ out[1].verb \in {"BODY", "UIDMOVE"} => out[1].uids = job.uids
          /\ out # <<>> /\ out[1].verb \in Selecting => out[1].box = job.box

IInv    == Types /\ Tags /\ OneWait
TalkInv == ~lost => Talk /\ Waits
SlashInv == ~lost => NoSlash
BelongInv == ~lost => Belong
-----------------------------------------------------------------------------
(* Numbers.                                                                *)

LEMMA MinProperties ==
  ASSUME NEW S \in SUBSET Nat, S # {}
  PROVE  Min(S) \in S /\ \A k \in S : Min(S) <= k
<1> DEFINE R == {p \in Nat \X Nat : p[1] < p[2]}
<1>1. IsWellFoundedOn(R, Nat)
  BY NatLessThanWellFounded DEF OpToRel
<1>2. \E i \in S : \A k \in S : <<k, i>> \notin R
  <2> HIDE DEF R
  <2> QED  BY <1>1, WFMin, Zenon
<1>3. PICK i \in S : \A k \in S : <<k, i>> \notin R
  BY <1>2
<1>4. \A k \in S : i <= k
  <2> SUFFICES ASSUME NEW k \in S PROVE i <= k
    OBVIOUS
  <2>1. <<k, i>> \notin R /\ <<k, i>> \in Nat \X Nat /\ i \in Nat /\ k \in Nat
    BY <1>3
  <2>2. ~(<<k, i>>[1] < <<k, i>>[2])
    BY <2>1
  <2> QED  BY <2>1, <2>2
<1> QED  BY <1>4 DEF Min

LEMMA MaxProperties ==
  ASSUME NEW S \in SUBSET Nat, S # {}, NEW n \in Nat, \A k \in S : k <= n
  PROVE  Max(S) \in S /\ \A k \in S : k <= Max(S)
<1> DEFINE U == {b \in Nat : \A k \in S : k <= b}
<1>1. n \in U /\ U \in SUBSET Nat /\ U # {}
  OBVIOUS
<1>2. PICK b \in {Min(U)} : b \in U /\ \A k \in U : b <= k
  BY <1>1, MinProperties
<1>3. b \in S
  <2> SUFFICES ASSUME b \notin S PROVE FALSE
    OBVIOUS
  <2>1. \A k \in S : k < b
    BY <1>2
  <2>2. PICK k \in S : TRUE
    OBVIOUS
  <2>3. b \in Nat /\ b # 0 /\ \A j \in S : j \in Nat /\ j <= b - 1
    <3>1. b \in Nat /\ \A j \in S : j \in Nat /\ j < b
      BY <1>2, <2>1
    <3> QED  BY <2>2, <3>1
  <2>4. b - 1 \in U /\ ~(b <= b - 1)
    BY <2>3
  <2> QED  BY <1>2, <2>4
<1>4. b \in S /\ \A k \in S : b >= k
  BY <1>2, <1>3
<1> QED  BY <1>4 DEF Max

(* A finite set of numbers has a greatest one: of the subsets that have    *)
(* none, take a least.                                                     *)
LEMMA GreatestOf ==
  ASSUME NEW S \in SUBSET Nat, IsFiniteSet(S), S # {}
  PROVE  \E h \in S : \A k \in S : k <= h
<1> DEFINE Topped(T) == \E h \in T : \A k \in T : k <= h
           Bad == {T \in SUBSET S : T # {} /\ ~Topped(T)}
<1>1. SUFFICES Bad = {}
  BY Zenon
<1> SUFFICES ASSUME Bad # {} PROVE FALSE
  OBVIOUS
<1>2. IsWellFoundedOn(StrictSubsetOrdering(S), SUBSET S)
  BY FS_StrictSubsetOrderingWellFounded, FS_FiniteSubsetsOfFinite
<1>3. Bad \subseteq SUBSET S
  OBVIOUS
<1> HIDE DEF Bad
<1>4. PICK T \in Bad : \A V \in Bad : <<V, T>> \notin StrictSubsetOrdering(S)
  BY <1>2, <1>3, WFMin, Zenon
<1> USE DEF Bad
<1>5. PICK x \in T : TRUE
  OBVIOUS
<1> DEFINE V == T \ {x}
<1>6. V \in SUBSET S /\ V \subseteq T /\ V # T
  BY <1>5
<1>7. <<V, T>> \in StrictSubsetOrdering(S)
  BY <1>6 DEF StrictSubsetOrdering
<1>8. V \notin Bad
  BY <1>4, <1>7
<1>9. CASE V = {}
  <2>1. T = {x}
    BY <1>5, <1>9
  <2> QED  BY <2>1
<1>10. CASE V # {}
  <2>1. PICK h \in V : \A k \in V : k <= h
    BY <1>6, <1>8, <1>10
  <2>2. h \in Nat /\ x \in Nat /\ \A k \in T : k \in Nat /\ (k = x \/ k <= h)
    BY <1>5, <1>6, <2>1
  <2>3. Topped(T)
    <3>1. CASE x <= h
      BY <2>1, <2>2, <3>1
    <3>2. CASE ~(x <= h)
      BY <1>5, <2>2, <3>2
    <3> QED  BY <3>1, <3>2
  <2> QED  BY <2>3
<1> QED  BY <1>9, <1>10

-----------------------------------------------------------------------------
(* The ranges sent with SELECT.                                            *)

(* The UIDs a set holds up to one of them.                                 *)
UpTo(U, u) == {v \in U : v <= u}

LEMMA UpToRanks ==
  ASSUME NEW U \in SUBSET Nat, IsFiniteSet(U)
  PROVE  /\ Cardinality(U) \in Nat
         /\ \A u \in U : Cardinality(UpTo(U, u)) \in 1..Cardinality(U)
         /\ \A u, v \in U : u < v => Cardinality(UpTo(U, u)) < Cardinality(UpTo(U, v))
         /\ \A k \in 1..Cardinality(U) : \E u \in U : Cardinality(UpTo(U, u)) = k
<1> DEFINE n == Cardinality(U)
           rank == [u \in U |-> Cardinality(UpTo(U, u))]
<1>1. n \in Nat
  BY FS_CardinalityType
<1>2. ASSUME NEW u \in U
      PROVE  IsFiniteSet(UpTo(U, u)) /\ Cardinality(UpTo(U, u)) \in 1..n
  <2>1. UpTo(U, u) \in SUBSET U /\ u \in UpTo(U, u)
    BY DEF UpTo
  <2>2. IsFiniteSet(UpTo(U, u)) /\ Cardinality(UpTo(U, u)) <= n
    BY <2>1, FS_Subset
  <2>3. Cardinality(UpTo(U, u)) \in Nat /\ Cardinality(UpTo(U, u)) # 0
    BY <2>1, <2>2, FS_CardinalityType, FS_EmptySet
  <2> QED  BY <1>1, <2>2, <2>3
<1>3. ASSUME NEW u \in U, NEW v \in U, u < v
      PROVE  Cardinality(UpTo(U, u)) < Cardinality(UpTo(U, v))
  <2>1. UpTo(U, u) \in SUBSET UpTo(U, v) /\ v \in UpTo(U, v) /\ v \notin UpTo(U, u)
    <3>1. \A x \in U : x \in Nat /\ u \in Nat /\ v \in Nat /\ (x <= u => x <= v) /\ ~(v <= u) /\ v <= v
      BY <1>3
    <3> QED  BY <3>1 DEF UpTo
  <2>2. IsFiniteSet(UpTo(U, v)) /\ UpTo(U, u) # UpTo(U, v)
    BY <1>2, <2>1
  <2>3. /\ Cardinality(UpTo(U, u)) <= Cardinality(UpTo(U, v))
        /\ Cardinality(UpTo(U, v)) # Cardinality(UpTo(U, u))
    BY <2>1, <2>2, FS_Subset
  <2> QED  BY <1>1, <1>2, <2>3
<1>4. rank \in Injection(U, 1..n)
  <2>1. rank \in [U -> 1..n]
    BY <1>2
  <2>2. ASSUME NEW u \in U, NEW v \in U, rank[u] = rank[v] PROVE u = v
    <3>1. Cardinality(UpTo(U, u)) = Cardinality(UpTo(U, v)) /\ Cardinality(UpTo(U, u)) \in Nat
      BY <1>1, <1>2, <2>2
    <3>2. ~(u < v) /\ ~(v < u)
      BY <1>3, <3>1
    <3> QED  BY <3>2
  <2> HIDE DEF rank
  <2> QED  BY <2>1, <2>2 DEF Injection, IsInjective
<1>5. IsFiniteSet(1..n) /\ Cardinality(1..n) = n
  BY <1>1, FS_Interval
<1>6. rank \in Surjection(U, 1..n)
  <2> HIDE DEF rank
  <2> QED  BY <1>4, <1>5, FS_Injection
<1>7. ASSUME NEW k \in 1..n PROVE \E u \in U : Cardinality(UpTo(U, u)) = k
  <2>1. PICK u \in U : rank[u] = k
    BY <1>6 DEF Surjection
  <2> QED  BY <2>1
<1> QED  BY <1>1, <1>2, <1>3, <1>7

(* The cached UIDs, in ascending order.                                    *)
LEMMA CachedUidsAscend ==
  ASSUME NEW c, DOMAIN c.msgs \in SUBSET Nat, IsFiniteSet(DOMAIN c.msgs),
         NEW s, s = GetCachedUids(c)
  PROVE  /\ s \in Seq(Nat)
         /\ {s[i] : i \in 1..Len(s)} = DOMAIN c.msgs
         /\ \A i \in 1..Len(s) : i > 1 => s[i - 1] < s[i]
<1> DEFINE U == DOMAIN c.msgs
           n == Cardinality(U)
           at(k) == CHOOSE u \in U : Cardinality(UpTo(U, u)) = k
<1>1. /\ n \in Nat
      /\ \A u \in U : Cardinality(UpTo(U, u)) \in 1..n
      /\ \A u, v \in U : u < v => Cardinality(UpTo(U, u)) < Cardinality(UpTo(U, v))
      /\ \A k \in 1..n : \E u \in U : Cardinality(UpTo(U, u)) = k
  <2>1. PICK W \in SUBSET Nat : W = U /\ IsFiniteSet(W)
    OBVIOUS
  <2>2. /\ Cardinality(W) \in Nat
        /\ \A u \in W : Cardinality(UpTo(W, u)) \in 1..Cardinality(W)
        /\ \A u, v \in W : u < v => Cardinality(UpTo(W, u)) < Cardinality(UpTo(W, v))
        /\ \A k \in 1..Cardinality(W) : \E u \in W : Cardinality(UpTo(W, u)) = k
    BY <2>1, UpToRanks
  <2> QED  BY <2>1, <2>2
<1>2. s = [k \in 1..n |-> at(k)]
  BY DEF GetCachedUids, UpTo
<1>3. ASSUME NEW k \in 1..n PROVE at(k) \in U /\ Cardinality(UpTo(U, at(k))) = k
  <2>1. \E u \in U : Cardinality(UpTo(U, u)) = k
    BY <1>1
  <2> QED  BY <2>1
<1>4. U \in SUBSET Nat
  OBVIOUS
<1> HIDE DEF at, U
<1>5. s \in Seq(Nat) /\ Len(s) = n /\ \A k \in 1..n : s[k] = at(k)
  <2>1. \A k \in 1..n : at(k) \in Nat
    BY <1>3, <1>4
  <2>2. s \in [1..n -> Nat]
    BY <1>2, <2>1
  <2> QED  BY <1>1, <1>2, <2>2
<1>6. ASSUME NEW u \in U PROVE \E k \in 1..n : s[k] = u
  <2> DEFINE k == Cardinality(UpTo(U, u))
  <2>1. k \in 1..n
    BY <1>1
  <2>2. at(k) \in U /\ Cardinality(UpTo(U, at(k))) = k
    BY <1>3, <2>1
  <2>3. PICK w \in U : w = at(k) /\ Cardinality(UpTo(U, w)) = k
    BY <2>2
  <2>4. ~(w < u) /\ ~(u < w)
    BY <1>1, <2>1, <2>3
  <2>5. w = u
    BY <1>4, <2>4
  <2> QED  BY <1>5, <2>1, <2>3, <2>5
<1>7. ASSUME NEW i \in 1..n, i > 1 PROVE s[i - 1] < s[i]
  <2>1. i - 1 \in 1..n
    BY <1>1, <1>7
  <2>2. PICK u \in U, v \in U : u = at(i - 1) /\ v = at(i)
    BY <1>3, <2>1
  <2>3. Cardinality(UpTo(U, u)) = i - 1 /\ Cardinality(UpTo(U, v)) = i
    BY <1>3, <2>1, <2>2
  <2>4. ~(v < u) /\ u # v
    BY <1>1, <2>3
  <2>5. u < v
    BY <1>4, <2>4
  <2> QED  BY <1>5, <2>1, <2>2, <2>5
<1>8. {s[i] : i \in 1..n} = U
  BY <1>3, <1>5, <1>6
<1> QED  BY <1>5, <1>7, <1>8 DEF U

(* What one more UID does to ranges that end before it.                    *)
Apart(r) == \A i \in DOMAIN r : r[i][1] <= r[i][2] /\ (i > 1 => r[i - 1][2] + 1 < r[i][1])

LEMMA ExtendedBy ==
  ASSUME NEW r \in Seq(Nat \X Nat), Apart(r), NEW u \in Nat,
         r # <<>> => r[Len(r)][2] < u, NEW e, e = Extended(r, u)
  PROVE  /\ e \in Seq(Nat \X Nat) /\ Apart(e)
         /\ e # <<>> /\ e[Len(e)][2] = u
         /\ Covered(e) = Covered(r) \cup {u}
<1> DEFINE n == Len(r)
<1>1. n \in Nat /\ DOMAIN r = 1..n /\ \A i \in 1..n : r[i] \in Nat \X Nat /\ r[i][1] \in Nat /\ r[i][2] \in Nat
  OBVIOUS
<1>2. ASSUME r # <<>>, u = r[n][2] + 1
      PROVE  /\ e \in Seq(Nat \X Nat) /\ Apart(e)
             /\ e # <<>> /\ e[Len(e)][2] = u
             /\ Covered(e) = Covered(r) \cup {u}
  <2>1. n \in 1..n
    BY <1>1, <1>2
  <2> DEFINE wider(p) == [p EXCEPT ![2] = u]
  <2>2. \A p \in Nat \X Nat : wider(p) \in Nat \X Nat /\ wider(p)[1] = p[1] /\ wider(p)[2] = u
    OBVIOUS
  <2>3. Last(r) = r[n]
    BY DEF Last
  <2>4. e = [r EXCEPT ![n] = wider(r[n])]
    BY <1>2, <2>3 DEF Extended
  <2> HIDE DEF wider
  <2>5. PICK w \in Nat \X Nat : w = wider(r[n]) /\ w[1] = r[n][1] /\ w[2] = u
    BY <1>1, <2>1, <2>2
  <2>6. e = [r EXCEPT ![n] = w]
    BY <2>4, <2>5
  <2>7. /\ e \in Seq(Nat \X Nat) /\ Len(e) = n /\ e[n] = w /\ DOMAIN e = 1..n
        /\ \A i \in 1..n : i # n => e[i] = r[i]
    <3>1. PICK T : T = Nat \X Nat
      OBVIOUS
    <3>2. r \in Seq(T) /\ w \in T
      BY <3>1
    <3> QED  BY <2>1, <2>6, <3>1, <3>2
  <2> HIDE DEF n
  <2>8. e # <<>> /\ e[Len(e)][2] = u
    BY <2>1, <2>5, <2>7
  <2>9. \A i \in 1..n : e[i][1] = r[i][1] /\ e[i][2] \in Nat
    BY <1>1, <2>5, <2>7
  <2>10. \A i \in 1..n : e[i][1] <= e[i][2]
    <3> SUFFICES ASSUME NEW i \in 1..n PROVE e[i][1] <= e[i][2]
      OBVIOUS
    <3>1. r[i][1] <= r[i][2] /\ r[i][1] \in Nat /\ r[i][2] \in Nat
      BY <1>1 DEF Apart
    <3>2. CASE i = n
      <4>1. e[i][1] = r[n][1] /\ e[i][2] = u
        BY <2>5, <2>7, <3>2
      <4>2. u = r[n][2] + 1 /\ r[n][1] <= r[n][2] /\ r[n][1] \in Nat /\ r[n][2] \in Nat
        BY <1>2, <3>1, <3>2 DEF n
      <4> QED  BY <4>1, <4>2
    <3>3. CASE i # n
      BY <2>7, <3>1, <3>3
    <3> QED  BY <3>2, <3>3
  <2>11. \A i \in 1..n : i > 1 => e[i - 1][2] + 1 < e[i][1]
    <3> SUFFICES ASSUME NEW i \in 1..n, i > 1 PROVE e[i - 1][2] + 1 < e[i][1]
      OBVIOUS
    <3>1. i - 1 \in 1..n /\ i - 1 # n
      BY <1>1
    <3>2. r[i - 1][2] + 1 < r[i][1]
      BY <1>1 DEF Apart
    <3> QED  BY <2>7, <2>9, <3>1, <3>2
  <2>12. Apart(e)
    BY <2>7, <2>10, <2>11 DEF Apart
  <2>13. w[1]..w[2] = (r[n][1]..r[n][2]) \cup {u}
    <3>1. r[n][1] \in Nat /\ r[n][2] \in Nat /\ r[n][1] <= r[n][2]
      BY <1>1, <2>1 DEF Apart
    <3> QED  BY <1>2, <2>5, <3>1
  <2>14. Covered(e) = Covered(r) \cup {u}
    <3>1. ASSUME NEW x \in Covered(e) PROVE x \in Covered(r) \cup {u}
      <4>1. PICK i \in 1..n : x \in e[i][1]..e[i][2]
        BY <2>7 DEF Covered
      <4>2. CASE i = n
        <5>1. x \in w[1]..w[2]
          BY <2>7, <4>1, <4>2
        <5>2. x \in r[n][1]..r[n][2] \/ x = u
          BY <2>13, <5>1
        <5> QED  BY <1>1, <2>1, <5>2 DEF Covered
      <4>3. CASE i # n
        <5>1. x \in r[i][1]..r[i][2]
          BY <2>7, <4>1, <4>3
        <5> QED  BY <1>1, <5>1 DEF Covered
      <4> QED  BY <4>2, <4>3
    <3>2. ASSUME NEW x \in Covered(r) \cup {u} PROVE x \in Covered(e)
      <4>1. CASE x = u
        <5>1. x \in e[n][1]..e[n][2]
          BY <2>7, <2>13, <4>1
        <5> QED  BY <2>1, <2>7, <5>1 DEF Covered
      <4>2. CASE x \in Covered(r)
        <5>1. PICK i \in 1..n : x \in r[i][1]..r[i][2]
          BY <1>1, <4>2 DEF Covered
        <5>2. x \in e[i][1]..e[i][2]
          BY <2>7, <2>13, <5>1
        <5> QED  BY <2>7, <5>2 DEF Covered
      <4> QED  BY <4>1, <4>2
    <3> QED  BY <3>1, <3>2
  <2> QED  BY <2>7, <2>8, <2>12, <2>14
<1>3. ASSUME ~(r # <<>> /\ u = r[n][2] + 1)
      PROVE  /\ e \in Seq(Nat \X Nat) /\ Apart(e)
             /\ e # <<>> /\ e[Len(e)][2] = u
             /\ Covered(e) = Covered(r) \cup {u}
  <2>1. Last(r) = r[n]
    BY DEF Last
  <2>2. e = Append(r, <<u, u>>)
    BY <1>3, <2>1 DEF Extended
  <2>3. <<u, u>> \in Nat \X Nat /\ <<u, u>>[1] = u /\ <<u, u>>[2] = u
    OBVIOUS
  <2>4. /\ e \in Seq(Nat \X Nat) /\ Len(e) = n + 1 /\ DOMAIN e = 1..(n + 1)
        /\ e[n + 1] = <<u, u>> /\ \A i \in 1..n : e[i] = r[i]
    BY <1>1, <2>2, <2>3
  <2> HIDE DEF n
  <2>5. e # <<>> /\ e[Len(e)][2] = u
    BY <1>1, <2>3, <2>4
  <2>6. Apart(e)
    <3> SUFFICES ASSUME NEW i \in 1..(n + 1)
                 PROVE  e[i][1] <= e[i][2] /\ (i > 1 => e[i - 1][2] + 1 < e[i][1])
      BY <2>4 DEF Apart
    <3>1. CASE i = n + 1
      <4>1. e[i][1] = u /\ e[i][2] = u
        BY <2>3, <2>4, <3>1
      <4>2. ASSUME i > 1 PROVE e[i - 1][2] + 1 < u
        <5>1. n \in 1..n /\ i - 1 = n
          BY <1>1, <3>1, <4>2
        <5>2. r # <<>> /\ r[n][2] \in Nat
          BY <1>1, <5>1 DEF n
        <5>3. r[n][2] < u
          BY <5>2 DEF n
        <5>4. r[n][2] + 1 < u
          BY <1>3, <5>2, <5>3
        <5> QED  BY <2>4, <5>1, <5>4
      <4> QED  BY <4>1, <4>2
    <3>2. CASE i \in 1..n
      <4>1. r[i][1] <= r[i][2] /\ (i > 1 => r[i - 1][2] + 1 < r[i][1])
        BY <1>1, <3>2 DEF Apart
      <4>2. i > 1 => i - 1 \in 1..n
        BY <1>1, <3>2
      <4> QED  BY <2>4, <3>2, <4>1, <4>2
    <3> QED  BY <1>1, <3>1, <3>2
  <2>7. Covered(e) = Covered(r) \cup {u}
    <3>1. \A x : x \in u..u <=> x = u
      OBVIOUS
    <3>2. ASSUME NEW x \in Covered(e) PROVE x \in Covered(r) \cup {u}
      <4>1. PICK i \in 1..(n + 1) : x \in e[i][1]..e[i][2]
        BY <2>4 DEF Covered
      <4>2. CASE i = n + 1
        BY <2>3, <2>4, <3>1, <4>1, <4>2
      <4>3. CASE i # n + 1
        <5>1. i \in 1..n
          BY <1>1, <4>3
        <5> QED  BY <1>1, <2>4, <4>1, <5>1 DEF Covered
      <4> QED  BY <4>2, <4>3
    <3>3. ASSUME NEW x \in Covered(r) \cup {u} PROVE x \in Covered(e)
      <4>1. CASE x = u
        <5>1. n + 1 \in DOMAIN e /\ x \in e[n + 1][1]..e[n + 1][2]
          BY <1>1, <2>3, <2>4, <3>1, <4>1
        <5> QED  BY <5>1 DEF Covered
      <4>2. CASE x \in Covered(r)
        <5>1. PICK i \in 1..n : x \in r[i][1]..r[i][2]
          BY <1>1, <4>2 DEF Covered
        <5>2. i \in DOMAIN e /\ x \in e[i][1]..e[i][2]
          BY <1>1, <2>4, <5>1
        <5> QED  BY <5>2 DEF Covered
      <4> QED  BY <4>1, <4>2
    <3> QED  BY <3>2, <3>3
  <2> QED  BY <2>4, <2>5, <2>6, <2>7
<1> QED  BY <1>2, <1>3

(* The fold over a sequence, as the row of its intermediate results. It is *)
(* defined by recursion over sets of positions; that a function with that  *)
(* recursion exists is shown for sets of at most k positions, by the least *)
(* k without one.                                                          *)
LEMMA FoldOfExtended ==
  ASSUME NEW s \in Seq(Nat)
  PROVE  \E r : /\ r[0] = <<>>
                /\ \A k \in 1..Len(s) : r[k] = Extended(r[k - 1], s[k])
                /\ r[Len(s)] = FoldLeft(Extended, <<>>, s)
<1> DEFINE n == Len(s)
           D == 1..n
           Step(g, t) == IF t = {} THEN <<>> ELSE Extended(g[t \ {Max(t)}], s[Max(t)])
           Few(k) == {t \in SUBSET D : Cardinality(t) <= k}
           Folds(g, k) == g = [t \in Few(k) |-> Step(g, t)]
           fold == CHOOSE g : g = [t \in SUBSET D |-> Step(g, t)]
<1>1. n \in Nat /\ DOMAIN s = D /\ D \in SUBSET Nat
  OBVIOUS
<1>2. IsFiniteSet(D) /\ Cardinality(D) = n
  BY <1>1, FS_Interval
<1>3. FoldLeft(Extended, <<>>, s) = fold[D]
  BY <1>1 DEF FoldLeft, MapThenFoldSet
<1>4. ASSUME NEW t \in SUBSET D
      PROVE  /\ IsFiniteSet(t) /\ Cardinality(t) \in Nat /\ Cardinality(t) <= n
             /\ t # {} => /\ Max(t) \in t
                          /\ t \ {Max(t)} \in SUBSET D
                          /\ Cardinality(t \ {Max(t)}) = Cardinality(t) - 1
             /\ Cardinality(t) = 0 => t = {}
  <2>1. IsFiniteSet(t) /\ Cardinality(t) <= n
    BY <1>2, FS_Subset
  <2>2. Cardinality(t) \in Nat /\ (Cardinality(t) = 0 => t = {})
    BY <2>1, FS_CardinalityType, FS_EmptySet
  <2>3. ASSUME t # {} PROVE Max(t) \in t
    <3>1. t \in SUBSET Nat /\ \A k \in t : k <= n
      BY <1>1
    <3> QED  BY <1>1, <2>3, <3>1, MaxProperties
  <2>4. ASSUME NEW m \in t PROVE Cardinality(t \ {m}) = Cardinality(t) - 1
    BY <2>1, FS_RemoveElement
  <2> QED  BY <2>1, <2>2, <2>3, <2>4
<1> HIDE DEF D, n
<1>5. ASSUME NEW k \in Nat, NEW g, Folds(g, k)
      PROVE  \E h : Folds(h, k + 1)
  <2> DEFINE h == [t \in Few(k + 1) |-> Step(g, t)]
  <2>1. \A t \in Few(k) : g[t] = Step(g, t)
    <3> HIDE DEF Step, Few
    <3>1. g = [t \in Few(k) |-> Step(g, t)]
      BY <1>5
    <3> QED  BY <3>1, Zenon
  <2>2. \A t \in Few(k) : t \in Few(k + 1)
    <3> SUFFICES ASSUME NEW t \in SUBSET D, Cardinality(t) <= k PROVE Cardinality(t) <= k + 1
      OBVIOUS
    <3>1. Cardinality(t) \in Nat
      BY <1>4
    <3> QED  BY <3>1
  <2>3. \A t \in Few(k) : h[t] = g[t]
    <3> HIDE DEF Step, Few
    <3> QED  BY <2>1, <2>2
  <2>4. \A t \in Few(k + 1) : t # {} => t \ {Max(t)} \in Few(k)
    <3> SUFFICES ASSUME NEW t \in Few(k + 1), t # {} PROVE t \ {Max(t)} \in Few(k)
      OBVIOUS
    <3>1. t \in SUBSET D /\ Cardinality(t) <= k + 1
      OBVIOUS
    <3>2. /\ Cardinality(t) \in Nat /\ t \ {Max(t)} \in SUBSET D
          /\ Cardinality(t \ {Max(t)}) = Cardinality(t) - 1
      BY <1>4, <3>1
    <3>3. Cardinality(t \ {Max(t)}) <= k
      BY <3>1, <3>2
    <3> QED  BY <3>2, <3>3
  <2>5. \A t \in Few(k + 1) : Step(g, t) = Step(h, t)
    <3> HIDE DEF h, Few
    <3> QED  BY <2>3, <2>4
  <2>6. h = [t \in Few(k + 1) |-> Step(h, t)]
    <3>1. h = [t \in Few(k + 1) |-> Step(g, t)]
      OBVIOUS
    <3> HIDE DEF h, Few, Step
    <3> QED  BY <2>5, <3>1
  <2>7. Folds(h, k + 1)
    <3> HIDE DEF h, Few, Step
    <3> QED  BY <2>6
  <2> HIDE DEF h, Folds
  <2> QED  BY <2>7
<1>6. \E g : Folds(g, 0)
  <2> DEFINE g == [t \in Few(0) |-> <<>>]
  <2>1. \A t \in Few(0) : t = {}
    <3> SUFFICES ASSUME NEW t \in SUBSET D, Cardinality(t) <= 0 PROVE t = {}
      OBVIOUS
    <3>1. Cardinality(t) \in Nat /\ (Cardinality(t) = 0 => t = {})
      BY <1>4
    <3> QED  BY <3>1
  <2>2. \A t \in Few(0) : Step(g, t) = <<>>
    <3> HIDE DEF g
    <3> QED  BY <2>1
  <2>3. g = [t \in Few(0) |-> Step(g, t)]
    <3>1. g = [t \in Few(0) |-> <<>>]
      OBVIOUS
    <3> HIDE DEF g, Few, Step
    <3> QED  BY <2>2, <3>1
  <2>4. Folds(g, 0)
    <3> HIDE DEF g, Few, Step
    <3> QED  BY <2>3
  <2> HIDE DEF g, Folds
  <2> QED  BY <2>4
<1> DEFINE none == {k \in Nat : ~ \E g : Folds(g, k)}
<1>7. none = {}
  <2> SUFFICES ASSUME none # {} PROVE FALSE
    OBVIOUS
  <2> HIDE DEF Folds
  <2>1. none \in SUBSET Nat
    OBVIOUS
  <2>2. PICK k \in none : \A j \in none : k <= j
    <3> HIDE DEF none
    <3> QED  BY <2>1, MinProperties
  <2>3. k \in Nat /\ k # 0
    BY <1>6
  <2>4. k - 1 \in Nat /\ k - 1 \notin none /\ (k - 1) + 1 = k
    BY <2>2, <2>3
  <2>5. PICK g : Folds(g, k - 1)
    BY <2>4
  <2>6. \E h : Folds(h, (k - 1) + 1)
    BY <1>5, <2>4, <2>5
  <2>7. \E h : Folds(h, k)
    BY <2>4, <2>6
  <2> QED  BY <2>7
<1>8. \E g : g = [t \in SUBSET D |-> Step(g, t)]
  <2>1. Few(n) = SUBSET D
    BY <1>4
  <2>2. \E g : Folds(g, n)
    <3> HIDE DEF Folds
    <3> QED  BY <1>1, <1>7
  <2> HIDE DEF Few, Step
  <2>3. PICK g : g = [t \in Few(n) |-> Step(g, t)]
    BY <2>2
  <2>4. g = [t \in SUBSET D |-> Step(g, t)]
    BY <2>1, <2>3
  <2> QED  BY <2>4
<1>9. fold = [t \in SUBSET D |-> Step(fold, t)]
  <2> HIDE DEF Step
  <2> QED  BY <1>8, Zenon
<1> HIDE DEF fold
<1>10. \A t \in SUBSET D : fold[t] = Step(fold, t)
  <2> HIDE DEF Step
  <2> QED  BY <1>9, Zenon
<1> DEFINE r == [k \in 0..n |-> fold[1..k]]
<1>11. r[0] = <<>>
  <2>1. 1..0 = {} /\ {} \in SUBSET D /\ 0 \in 0..n
    BY <1>1
  <2>2. fold[{}] = <<>>
    BY <1>10, <2>1
  <2> QED  BY <2>1, <2>2
<1>12. ASSUME NEW k \in D PROVE r[k] = Extended(r[k - 1], s[k])
  <2>1. k \in Nat /\ k >= 1 /\ k \in 0..n /\ k - 1 \in 0..n
    BY <1>1 DEF D
  <2> DEFINE t == 1..k
  <2>2. t \in SUBSET D /\ t # {} /\ k \in t /\ t \in SUBSET Nat /\ \A j \in t : j <= k
    <3>1. \A j \in t : j \in Nat /\ j <= k /\ j >= 1
      BY <2>1
    <3>2. k <= n /\ k \in t
      BY <1>1, <2>1 DEF D
    <3>3. \A j \in t : j <= n
      BY <1>1, <2>1, <3>1, <3>2
    <3>4. t \in SUBSET D
      BY <1>1, <3>1, <3>3 DEF D
    <3> HIDE DEF t
    <3> QED  BY <3>1, <3>2, <3>4
  <2>3. t \ {k} = 1..(k - 1)
    BY <2>1
  <2> HIDE DEF t
  <2>4. Max(t) \in t /\ \A j \in t : j <= Max(t)
    BY <2>1, <2>2, MaxProperties
  <2>5. Max(t) = k
    <3>1. PICK m \in t : m = Max(t)
      BY <2>4
    <3>2. m \in Nat /\ m <= k /\ k <= m
      BY <2>2, <2>4, <3>1
    <3> QED  BY <2>1, <3>1, <3>2
  <2>6. fold[t] = Extended(fold[t \ {k}], s[k])
    BY <1>10, <2>2, <2>5
  <2>7. r[k] = fold[t] /\ r[k - 1] = fold[1..(k - 1)]
    BY <2>1 DEF t
  <2> QED  BY <2>3, <2>6, <2>7
<1>13. r[n] = fold[D]
  BY <1>1 DEF D
<1> HIDE DEF r
<1> QED  BY <1>3, <1>11, <1>12, <1>13 DEF D, n

(* The ranges of what is cached name the cached UIDs and no other, and no  *)
(* two of them touch: for any finite set of UIDs.                          *)
LEMMA RangesExact ==
  ASSUME NEW c, DOMAIN c.msgs \in SUBSET Nat, IsFiniteSet(DOMAIN c.msgs)
  PROVE  Covered(KnownUidRanges(c)) = DOMAIN c.msgs /\ Apart(KnownUidRanges(c))
<1>1. PICK s : s = GetCachedUids(c)
  OBVIOUS
<1>2. /\ s \in Seq(Nat) /\ {s[i] : i \in 1..Len(s)} = DOMAIN c.msgs
      /\ \A i \in 1..Len(s) : i > 1 => s[i - 1] < s[i]
  BY <1>1, CachedUidsAscend
<1>3. PICK r : /\ r[0] = <<>>
               /\ \A k \in 1..Len(s) : r[k] = Extended(r[k - 1], s[k])
               /\ r[Len(s)] = FoldLeft(Extended, <<>>, s)
  BY <1>2, FoldOfExtended
<1> DEFINE n == Len(s)
           Right(k) == /\ r[k] \in Seq(Nat \X Nat) /\ Apart(r[k])
                       /\ Covered(r[k]) = {s[i] : i \in 1..k}
                       /\ r[k] # <<>> => k # 0 /\ r[k][Len(r[k])][2] = s[k]
           wrong == {k \in 0..n : ~Right(k)}
<1>4. n \in Nat /\ \A i \in 1..n : s[i] \in Nat
  BY <1>2
<1>5. Right(0)
  <2>1. <<>> \in Seq(Nat \X Nat) /\ DOMAIN <<>> = {} /\ 1..0 = {}
    OBVIOUS
  <2>2. Covered(<<>>) = {} /\ Apart(<<>>)
    BY <2>1 DEF Covered, Apart
  <2> QED  BY <1>3, <2>1, <2>2
<1>6. ASSUME NEW k \in 1..n, Right(k - 1) PROVE Right(k)
  <2>1. PICK q : q = r[k - 1]
    OBVIOUS
  <2>2. /\ q \in Seq(Nat \X Nat) /\ Apart(q)
        /\ Covered(q) = {s[i] : i \in 1..(k - 1)}
        /\ q # <<>> => k - 1 # 0 /\ q[Len(q)][2] = s[k - 1]
    BY <1>6, <2>1
  <2>3. k \in Nat /\ s[k] \in Nat
    BY <1>4
  <2>4. q # <<>> => q[Len(q)][2] < s[k]
    <3> SUFFICES ASSUME q # <<>> PROVE q[Len(q)][2] < s[k]
      OBVIOUS
    <3>1. k > 1 /\ q[Len(q)][2] = s[k - 1]
      BY <1>4, <2>2
    <3> QED  BY <1>2, <3>1
  <2>5. PICK e : e = r[k]
    OBVIOUS
  <2>6. e = Extended(q, s[k])
    BY <1>3, <2>1, <2>5
  <2>7. /\ e \in Seq(Nat \X Nat) /\ Apart(e) /\ e[Len(e)][2] = s[k]
        /\ Covered(e) = Covered(q) \cup {s[k]}
    BY <2>2, <2>3, <2>4, <2>6, ExtendedBy
  <2>8. Covered(e) = {s[i] : i \in 1..k}
    <3>1. 1..k = (1..(k - 1)) \cup {k}
      BY <1>4
    <3> QED  BY <2>2, <2>7, <3>1
  <2>9. k # 0
    BY <1>4
  <2> QED  BY <2>5, <2>7, <2>8, <2>9
<1>7. wrong = {}
  <2> SUFFICES ASSUME wrong # {} PROVE FALSE
    OBVIOUS
  <2> HIDE DEF Right
  <2>1. wrong \in SUBSET Nat
    BY <1>4
  <2>2. PICK k \in wrong : \A j \in wrong : k <= j
    <3> HIDE DEF wrong
    <3> QED  BY <2>1, MinProperties
  <2>3. k \in 0..n /\ ~Right(k) /\ k # 0
    BY <1>5
  <2>4. k \in 1..n /\ k - 1 \in 0..n /\ ~(k <= k - 1)
    BY <1>4, <2>3
  <2>5. Right(k - 1)
    BY <2>2, <2>4
  <2> QED  BY <1>6, <2>3, <2>4, <2>5
<1>8. Right(n)
  <2> HIDE DEF Right
  <2> QED  BY <1>4, <1>7
<1>9. KnownUidRanges(c) = r[n]
  BY <1>1, <1>3 DEF KnownUidRanges
<1> QED  BY <1>2, <1>8, <1>9

-----------------------------------------------------------------------------
(* Operators.                                                              *)

LEMMA Tuples ==
  ASSUME NEW a, NEW b, NEW c, NEW d, NEW e, NEW f
  PROVE  /\ <<a>> # <<>> /\ <<a>>[1] = a /\ Head(<<a>>) = a /\ Tail(<<a>>) = <<>>
         /\ <<a, b>> # <<>> /\ <<a, b>>[1] = a /\ Head(<<a, b>>) = a /\ Tail(<<a, b>>) = <<b>>
         /\ <<a, b, c>> # <<>> /\ <<a, b, c>>[1] = a /\ Head(<<a, b, c>>) = a /\ Tail(<<a, b, c>>) = <<b, c>>
         /\ <<a, b, c, d>> # <<>> /\ <<a, b, c, d>>[1] = a /\ Head(<<a, b, c, d>>) = a /\ Tail(<<a, b, c, d>>) = <<b, c, d>>
         /\ <<a, b, c, d, e>> # <<>> /\ <<a, b, c, d, e>>[1] = a /\ Head(<<a, b, c, d, e>>) = a
         /\ Tail(<<a, b, c, d, e>>) = <<b, c, d, e>>
         /\ <<a, b, c, d, e, f>> # <<>> /\ <<a, b, c, d, e, f>>[1] = a /\ Head(<<a, b, c, d, e, f>>) = a
         /\ Tail(<<a, b, c, d, e, f>>) = <<b, c, d, e, f>>
OBVIOUS

LEMMA TodoSteps ==
  ASSUME NEW t \in Todos
  PROVE  /\ t # <<>> /\ Head(t) = t[1] /\ t[1] \in Verbs
         /\ Tail(t) = <<>> \/ (Tail(t) \in Todos /\ Tail(t)[1] \notin Selecting \cup {"BODY", "CHANGEDSINCE", "UIDMOVE"})
<1>1. CASE \E v \in Singles : t = <<v>>
  <2>1. PICK v \in Singles : t = <<v>>
    BY <1>1
  <2>2. t # <<>> /\ Head(t) = t[1] /\ t[1] = v /\ Tail(t) = <<>>
    BY <2>1
  <2> QED  BY <2>2 DEF Verbs
<1>2. CASE t \in {<<"establish", "greeting">>, <<"upgrade", "CAPABILITY2">>, <<"LOGIN", "CAPABILITY3">>,
                    <<"LOGOUT", "closeConnection">>, <<"APPEND", "literal">>, <<"wait", "DONE">>}
  <2>1. PICK a \in {"establish", "upgrade", "LOGIN", "LOGOUT", "APPEND", "wait"},
             b \in {"greeting", "CAPABILITY2", "CAPABILITY3", "closeConnection", "literal", "DONE"} : t = <<a, b>>
    BY <1>2
  <2>2. t # <<>> /\ Head(t) = t[1] /\ t[1] = a /\ Tail(t) = <<b>> /\ <<b>>[1] = b
    BY <2>1, Tuples
  <2>3. b \in Singles \ (Selecting \cup {"BODY", "CHANGEDSINCE", "UIDMOVE"}) /\ a \in Verbs
    BY DEF Singles, Selecting, Verbs
  <2>4. <<b>> \in Todos
    BY <2>3 DEF Todos
  <2> QED  BY <2>2, <2>3, <2>4
<1>3. CASE t \in {Idling, <<"STARTTLS", "upgrade", "CAPABILITY2">>, <<"CAPABILITY", "STARTTLS", "upgrade", "CAPABILITY2">>,
                    <<"greeting", "CAPABILITY", "STARTTLS", "upgrade", "CAPABILITY2">>, Connect(143)}
  <2>1. CASE t = Idling
    <3>1. t = <<"IDLE", "wait", "DONE">>
      BY <2>1 DEF Idling
    <3>2. t # <<>> /\ Head(t) = t[1] /\ t[1] = "IDLE" /\ Tail(t) = <<"wait", "DONE">> /\ <<"wait", "DONE">>[1] = "wait"
      BY <3>1, Tuples
    <3> QED  BY <3>2 DEF Todos, Verbs, Selecting
  <2>2. CASE t = <<"STARTTLS", "upgrade", "CAPABILITY2">>
    <3>1. /\ t # <<>> /\ Head(t) = t[1] /\ t[1] = "STARTTLS" /\ Tail(t) = <<"upgrade", "CAPABILITY2">>
          /\ <<"upgrade", "CAPABILITY2">>[1] = "upgrade"
      BY <2>2, Tuples
    <3> QED  BY <3>1 DEF Todos, Verbs, Selecting
  <2>3. CASE t = <<"CAPABILITY", "STARTTLS", "upgrade", "CAPABILITY2">>
    <3>1. /\ t # <<>> /\ Head(t) = t[1] /\ t[1] = "CAPABILITY" /\ Tail(t) = <<"STARTTLS", "upgrade", "CAPABILITY2">>
          /\ <<"STARTTLS", "upgrade", "CAPABILITY2">>[1] = "STARTTLS"
      BY <2>3, Tuples
    <3> QED  BY <3>1 DEF Todos, Verbs, Selecting
  <2>4. CASE t = <<"greeting", "CAPABILITY", "STARTTLS", "upgrade", "CAPABILITY2">>
    <3>1. /\ t # <<>> /\ Head(t) = t[1] /\ t[1] = "greeting" /\ Tail(t) = <<"CAPABILITY", "STARTTLS", "upgrade", "CAPABILITY2">>
          /\ <<"CAPABILITY", "STARTTLS", "upgrade", "CAPABILITY2">>[1] = "CAPABILITY"
      BY <2>4, Tuples
    <3> QED  BY <3>1 DEF Todos, Verbs, Selecting, Singles
  <2>5. CASE t = Connect(143)
    <3>1. t = <<"establish", "greeting", "CAPABILITY", "STARTTLS", "upgrade", "CAPABILITY2">>
      BY <2>5 DEF Connect
    <3>2. /\ t # <<>> /\ Head(t) = t[1] /\ t[1] = "establish"
          /\ Tail(t) = <<"greeting", "CAPABILITY", "STARTTLS", "upgrade", "CAPABILITY2">>
          /\ <<"greeting", "CAPABILITY", "STARTTLS", "upgrade", "CAPABILITY2">>[1] = "greeting"
      BY <3>1, Tuples
    <3> QED  BY <3>2 DEF Todos, Verbs, Selecting
  <2> QED  BY <1>3, <2>1, <2>2, <2>3, <2>4, <2>5
<1> QED  BY <1>1, <1>2, <1>3 DEF Todos

LEMMA CommandVerbs ==
  ASSUME NEW op \in CliCommands \ {"clear", "connect", "login", "logout", "append", "idle"}, NEW m \in NoneOr
  PROVE  /\ Command(op, m) \in Singles
         /\ Command(op, m) \in Selecting => op \in {"select", "examine"}
         /\ Command(op, m) = "BODY" => op = "read"
         /\ Command(op, m) = "CHANGEDSINCE" => op = "sync"
         /\ Command(op, m) = "UIDMOVE" => op = "move"
         /\ Command(op, m) # "greeting" /\ (Command(op, m) = "EXAMINE" => op = "examine")
<1>1. SelectVerb(m) \in {"SELECT", "SELECT_QRESYNC"} /\ SyncVerb \in {"CHANGEDSINCE", "UIDFETCH"}
  BY DEF SelectVerb, SyncVerb
<1>2. CASE op \in {"select", "sync"}
  BY <1>1, <1>2 DEF Command, Simple, Listing, Searching, Naming, Singles, Selecting
<1>3. CASE op \in Simple
  <2>1. Command(op, m) = "SIMPLE"
    BY <1>3 DEF Command, Simple, Listing, Searching, Naming
  <2> QED  BY <2>1 DEF Singles, Selecting
<1>4. CASE op \notin {"select", "sync"} \cup Simple
  <2>1. op \in {"capability", "authenticate", "examine", "close", "expunge", "headers", "read", "store", "move", "uidexpunge"}
    BY <1>4 DEF CliCommands, Fetching
  <2>2. Command(op, m) = Commands[op]
    BY <1>4 DEF Command
  <2> QED  BY <2>1, <2>2 DEF Commands, Singles, Selecting
<1> QED  BY <1>2, <1>3, <1>4

LEMMA ScriptTodos ==
  ASSUME NEW op \in CliCommands \ {"clear"}, NEW m \in NoneOr, NEW port \in {143, 993}
  PROVE  /\ Script(op, m, port) \in Todos
         /\ Script(op, m, port)[1] \in Selecting => op \in {"select", "examine"}
         /\ Script(op, m, port) = <<"BODY">> => op = "read"
         /\ Script(op, m, port)[1] = "CHANGEDSINCE" => op = "sync"
         /\ Script(op, m, port)[1] = "UIDMOVE" => op = "move"
         /\ Script(op, m, port)[1] # "greeting" /\ (Script(op, m, port)[1] = "EXAMINE" => op = "examine")
<1> DEFINE s == Script(op, m, port)
<1>1. CASE op \in {"connect", "login", "logout", "append", "idle"}
  <2>1. s \in {Connect(port), Login, <<"LOGOUT", "closeConnection">>, <<"APPEND", "literal">>, Idling}
    BY <1>1 DEF Script
  <2>2. Connect(port) \in {Connect(143), <<"establish", "greeting">>}
    BY DEF Connect
  <2>3. s \in Todos
    BY <2>1, <2>2 DEF Todos, Login
  <2>4. s[1] \in {"establish", "LOGIN", "LOGOUT", "APPEND", "IDLE"} /\ s # <<"BODY">>
    BY <2>1 DEF Connect, Login, Idling
  <2>5. s[1] # "greeting" /\ s[1] # "EXAMINE"
    BY <2>4
  <2> QED  BY <2>3, <2>4, <2>5 DEF Selecting
<1>2. CASE op \notin {"connect", "login", "logout", "append", "idle"}
  <2>1. s = <<Command(op, m)>>
    BY <1>2 DEF Script
  <2>2. PICK v \in Singles : v = Command(op, m) /\ (v \in Selecting => op \in {"select", "examine"}) /\ (v = "BODY" => op = "read")
                       /\ (v = "CHANGEDSINCE" => op = "sync") /\ (v = "UIDMOVE" => op = "move") /\ v # "greeting" /\ (v = "EXAMINE" => op = "examine")
    BY <1>2, CommandVerbs
  <2>3. s[1] = v /\ (s = <<"BODY">> => v = "BODY")
    BY <2>1, <2>2
  <2>4. s \in Todos
    BY <2>1, <2>2 DEF Todos
  <2> QED  BY <2>2, <2>3, <2>4
<1> QED  BY <1>1, <1>2

(* What a line holds depends on its kind.                                  *)
LEMMA ItemFields ==
  ASSUME NEW x \in ItemSet
  PROVE  /\ x.tag \in Nat /\ x.ok \in BOOLEAN /\ x.slash \in BOOLEAN /\ x.uids \in SUBSET Uids
         /\ x.kind = "FETCH" => x.data \in FetchData
         /\ x.kind \in {"VANISHED", "EXPUNGE"} => x.data \in Place
         /\ x.kind = "caps" => x.data \in Caps
         /\ x.kind = "selected" => x.data \in SelectData
BY DEF ItemSet

LEMMA PlainItem ==
  ASSUME NEW k \in {"greeting", "tagged", "plus", "EXISTS"}, NEW t \in Nat, NEW ok \in BOOLEAN
  PROVE  LET x == [Item(k) EXCEPT !.tag = t, !.ok = ok]
         IN  x \in ItemSet /\ x.kind = k /\ x.ok = ok /\ x.tag = t /\ ~x.slash
BY DEF Item, ItemSet

LEMMA ServerItems ==
  ASSUME ServerTypes
  PROVE  /\ CapsLine \in ItemSet /\ CapsLine.kind = "caps" /\ ~CapsLine.slash
         /\ \A t \in Nat, ok \in BOOLEAN :
              LET x == Tagged(t, ok) IN x \in ItemSet /\ x.kind = "tagged" /\ x.ok = ok /\ ~x.slash
         /\ \A m \in Mailboxes, S \in SUBSET Uids :
              LET x == Vanished(m, S) IN x \in ItemSet /\ x.kind \in {"VANISHED", "EXPUNGE"} /\ ~x.slash
         /\ \A m \in Mailboxes, u \in Uids, msg \in [mod : Nat, seen : BOOLEAN], env \in BOOLEAN, body \in Bodies :
              LET x == FetchLine(m, u, msg, env, body) IN
              /\ x \in ItemSet /\ x.kind = "FETCH" /\ x.slash = msg.seen
              /\ x.data = [of |-> <<m, box[m].validity>>, uid |-> u, mod |-> msg.mod, seen |-> msg.seen, env |-> env, body |-> body]
         /\ Item("plus") \in ItemSet /\ Item("EXISTS") \in ItemSet
<1>1. \A m \in Mailboxes : box[m].validity \in Nat
  BY DEF ServerTypes, BoxSet
<1>2. srv.offer \in Caps
  BY DEF ServerTypes, SessionSet
<1>3. CapsLine \in ItemSet /\ CapsLine.kind = "caps" /\ ~CapsLine.slash
  BY <1>2 DEF CapsLine, Item, ItemSet
<1>4. ASSUME NEW t \in Nat, NEW ok \in BOOLEAN
      PROVE  LET x == Tagged(t, ok) IN x \in ItemSet /\ x.kind = "tagged" /\ x.ok = ok /\ ~x.slash
  BY DEF Tagged, Item, ItemSet
<1>5. ASSUME NEW m \in Mailboxes, NEW S \in SUBSET Uids
      PROVE  LET x == Vanished(m, S) IN x \in ItemSet /\ x.kind \in {"VANISHED", "EXPUNGE"} /\ ~x.slash
  BY <1>1 DEF Vanished, Item, ItemSet, Place
<1>6. ASSUME NEW m \in Mailboxes, NEW u \in Uids, NEW msg \in [mod : Nat, seen : BOOLEAN], NEW env \in BOOLEAN, NEW body \in Bodies
      PROVE  LET x == FetchLine(m, u, msg, env, body) IN
             /\ x \in ItemSet /\ x.kind = "FETCH" /\ x.slash = msg.seen
             /\ x.data = [of |-> <<m, box[m].validity>>, uid |-> u, mod |-> msg.mod, seen |-> msg.seen, env |-> env, body |-> body]
  <2> DEFINE d == [of |-> <<m, box[m].validity>>, uid |-> u, mod |-> msg.mod, seen |-> msg.seen, env |-> env, body |-> body]
  <2>1. d \in FetchData
    BY <1>1 DEF FetchData, Place
  <2> HIDE DEF d
  <2>2. FetchLine(m, u, msg, env, body) = [kind |-> "FETCH", tag |-> 0, ok |-> TRUE, slash |-> msg.seen, uids |-> {}, data |-> d]
    <3>1. FetchLine(m, u, msg, env, body) = [Item("FETCH") EXCEPT !.slash = msg.seen, !.data = d]
      BY Zenon DEF FetchLine, d
    <3> QED  BY <3>1 DEF Item
  <2>3. FetchLine(m, u, msg, env, body) \in ItemSet
    BY <2>1, <2>2 DEF ItemSet
  <2>4. FetchLine(m, u, msg, env, body).data = d
    BY <2>2
  <2> QED  BY <2>2, <2>3, <2>4 DEF d
<1>7. Item("plus") \in ItemSet /\ Item("EXISTS") \in ItemSet
  BY DEF Item, ItemSet
<1> QED  BY <1>3, <1>4, <1>5, <1>6, <1>7

(* The mailboxes on the server.                                            *)
MsgMaps == UNION {[S -> [mod : Nat, seen : BOOLEAN]] : S \in SUBSET Uids}
GoneMaps == UNION {[S -> Nat] : S \in SUBSET Uids}

LEMMA NewBoxType ==
  ASSUME NEW v \in Nat \ {0}
  PROVE  NewBox(v) \in BoxSet
<1>1. <<>> \in [{} -> [mod : Nat, seen : BOOLEAN]] /\ <<>> \in [{} -> Nat]
  BY EmptySeq
<1>2. <<>> \in MsgMaps /\ <<>> \in GoneMaps
  BY <1>1 DEF MsgMaps, GoneMaps
<1> QED  BY <1>2 DEF NewBox, BoxSet, MsgMaps, GoneMaps

LEMMA PutType ==
  ASSUME NEW b \in BoxSet, b.next <= MaxUid
  PROVE  Put(b) \in BoxSet /\ Put(b).validity = b.validity
<1>1. b.next \in Uids /\ b.modseq \in Nat /\ b.next \in Nat \ {0} /\ b.validity \in Nat \ {0}
  BY ImapAssumption DEF BoxSet, Uids
<1>2. PICK S \in SUBSET Uids : b.msgs \in [S -> [mod : Nat, seen : BOOLEAN]]
  BY DEF BoxSet
<1> DEFINE f == [u \in DOMAIN b.msgs \cup {b.next} |-> IF u = b.next THEN [mod |-> b.modseq + 1, seen |-> FALSE] ELSE b.msgs[u]]
<1>3. f \in [S \cup {b.next} -> [mod : Nat, seen : BOOLEAN]] /\ S \cup {b.next} \in SUBSET Uids
  BY <1>1, <1>2
<1>4. f \in MsgMaps
  BY <1>3 DEF MsgMaps
<1>5. Put(b) = [validity |-> b.validity, next |-> b.next + 1, modseq |-> b.modseq + 1, msgs |-> f, gone |-> b.gone]
  <2>1. Put(b) = [b EXCEPT !.modseq = b.modseq + 1, !.next = b.next + 1, !.msgs = f]
    BY Zenon DEF Put
  <2> HIDE DEF f
  <2> QED  BY <2>1 DEF BoxSet
<1> HIDE DEF f
<1> QED  BY <1>1, <1>4, <1>5 DEF BoxSet, MsgMaps

LEMMA MarkType ==
  ASSUME NEW b \in BoxSet, NEW S, NEW f \in BOOLEAN
  PROVE  /\ Mark(b, S, f) \in BoxSet /\ Mark(b, S, f).validity = b.validity /\ DOMAIN Mark(b, S, f).msgs = DOMAIN b.msgs
         /\ \A u \in DOMAIN b.msgs : Mark(b, S, f).msgs[u] \in [mod : Nat, seen : BOOLEAN]
         /\ \A u \in S \cap DOMAIN b.msgs : Mark(b, S, f).msgs[u].seen = f
<1>1. b.modseq \in Nat
  BY DEF BoxSet
<1>2. PICK D \in SUBSET Uids : b.msgs \in [D -> [mod : Nat, seen : BOOLEAN]]
  BY DEF BoxSet
<1> DEFINE g == [u \in DOMAIN b.msgs |-> IF u \in S THEN [mod |-> b.modseq + 1, seen |-> f] ELSE b.msgs[u]]
<1>3. g \in [D -> [mod : Nat, seen : BOOLEAN]] /\ DOMAIN g = DOMAIN b.msgs /\ \A u \in S \cap DOMAIN b.msgs : g[u].seen = f
  BY <1>1, <1>2
<1>4. g \in MsgMaps
  BY <1>3 DEF MsgMaps
<1>5. Mark(b, S, f) = [validity |-> b.validity, next |-> b.next, modseq |-> b.modseq + 1, msgs |-> g, gone |-> b.gone]
  <2>1. Mark(b, S, f) = [b EXCEPT !.modseq = b.modseq + 1, !.msgs = g]
    BY Zenon DEF Mark
  <2> HIDE DEF g
  <2> QED  BY <2>1 DEF BoxSet
<1>6. DOMAIN b.msgs = D
  BY <1>2
<1> HIDE DEF g
<1>7. \A u \in D : g[u] \in [mod : Nat, seen : BOOLEAN]
  BY <1>3
<1> QED  BY <1>1, <1>3, <1>4, <1>5, <1>6, <1>7 DEF BoxSet, MsgMaps

LEMMA DropType ==
  ASSUME NEW b \in BoxSet, NEW S \in SUBSET Uids
  PROVE  Drop(b, S) \in BoxSet /\ Drop(b, S).validity = b.validity
<1>1. b.modseq \in Nat
  BY DEF BoxSet
<1>2. PICK D \in SUBSET Uids : b.msgs \in [D -> [mod : Nat, seen : BOOLEAN]]
  BY DEF BoxSet
<1>3. PICK G \in SUBSET Uids : b.gone \in [G -> Nat]
  BY DEF BoxSet
<1> DEFINE f == Restrict(b.msgs, DOMAIN b.msgs \ S)
           g == [u \in DOMAIN b.gone \cup S |-> IF u \in S THEN b.modseq + 1 ELSE b.gone[u]]
<1>4. f \in [D \ S -> [mod : Nat, seen : BOOLEAN]]
  BY <1>2 DEF Restrict
<1>5. g \in [G \cup S -> Nat]
  BY <1>1, <1>3
<1>6. f \in MsgMaps /\ g \in GoneMaps
  BY <1>4, <1>5 DEF MsgMaps, GoneMaps
<1>7. Drop(b, S) = [validity |-> b.validity, next |-> b.next, modseq |-> b.modseq + 1, msgs |-> f, gone |-> g]
  <2>1. Drop(b, S) = [b EXCEPT !.modseq = b.modseq + 1, !.msgs = f, !.gone = g]
    BY Zenon DEF Drop
  <2> HIDE DEF f, g
  <2> QED  BY <2>1 DEF BoxSet
<1> HIDE DEF f, g
<1> QED  BY <1>1, <1>6, <1>7 DEF BoxSet, MsgMaps, GoneMaps

(* No UID is given twice: those of a mailbox's messages and of those that  *)
(* are gone come before the next, and they differ.                         *)
Sound(b) == /\ \A u \in DOMAIN b.msgs : u < b.next /\ u \notin DOMAIN b.gone
            /\ \A u \in DOMAIN b.gone : u < b.next

(* A mailbox grows older: a UID that was given does not come back.         *)
Ages(b, c) == /\ Sound(b) => Sound(c)
              /\ \/ b.validity < c.validity
                 \/ /\ b.validity = c.validity /\ b.next <= c.next
                    /\ \A u \in DOMAIN c.msgs : u \in DOMAIN b.msgs \/ u >= b.next

LEMMA StaysAges ==
  ASSUME NEW b \in BoxSet
  PROVE  Ages(b, b)
BY DEF Ages, BoxSet

LEMMA PutAges ==
  ASSUME NEW b \in BoxSet, b.next <= MaxUid
  PROVE  Ages(b, Put(b))
<1>1. b.next \in Nat /\ b.validity \in Nat
  BY DEF BoxSet
<1>2. PICK D \in SUBSET Uids : DOMAIN b.msgs = D
  BY DEF BoxSet
<1>3. PICK G \in SUBSET Uids : DOMAIN b.gone = G
  BY DEF BoxSet
<1> DEFINE f == [u \in DOMAIN b.msgs \cup {b.next} |-> IF u = b.next THEN [mod |-> b.modseq + 1, seen |-> FALSE] ELSE b.msgs[u]]
<1>4. PICK c : c = Put(b)
  OBVIOUS
<1>5. c = [b EXCEPT !.modseq = b.modseq + 1, !.next = b.next + 1, !.msgs = f]
  BY <1>4, Zenon DEF Put
<1>6. DOMAIN f = D \cup {b.next}
  BY <1>2
<1> HIDE DEF f
<1>7. c.validity = b.validity /\ c.next = b.next + 1 /\ DOMAIN c.msgs = D \cup {b.next} /\ DOMAIN c.gone = G
  BY <1>3, <1>5, <1>6 DEF BoxSet
<1>8. D \in SUBSET Nat /\ G \in SUBSET Nat
  BY ImapAssumption DEF Uids
<1>9. Sound(b) => Sound(c)
  <2> SUFFICES ASSUME Sound(b) PROVE Sound(c)
    OBVIOUS
  <2>1. (\A u \in D : u < b.next /\ u \notin G) /\ \A u \in G : u < b.next
    BY <1>2, <1>3 DEF Sound
  <2>4. PICK n \in Nat : n = b.next /\ n \notin G /\ n < c.next /\ \A u \in Nat : u < n => u < c.next
    BY <1>1, <1>7, <2>1
  <2>2. \A u \in D \cup {b.next} : u < c.next /\ u \notin G
    BY <1>8, <2>1, <2>4
  <2>3. \A u \in G : u < c.next
    BY <1>1, <1>7, <1>8, <2>1
  <2> QED  BY <1>7, <2>2, <2>3 DEF Sound
<1>10. \A u \in DOMAIN c.msgs : u \in DOMAIN b.msgs \/ u >= b.next
  BY <1>1, <1>2, <1>7
<1> QED  BY <1>1, <1>4, <1>7, <1>9, <1>10 DEF Ages

LEMMA MarkAges ==
  ASSUME NEW b \in BoxSet, NEW S, NEW f \in BOOLEAN
  PROVE  Ages(b, Mark(b, S, f))
<1>1. b.next \in Nat /\ b.validity \in Nat
  BY DEF BoxSet
<1>2. PICK c : c = Mark(b, S, f)
  OBVIOUS
<1>3. c.validity = b.validity /\ DOMAIN c.msgs = DOMAIN b.msgs
  BY <1>2, MarkType
<1>4. c.next = b.next /\ c.gone = b.gone
  BY <1>2 DEF Mark, BoxSet
<1>5. Sound(b) => Sound(c)
  BY <1>3, <1>4 DEF Sound
<1> QED  BY <1>1, <1>2, <1>3, <1>4, <1>5 DEF Ages

LEMMA DropAges ==
  ASSUME NEW b \in BoxSet, NEW S \in SUBSET DOMAIN b.msgs
  PROVE  /\ Ages(b, Drop(b, S))
         /\ DOMAIN Drop(b, S).msgs = DOMAIN b.msgs \ S /\ DOMAIN Drop(b, S).gone = DOMAIN b.gone \cup S
<1>1. b.next \in Nat /\ b.validity \in Nat
  BY DEF BoxSet
<1> DEFINE f == Restrict(b.msgs, DOMAIN b.msgs \ S)
           g == [u \in DOMAIN b.gone \cup S |-> IF u \in S THEN b.modseq + 1 ELSE b.gone[u]]
<1>2. PICK c : c = Drop(b, S)
  OBVIOUS
<1>3. c = [b EXCEPT !.modseq = b.modseq + 1, !.msgs = f, !.gone = g]
  BY <1>2, Zenon DEF Drop
<1>4. DOMAIN f = DOMAIN b.msgs \ S /\ DOMAIN g = DOMAIN b.gone \cup S
  BY DEF Restrict
<1> HIDE DEF f, g
<1>5. c.validity = b.validity /\ c.next = b.next /\ DOMAIN c.msgs = DOMAIN b.msgs \ S /\ DOMAIN c.gone = DOMAIN b.gone \cup S
  BY <1>3, <1>4 DEF BoxSet
<1>6. Sound(b) => Sound(c)
  BY <1>5 DEF Sound
<1>7. Ages(b, c)
  BY <1>1, <1>5, <1>6 DEF Ages
<1> QED  BY <1>2, <1>5, <1>7

LEMMA FiniteUids ==
  ASSUME NEW S \in SUBSET Uids
  PROVE  IsFiniteSet(S)
<1>1. IsFiniteSet(1..MaxUid)
  BY ImapAssumption, FS_Interval
<1> QED  BY <1>1, FS_Subset DEF Uids

(* The lines of an answer.                                                 *)
LEMMA LinesOf ==
  ASSUME NEW D \in SUBSET Uids, NEW f, DOMAIN f = D, NEW T, \A u \in D : f[u] \in T
  PROVE  Lines(f) \in Seq(T) /\ \A i \in DOMAIN Lines(f) : \E u \in D : Lines(f)[i] = f[u]
<1> DEFINE n == Cardinality(D)
           Good(s) == s \in [1..n -> D] /\ IsInjective(s)
           us == SetToSeq(D)
<1>1. IsFiniteSet(D)
  BY FiniteUids
<1>2. n \in Nat /\ \E s : Good(s)
  BY <1>1, FS_CardinalityType DEF ExistsBijection, Bijection, Injection
<1>3. Good(us)
  BY <1>2 DEF SetToSeq
<1>4. DOMAIN us = 1..n /\ \A i \in 1..n : us[i] \in D
  BY <1>3
<1>5. Lines(f) = [i \in 1..n |-> f[us[i]]]
  BY <1>4 DEF Lines
<1>6. Lines(f) \in [1..n -> T]
  BY <1>4, <1>5
<1>7. Lines(f) \in Seq(T)
  BY <1>2, <1>6, SeqDef
<1> QED  BY <1>4, <1>5, <1>7

(* What is left of the answers when n lines have been read.                *)
LEMMA Rest ==
  ASSUME NEW T, NEW s \in Seq(T), NEW n \in Nat, n <= Len(s)
  PROVE  /\ SubSeq(s, n + 1, Len(s)) \in Seq(T) /\ DOMAIN SubSeq(s, n + 1, Len(s)) = 1..(Len(s) - n)
         /\ Len(SubSeq(s, n + 1, Len(s))) = Len(s) - n
         /\ \A i \in 1..(Len(s) - n) : SubSeq(s, n + 1, Len(s))[i] = s[n + i]
<1>1. Len(s) \in Nat /\ \A i \in n + 1..Len(s) : s[i] \in T
  BY LenProperties
<1>2. n + 1 \in Int /\ Len(s) \in Int
  BY <1>1
<1>3. /\ SubSeq(s, n + 1, Len(s)) \in Seq(T)
      /\ Len(SubSeq(s, n + 1, Len(s))) = IF n + 1 <= Len(s) THEN Len(s) - (n + 1) + 1 ELSE 0
      /\ \A i \in 1..Len(s) - (n + 1) + 1 : SubSeq(s, n + 1, Len(s))[i] = s[n + 1 + i - 1]
  BY <1>1, <1>2, SubSeqProperties
<1>4. Len(s) - (n + 1) + 1 = Len(s) - n /\ \A i \in 1..Len(s) - n : n + 1 + i - 1 = n + i
  BY <1>1
<1>5. Len(SubSeq(s, n + 1, Len(s))) = Len(s) - n
  BY <1>1, <1>3
<1> QED  BY <1>3, <1>4, <1>5, LenProperties

(* The first lines of the answers.                                         *)
LEMMA FirstLines ==
  ASSUME NEW T, NEW s \in Seq(T), NEW n \in Nat, n <= Len(s)
  PROVE  /\ SubSeq(s, 1, n) \in Seq(T) /\ Len(SubSeq(s, 1, n)) = n /\ DOMAIN SubSeq(s, 1, n) = 1..n
         /\ \A i \in 1..n : SubSeq(s, 1, n)[i] = s[i]
<1>1. Len(s) \in Nat /\ \A i \in 1..n : s[i] \in T
  BY LenProperties
<1>2. /\ SubSeq(s, 1, n) \in Seq(T)
      /\ Len(SubSeq(s, 1, n)) = IF 1 <= n THEN n - 1 + 1 ELSE 0
      /\ \A i \in 1..n - 1 + 1 : SubSeq(s, 1, n)[i] = s[1 + i - 1]
  BY <1>1, SubSeqProperties
<1>3. n - 1 + 1 = n /\ \A i \in 1..n : 1 + i - 1 = i
  OBVIOUS
<1>4. Len(SubSeq(s, 1, n)) = n
  BY <1>2
<1> QED  BY <1>2, <1>3, <1>4, LenProperties

(* An answer: lines of any kind and then a status.                         *)
LEMMA Answered ==
  ASSUME NEW T, NEW s \in Seq(T), NEW x
  PROVE  /\ Append(s, x) \in Seq(T \cup {x}) /\ Append(s, x) # <<>> /\ Len(Append(s, x)) = Len(s) + 1
         /\ DOMAIN Append(s, x) = 1..Len(s) + 1
         /\ Append(s, x)[Len(s) + 1] = x /\ \A i \in 1..Len(s) : Append(s, x)[i] = s[i] /\ s[i] \in T
<1>1. s \in Seq(T \cup {x}) /\ x \in T \cup {x}
  BY SeqMonotonic
<1>2. Len(s) \in Nat /\ DOMAIN s = 1..Len(s) /\ \A i \in 1..Len(s) : s[i] \in T
  BY LenProperties
<1>3. Append(s, x) \in Seq(T \cup {x}) /\ Len(Append(s, x)) = Len(s) + 1
  BY <1>1
<1>4. DOMAIN Append(s, x) = 1..Len(s) + 1
  BY <1>3, LenProperties
<1>5. Append(s, x)[Len(s) + 1] = x /\ \A i \in 1..Len(s) : Append(s, x)[i] = s[i]
  BY <1>1
<1>6. Append(s, x) # <<>>
  BY <1>2, <1>3, EmptySeq
<1> QED  BY <1>2, <1>3, <1>4, <1>5, <1>6

LEMMA ReplyLines ==
  ASSUME NEW T, NEW s \in Seq(T), NEW n \in Seq(T), NEW l \in Seq(T), NEW x
  PROVE  s \o n \o l \in Seq(T) /\ s \o n \o l \o <<x>> = Append(s \o n \o l, x)
<1>1. s \o n \o l \in Seq(T)
  BY ConcatProperties
<1>2. PICK r \in Seq(T) : r = s \o n \o l
  BY <1>1
<1>3. r \o <<x>> = Append(r, x)
  <2> DEFINE U == T \cup {x}
  <2>1. r \in Seq(U) /\ <<x>> \in Seq(U) /\ Len(<<x>>) = 1 /\ <<x>>[1] = x /\ Len(r) \in Nat
    <3>1. r \in Seq(U)
      BY SeqMonotonic
    <3> QED  BY <3>1, LenProperties
  <2>2. r \o <<x>> \in Seq(U) /\ Len(r \o <<x>>) = Len(r) + 1
        /\ \A i \in 1..Len(r) + 1 : (r \o <<x>>)[i] = IF i <= Len(r) THEN r[i] ELSE <<x>>[i - Len(r)]
    BY <2>1, ConcatProperties
  <2>3. Append(r, x) \in Seq(U) /\ Len(Append(r, x)) = Len(r) + 1 /\ Append(r, x)[Len(r) + 1] = x
        /\ \A i \in 1..Len(r) : Append(r, x)[i] = r[i]
    BY Answered
  <2>4. \A i \in 1..Len(r) + 1 : (r \o <<x>>)[i] = Append(r, x)[i]
    <3> SUFFICES ASSUME NEW i \in 1..Len(r) + 1 PROVE (r \o <<x>>)[i] = Append(r, x)[i]
      OBVIOUS
    <3>1. CASE i <= Len(r)
      BY <2>1, <2>2, <2>3, <3>1
    <3>2. CASE ~(i <= Len(r))
      <4>1. i = Len(r) + 1 /\ i - Len(r) = 1
        BY <2>1, <3>2
      <4> QED  BY <2>1, <2>2, <2>3, <3>2, <4>1
    <3> QED  BY <3>1, <3>2
  <2> HIDE DEF U
  <2> QED  BY <2>2, <2>3, <2>4, SeqEqual
<1> QED  BY <1>1, <1>2, <1>3

(* The operations of the cache.                                            *)
EntryMaps == UNION {[S -> EntrySet] : S \in SUBSET Uids}

LEMMA CacheMsgs ==
  ASSUME NEW c \in CacheSet
  PROVE  /\ DOMAIN c.msgs \in SUBSET Uids /\ c.msgs \in [DOMAIN c.msgs -> EntrySet]
         /\ c.validity \in Nat /\ c.modseq \in Nat /\ c.next \in Nat
<1>1. PICK S \in SUBSET Uids : c.msgs \in [S -> EntrySet]
  BY DEF CacheSet
<1>2. DOMAIN c.msgs = S
  BY <1>1
<1>3. c.validity \in Nat /\ c.modseq \in Nat /\ c.next \in Nat
  BY DEF CacheSet
<1> QED  BY <1>1, <1>2, <1>3

LEMMA CacheRecord ==
  ASSUME NEW v \in Nat, NEW q \in Nat, NEW x \in Nat, NEW S \in SUBSET Uids, NEW g \in [S -> EntrySet]
  PROVE  /\ [validity |-> v, modseq |-> q, next |-> x, msgs |-> g] \in CacheSet
         /\ [validity |-> v, modseq |-> q, next |-> x, msgs |-> g].msgs = g
         /\ [validity |-> v, modseq |-> q, next |-> x, msgs |-> g].validity = v
<1>1. g \in EntryMaps
  BY DEF EntryMaps
<1>2. CacheSet = [validity : Nat, modseq : Nat, next : Nat, msgs : EntryMaps]
  BY DEF CacheSet, EntryMaps
<1> QED  BY <1>1, <1>2

LEMMA NoStateType ==
  NoState \in CacheSet /\ NoState.msgs = <<>> /\ DOMAIN NoState.msgs = {} /\ \A m : Own(NoState, m)
<1>1. <<>> \in [{} -> EntrySet] /\ DOMAIN <<>> = {}
  BY EmptySeq
<1>2. NoState \in CacheSet
  BY <1>1, CacheRecord DEF NoState
<1>3. NoState.msgs = <<>> /\ DOMAIN NoState.msgs = {}
  BY <1>1 DEF NoState
<1> QED  BY <1>2, <1>3 DEF Own

LEMMA SetMailboxStateType ==
  ASSUME NEW c \in CacheSet, NEW v \in Nat, NEW q \in Nat
  PROVE  /\ SetMailboxState(c, v, q) \in CacheSet /\ SetMailboxState(c, v, q).validity = v
         /\ \A m : Own(c, m) => Own(SetMailboxState(c, v, q), m)
<1> DEFINE kept == IF c.validity # 0 /\ c.validity # v THEN NoState ELSE c
<1>1. kept \in CacheSet /\ \A m : Own(c, m) => Own(kept, m)
  BY NoStateType
<1>2. kept.validity \in {0, v} \/ kept.validity = 0
  BY NoStateType DEF NoState
<1>3. SetMailboxState(c, v, q) = [kept EXCEPT !.validity = v, !.modseq = q]
  BY Zenon DEF SetMailboxState, kept
<1> HIDE DEF kept
<1>4. PICK k \in CacheSet : k = kept
  BY <1>1
<1>5. /\ SetMailboxState(c, v, q) \in CacheSet /\ SetMailboxState(c, v, q).validity = v
      /\ SetMailboxState(c, v, q).msgs = kept.msgs
  <2>1. SetMailboxState(c, v, q) = [validity |-> v, modseq |-> q, next |-> k.next, msgs |-> k.msgs]
    <3>1. SetMailboxState(c, v, q) = [k EXCEPT !.validity = v, !.modseq = q]
      BY <1>3, <1>4
    <3> QED  BY <3>1 DEF CacheSet
  <2>2. PICK S \in SUBSET Uids : k.msgs \in [S -> EntrySet]
    BY CacheMsgs
  <2>3. k.next \in Nat
    BY CacheMsgs
  <2> QED  BY <1>4, <2>1, <2>2, <2>3, CacheRecord
<1>6. ASSUME NEW m, Own(c, m)
      PROVE  Own(SetMailboxState(c, v, q), m)
  <2>1. CASE kept.validity = v
    BY <1>1, <1>5, <1>6, <2>1 DEF Own
  <2>2. CASE kept.validity = 0
    BY <1>1, <1>5, <1>6, <2>2 DEF Own
  <2> QED  BY <1>2, <2>1, <2>2
<1> QED  BY <1>5, <1>6

LEMMA SetUidNextType ==
  ASSUME NEW c \in CacheSet, NEW x \in Nat
  PROVE  SetUidNext(c, x) \in CacheSet /\ SetUidNext(c, x).validity = c.validity /\ \A m : Own(c, m) => Own(SetUidNext(c, x), m)
<1>1. SetUidNext(c, x) = [validity |-> c.validity, modseq |-> c.modseq, next |-> x, msgs |-> c.msgs]
  BY DEF SetUidNext, CacheSet
<1>2. /\ SetUidNext(c, x) \in CacheSet /\ SetUidNext(c, x).validity = c.validity
      /\ SetUidNext(c, x).msgs = c.msgs
  BY <1>1, CacheMsgs, CacheRecord
<1> QED  BY <1>2 DEF Own

LEMMA AddMessagesType ==
  ASSUME NEW c \in CacheSet, NEW D \in SUBSET Uids, NEW new \in [D -> EntrySet]
  PROVE  /\ AddMessages(c, new) \in CacheSet /\ AddMessages(c, new).validity = c.validity
         /\ DOMAIN AddMessages(c, new).msgs = DOMAIN c.msgs \cup D
         /\ \A u \in DOMAIN c.msgs \cup D : AddMessages(c, new).msgs[u] = IF u \in D THEN new[u] ELSE c.msgs[u]
<1> DEFINE g == [u \in DOMAIN c.msgs \cup D |-> IF u \in D THEN new[u] ELSE c.msgs[u]]
           mods == {new[u].mod : u \in D}
           H == {c.modseq} \cup mods
           h == CHOOSE h \in H : h >= c.modseq /\ \A u \in D : h >= new[u].mod
<1>1. DOMAIN c.msgs \in SUBSET Uids /\ c.msgs \in [DOMAIN c.msgs -> EntrySet] /\ c.modseq \in Nat /\ c.validity \in Nat /\ c.next \in Nat
  BY CacheMsgs
<1>2. g \in [DOMAIN c.msgs \cup D -> EntrySet] /\ DOMAIN c.msgs \cup D \in SUBSET Uids
  BY <1>1
<1>3. \A u \in D : new[u].mod \in Nat
  <2> SUFFICES ASSUME NEW u \in D PROVE new[u].mod \in Nat
    OBVIOUS
  <2>1. new[u] \in EntrySet
    OBVIOUS
  <2> QED  BY <2>1 DEF EntrySet
<1>4. h \in Nat
  <2>1. IsFiniteSet(D)
    BY FiniteUids
  <2>2. IsFiniteSet(mods)
    <3> DEFINE f == [u \in D |-> new[u].mod]
    <3>1. f \in Surjection(D, mods)
      BY DEF Surjection
    <3> HIDE DEF f, mods
    <3> QED  BY <2>1, <3>1, FS_Surjection
  <2>3. IsFiniteSet(H)
    <3>1. H = mods \cup {c.modseq}
      OBVIOUS
    <3> HIDE DEF mods, H
    <3> QED  BY <2>2, <3>1, FS_AddElement
  <2>4. H \in SUBSET Nat /\ H # {}
    BY <1>1, <1>3
  <2>5. PICK k \in H : \A j \in H : j <= k
    <3> HIDE DEF H
    <3> QED  BY <2>3, <2>4, GreatestOf
  <2>6. k >= c.modseq /\ \A u \in D : k >= new[u].mod
    BY <1>1, <1>3, <2>4, <2>5
  <2>7. h \in H
    <3> HIDE DEF H
    <3> QED  BY <2>5, <2>6
  <2> QED  BY <2>4, <2>7
<1>5. AddMessages(c, new) = [c EXCEPT !.msgs = g, !.modseq = h]
  <2>1. DOMAIN new = D
    OBVIOUS
  <2> QED  BY <2>1, Zenon DEF AddMessages, g, h, H, mods
<1> HIDE DEF g, h
<1>6. AddMessages(c, new) = [validity |-> c.validity, modseq |-> h, next |-> c.next, msgs |-> g]
  BY <1>5 DEF CacheSet
<1>7. AddMessages(c, new) \in CacheSet /\ AddMessages(c, new).validity = c.validity /\ AddMessages(c, new).msgs = g
  BY <1>1, <1>2, <1>4, <1>6, CacheRecord
<1> QED  BY <1>7 DEF g

LEMMA RemoveMessagesType ==
  ASSUME NEW c \in CacheSet, NEW S
  PROVE  /\ RemoveMessages(c, S) \in CacheSet /\ RemoveMessages(c, S).validity = c.validity
         /\ \A m : Own(c, m) => Own(RemoveMessages(c, S), m)
<1> DEFINE g == Restrict(c.msgs, DOMAIN c.msgs \ S)
<1>1. DOMAIN c.msgs \in SUBSET Uids /\ c.msgs \in [DOMAIN c.msgs -> EntrySet]
  BY CacheMsgs
<1>2. /\ g \in [DOMAIN c.msgs \ S -> EntrySet] /\ DOMAIN c.msgs \ S \in SUBSET Uids
      /\ DOMAIN g = DOMAIN c.msgs \ S /\ \A u \in DOMAIN g : g[u] = c.msgs[u]
  BY <1>1 DEF Restrict
<1>3. RemoveMessages(c, S) = [c EXCEPT !.msgs = g]
  BY Zenon DEF RemoveMessages, g
<1> HIDE DEF g
<1>4. RemoveMessages(c, S) = [validity |-> c.validity, modseq |-> c.modseq, next |-> c.next, msgs |-> g]
  BY <1>3 DEF CacheSet
<1>5. RemoveMessages(c, S) \in CacheSet /\ RemoveMessages(c, S).validity = c.validity /\ RemoveMessages(c, S).msgs = g
  <2>1. PICK W \in SUBSET Uids : g \in [W -> EntrySet]
    BY <1>2
  <2> QED  BY <1>4, <2>1, CacheMsgs, CacheRecord
<1> QED  BY <1>2, <1>5 DEF Own

LEMMA UpdateFlagsType ==
  ASSUME NEW c \in CacheSet, NEW S, NEW f \in BOOLEAN
  PROVE  /\ UpdateFlags(c, S, f) \in CacheSet /\ UpdateFlags(c, S, f).validity = c.validity
         /\ \A m : Own(c, m) => Own(UpdateFlags(c, S, f), m)
<1> DEFINE g == [u \in DOMAIN c.msgs |-> IF u \in S THEN [c.msgs[u] EXCEPT !.seen = f] ELSE c.msgs[u]]
<1>1. DOMAIN c.msgs \in SUBSET Uids /\ c.msgs \in [DOMAIN c.msgs -> EntrySet]
  BY CacheMsgs
<1>2. \A e \in EntrySet : [e EXCEPT !.seen = f] \in EntrySet /\ [e EXCEPT !.seen = f].of = e.of /\ [e EXCEPT !.seen = f].body = e.body
  BY DEF EntrySet
<1>3. /\ g \in [DOMAIN c.msgs -> EntrySet] /\ DOMAIN g = DOMAIN c.msgs
      /\ \A u \in DOMAIN c.msgs : g[u].of = c.msgs[u].of /\ g[u].body = c.msgs[u].body
  BY <1>1, <1>2
<1>4. UpdateFlags(c, S, f) = [c EXCEPT !.msgs = g]
  BY Zenon DEF UpdateFlags, g
<1> HIDE DEF g
<1>5. UpdateFlags(c, S, f) = [validity |-> c.validity, modseq |-> c.modseq, next |-> c.next, msgs |-> g]
  BY <1>4 DEF CacheSet
<1>6. UpdateFlags(c, S, f) \in CacheSet /\ UpdateFlags(c, S, f).validity = c.validity /\ UpdateFlags(c, S, f).msgs = g
  <2>1. PICK W \in SUBSET Uids : g \in [W -> EntrySet]
    BY <1>1, <1>3
  <2>2. c.validity \in Nat /\ c.modseq \in Nat /\ c.next \in Nat
    BY CacheMsgs
  <2>3. PICK r \in CacheSet : r = [validity |-> c.validity, modseq |-> c.modseq, next |-> c.next, msgs |-> g]
    BY <2>1, <2>2, CacheRecord
  <2> QED  BY <1>5, <2>3
<1> QED  BY <1>3, <1>6 DEF Own

LEMMA SetMessageBodyType ==
  ASSUME NEW c \in CacheSet, NEW u, NEW body \in Bodies
  PROVE  /\ SetMessageBody(c, u, body) \in CacheSet /\ SetMessageBody(c, u, body).validity = c.validity
         /\ \A m : Own(c, m) /\ body \in {<<>>, <<"empty">>, <<m, c.validity, u>>} => Own(SetMessageBody(c, u, body), m)
<1>1. CASE u \notin DOMAIN c.msgs
  BY <1>1 DEF SetMessageBody
<1>2. CASE u \in DOMAIN c.msgs
  <2> DEFINE g == [c.msgs EXCEPT ![u] = [c.msgs[u] EXCEPT !.body = body]]
  <2>1. DOMAIN c.msgs \in SUBSET Uids /\ c.msgs \in [DOMAIN c.msgs -> EntrySet]
    BY CacheMsgs
  <2>2. \A e \in EntrySet : [e EXCEPT !.body = body] \in EntrySet /\ [e EXCEPT !.body = body].of = e.of /\ [e EXCEPT !.body = body].body = body
    BY DEF EntrySet
  <2>3. g \in [DOMAIN c.msgs -> EntrySet] /\ DOMAIN g = DOMAIN c.msgs
        /\ g[u].of = c.msgs[u].of /\ g[u].body = body /\ \A w \in DOMAIN c.msgs \ {u} : g[w] = c.msgs[w]
    BY <1>2, <2>1, <2>2
  <2>4. SetMessageBody(c, u, body) = [c EXCEPT !.msgs = g]
    BY <1>2 DEF SetMessageBody
  <2> HIDE DEF g
  <2>5. SetMessageBody(c, u, body) = [validity |-> c.validity, modseq |-> c.modseq, next |-> c.next, msgs |-> g]
    BY <2>4 DEF CacheSet
  <2>6. /\ SetMessageBody(c, u, body) \in CacheSet /\ SetMessageBody(c, u, body).validity = c.validity
        /\ SetMessageBody(c, u, body).msgs = g
    BY <2>1, <2>3, <2>5, CacheMsgs, CacheRecord
  <2> QED  BY <1>2, <2>1, <2>3, <2>6 DEF Own
<1> QED  BY <1>1, <1>2

(* Reading.                                                                *)
LEMMA CloseIs ==
  ASSUME in \in Seq(ItemSet)
  PROVE  /\ Close \in 0..Len(in) /\ Len(in) \in Nat /\ (Close = 0 <=> Finals = {})
         /\ Close > 0 => IsFinal(Close) /\ \A i \in 1..Len(in) : IsFinal(i) => Close <= i
<1>1. Len(in) \in Nat /\ DOMAIN in = 1..Len(in)
  BY LenProperties
<1>2. Finals \in SUBSET (1..Len(in)) /\ \A i \in 1..Len(in) : i \in Finals <=> IsFinal(i)
  BY <1>1 DEF Finals
<1>3. CASE Finals = {}
  BY <1>1, <1>3 DEF Close
<1>4. CASE Finals # {}
  <2>1. Finals \in SUBSET Nat
    BY <1>1, <1>2
  <2>2. PICK c \in Finals : c = Min(Finals) /\ \A k \in Finals : c <= k
    BY <1>4, <2>1, MinProperties
  <2>3. c \in 1..Len(in) /\ c > 0 /\ Close = c
    BY <1>1, <1>2, <1>4, <2>2 DEF Close
  <2> QED  BY <1>1, <1>2, <1>4, <2>2, <2>3
<1> QED  BY <1>3, <1>4

LEMMA RawIs ==
  ASSUME in \in Seq(ItemSet), Close > 0
  PROVE  /\ Raw \in Seq(ItemSet) /\ Len(Raw) = Close /\ DOMAIN Raw = 1..Close /\ Close \in 1..Len(in)
         /\ \A i \in 1..Close : Raw[i] = in[i] /\ in[i] \in ItemSet
         /\ Last(Raw) = in[Close]
<1>1. Close \in 1..Len(in) /\ Close \in Nat /\ Close <= Len(in)
  BY CloseIs
<1>2. PICK c \in Nat : c = Close /\ c <= Len(in) /\ c > 0
  BY <1>1
<1>3. /\ SubSeq(in, 1, c) \in Seq(ItemSet) /\ Len(SubSeq(in, 1, c)) = c /\ DOMAIN SubSeq(in, 1, c) = 1..c
      /\ \A i \in 1..c : SubSeq(in, 1, c)[i] = in[i]
  BY <1>2, FirstLines
<1>4. \A i \in 1..c : in[i] \in ItemSet
  BY <1>1, <1>2, LenProperties
<1>5. Last(Raw) = Raw[c]
  BY <1>2, <1>3 DEF Last, Raw
<1> QED  BY <1>1, <1>2, <1>3, <1>4, <1>5 DEF Raw

LEMMA OfIs ==
  ASSUME NEW raw \in Seq(ItemSet), NEW kind
  PROVE  /\ Of(raw, kind) \in SUBSET (1..Len(raw)) /\ Len(raw) \in Nat /\ Of(raw, kind) \in SUBSET Nat
         /\ \A i \in Of(raw, kind) : raw[i] \in ItemSet /\ raw[i].kind = kind
<1>1. Len(raw) \in Nat /\ DOMAIN raw = 1..Len(raw) /\ \A i \in 1..Len(raw) : raw[i] \in ItemSet
  BY LenProperties
<1> QED  BY <1>1 DEF Of

LEMMA ToldType ==
  ASSUME NEW raw \in Seq(ItemSet)
  PROVE  Told(raw) \in BOOLEAN
<1> DEFINE stops == {i \in DOMAIN raw : raw[i].kind = "tagged" \/ raw[i].slash}
<1>1. CASE stops = {}
  BY <1>1 DEF Told
<1>2. CASE stops # {}
  <2>1. Len(raw) \in Nat /\ DOMAIN raw = 1..Len(raw) /\ \A i \in 1..Len(raw) : raw[i] \in ItemSet
    BY LenProperties
  <2>2. stops \in SUBSET Nat
    BY <2>1
  <2>3. PICK i \in stops : i = Min(stops)
    <3> HIDE DEF stops
    <3> QED  BY <1>2, <2>2, MinProperties
  <2>4. raw[i].slash \in BOOLEAN /\ raw[i].ok \in BOOLEAN
    BY <2>1, <2>3, ItemFields
  <2>5. Told(raw) = (raw[i].slash \/ raw[i].ok)
    BY <1>2, <2>3, Zenon DEF Told, stops
  <2> QED  BY <2>4, <2>5
<1> QED  BY <1>1, <1>2

LEMMA SelectResponseType ==
  ASSUME NEW raw \in Seq(ItemSet)
  PROVE  /\ SelectResponse(raw) \in SelectData
         /\ Of(raw, "selected") = {} => SelectResponse(raw).validity = 0
         /\ Of(raw, "selected") # {} => SelectResponse(raw) = raw[Max(Of(raw, "selected"))].data
<1> DEFINE lines == Of(raw, "selected")
<1>1. CASE lines = {}
  BY <1>1 DEF SelectResponse, SelectData
<1>2. CASE lines # {}
  <2>1. lines \in SUBSET Nat /\ Len(raw) \in Nat /\ \A k \in lines : k <= Len(raw)
    BY OfIs
  <2>2. PICK i \in lines : i = Max(lines)
    <3> HIDE DEF lines
    <3> QED  BY <1>2, <2>1, MaxProperties
  <2>3. raw[i].data \in SelectData
    BY <2>2, OfIs, ItemFields
  <2>4. SelectResponse(raw) = raw[Max(lines)].data
    BY <1>2, Zenon DEF SelectResponse, lines
  <2> QED  BY <1>2, <2>2, <2>3, <2>4
<1> QED  BY <1>1, <1>2

LEMMA CapabilitiesType ==
  ASSUME NEW raw \in Seq(ItemSet)
  PROVE  Capabilities(raw) \in Caps
<1> DEFINE lines == Of(raw, "caps")
<1>1. CASE lines = {}
  BY <1>1 DEF Capabilities, Caps
<1>2. CASE lines # {}
  <2>1. lines \in SUBSET Nat
    BY OfIs
  <2>2. PICK i \in lines : i = Min(lines)
    <3> HIDE DEF lines
    <3> QED  BY <1>2, <2>1, MinProperties
  <2>3. raw[i].data \in Caps
    BY <2>2, OfIs, ItemFields
  <2> QED  BY <1>2, <2>2, <2>3 DEF Capabilities
<1> QED  BY <1>1, <1>2

(* What is stored of a message is what some line says of it.               *)
LEMMA FetchedIs ==
  ASSUME NEW raw \in Seq(ItemSet)
  PROVE  LET D == {raw[i].data.uid : i \in Of(raw, "FETCH")} IN
         /\ D \in SUBSET Uids /\ Fetched(raw) \in [D -> EntrySet]
         /\ \A u \in D : \E i \in Of(raw, "FETCH") : /\ Fetched(raw)[u].of = raw[i].data.of
                                                     /\ Fetched(raw)[u].body = <<>>
<1> DEFINE lines == Of(raw, "FETCH")
           D == {raw[i].data.uid : i \in lines}
           Row(u) == Max({i \in lines : raw[i].data.uid = u})
           g == [u \in D |-> Entry(raw[Row(u)].data.mod, raw[Row(u)].data.seen, raw[Row(u)].data.env, raw[Row(u)].data.of)]
<1>1. \A i \in lines : raw[i].data \in FetchData
  BY OfIs, ItemFields
<1>2. D \in SUBSET Uids
  BY <1>1 DEF FetchData
<1>3. \A u \in D : Row(u) \in lines
  <2> SUFFICES ASSUME NEW u \in D PROVE Row(u) \in lines
    OBVIOUS
  <2> DEFINE S == {i \in lines : raw[i].data.uid = u}
  <2>1. S # {} /\ S \in SUBSET Nat /\ Len(raw) \in Nat /\ \A k \in S : k <= Len(raw)
    BY OfIs
  <2>2. Max(S) \in S
    <3> HIDE DEF S
    <3> QED  BY <2>1, MaxProperties
  <2> QED  BY <2>2
<1>4. Fetched(raw) = g
  BY Zenon DEF Fetched, g, Row, D, lines
<1> HIDE DEF Row, lines
<1>5. \A d \in FetchData : Entry(d.mod, d.seen, d.env, d.of) \in EntrySet
  BY DEF FetchData, Entry, EntrySet, Bodies
<1>6. \A u \in D : g[u] \in EntrySet /\ g[u].of = raw[Row(u)].data.of /\ g[u].body = <<>>
  <2> SUFFICES ASSUME NEW u \in D PROVE g[u] \in EntrySet /\ g[u].of = raw[Row(u)].data.of /\ g[u].body = <<>>
    OBVIOUS
  <2>1. PICK d \in FetchData : d = raw[Row(u)].data
    BY <1>1, <1>3
  <2>2. g[u] = Entry(d.mod, d.seen, d.env, d.of)
    BY <2>1
  <2> QED  BY <1>5, <2>1, <2>2 DEF Entry
<1>7. g \in [D -> EntrySet]
  BY <1>6
<1> HIDE DEF g
<1>8. \A u \in D : \E i \in lines : Fetched(raw)[u].of = raw[i].data.of /\ Fetched(raw)[u].body = <<>>
  BY <1>3, <1>4, <1>6
<1> QED  BY <1>2, <1>4, <1>7, <1>8 DEF lines

LEMMA StoredType ==
  ASSUME StateTypes, NEW c \in CacheSet, NEW raw \in Seq(ItemSet)
  PROVE  /\ Stored(c, raw) \in CacheSet
         /\ \A m \in Mailboxes :
              /\ Own(c, m) /\ (cli.validity # 0 => c.validity \in {0, cli.validity})
              /\ \A i \in Of(raw, "FETCH") : cli.validity # 0 /\ raw[i].data.of = <<m, cli.validity>>
              => Own(Stored(c, raw), m) /\ (cli.validity # 0 => Stored(c, raw).validity \in {0, cli.validity})
<1>1. CASE Of(raw, "FETCH") = {}
  BY <1>1 DEF Stored
<1>2. CASE Of(raw, "FETCH") # {}
  <2> DEFINE k == IF c.validity = 0 /\ cli.validity > 0 THEN SetMailboxState(c, cli.validity, cli.modseq) ELSE c
  <2>1. cli.validity \in Nat /\ cli.modseq \in Nat /\ c.validity \in Nat
    BY CacheMsgs DEF StateTypes
  <2>2. k \in CacheSet /\ (\A m : Own(c, m) => Own(k, m))
        /\ (c.validity \in {0, cli.validity} /\ cli.validity # 0 => k.validity = cli.validity)
    <3>1. CASE c.validity = 0 /\ cli.validity > 0
      <4>1. k = SetMailboxState(c, cli.validity, cli.modseq)
        BY <3>1
      <4> HIDE DEF k
      <4> QED  BY <2>1, <4>1, SetMailboxStateType
    <3>2. CASE ~(c.validity = 0 /\ cli.validity > 0)
      <4>1. k = c
        BY <3>2
      <4> HIDE DEF k
      <4> QED  BY <2>1, <3>2, <4>1
    <3> QED  BY <3>1, <3>2
  <2>3. Stored(c, raw) = AddMessages(k, Fetched(raw))
    BY <1>2, Zenon DEF Stored, k
  <2> HIDE DEF k
  <2> DEFINE D == {raw[i].data.uid : i \in Of(raw, "FETCH")}
  <2>4. /\ D \in SUBSET Uids /\ Fetched(raw) \in [D -> EntrySet]
        /\ \A u \in D : \E i \in Of(raw, "FETCH") : Fetched(raw)[u].of = raw[i].data.of /\ Fetched(raw)[u].body = <<>>
    BY FetchedIs
  <2> HIDE DEF D
  <2>5. AddMessages(k, Fetched(raw)) \in CacheSet /\ AddMessages(k, Fetched(raw)).validity = k.validity
        /\ DOMAIN AddMessages(k, Fetched(raw)).msgs = DOMAIN k.msgs \cup D
        /\ \A u \in DOMAIN k.msgs \cup D :
             AddMessages(k, Fetched(raw)).msgs[u] = IF u \in D THEN Fetched(raw)[u] ELSE k.msgs[u]
    <3>1. PICK b \in CacheSet : b = k
      BY <2>2
    <3>2. PICK f \in [D -> EntrySet] : f = Fetched(raw)
      BY <2>4
    <3>3. D \in SUBSET Uids
      BY <2>4
    <3> QED  BY <3>1, <3>2, <3>3, AddMessagesType
  <2>6. ASSUME NEW m \in Mailboxes, Own(c, m), cli.validity # 0 => c.validity \in {0, cli.validity},
               \A i \in Of(raw, "FETCH") : cli.validity # 0 /\ raw[i].data.of = <<m, cli.validity>>
        PROVE  Own(Stored(c, raw), m) /\ (cli.validity # 0 => Stored(c, raw).validity \in {0, cli.validity})
    <3>1. cli.validity # 0 /\ k.validity = cli.validity /\ Own(k, m)
      BY <1>2, <2>2, <2>6
    <3>2. \A u \in D : Fetched(raw)[u].of = <<m, cli.validity>> /\ Fetched(raw)[u].body = <<>>
      BY <2>4, <2>6
    <3> QED  BY <2>3, <2>5, <3>1, <3>2 DEF Own
  <2> QED  BY <2>3, <2>5, <2>6
<1> QED  BY <1>1, <1>2

LEMMA BodyIs ==
  ASSUME NEW raw \in Seq(ItemSet)
  PROVE  /\ Body(raw) \in Bodies
         /\ Body(raw) = <<"empty">> \/ \E i \in Of(raw, "FETCH") : raw[i].data.body # <<>> /\ Body(raw) = raw[i].data.body
<1> DEFINE lines == {i \in Of(raw, "FETCH") : raw[i].data.body # <<>>}
<1>1. CASE lines = {}
  BY <1>1 DEF Body, Bodies
<1>2. CASE lines # {}
  <2>1. lines \in SUBSET Nat
    BY OfIs
  <2>2. PICK i \in lines : i = Min(lines)
    <3> HIDE DEF lines
    <3> QED  BY <1>2, <2>1, MinProperties
  <2>3. raw[i].data.body \in Bodies
    <3>1. raw[i].data \in FetchData
      BY <2>2, OfIs, ItemFields
    <3> QED  BY <3>1 DEF FetchData
  <2>4. Body(raw) = raw[i].data.body
    BY <1>2, <2>2, Zenon DEF Body, lines
  <2> QED  BY <2>2, <2>3, <2>4
<1> QED  BY <1>1, <1>2

-----------------------------------------------------------------------------
(* Types, tags and what the server waits for.                              *)

LEMMA Bounds == {MaxUid, MaxOps, MaxChanges, MaxFaults, DoneLines} \subseteq Nat /\ Uids \in SUBSET Nat /\ "none" \notin Mailboxes
BY ImapAssumption DEF Uids

LEMMA JobParts ==
  ASSUME NEW j \in JobSet
  PROVE  /\ j.op \in CliCommands \cup {"none"} /\ j.todo \in Todos \cup {<<>>} /\ j.at \in {"step", "reply", "handshake"} /\ j.tag \in Nat
         /\ j.box \in NoneOr /\ j.uids \in SUBSET Uids /\ j.opt \in BOOLEAN /\ j.dirty \in {"none", "mailbox", "set"}
         /\ j.waited \in BOOLEAN
         /\ (j.op = "none" <=> j.todo = <<>>) /\ (j.op = "none" => j.at = "step")
         /\ j.op # "none" => Head(j.todo) = j.todo[1] /\ j.todo \in Todos
         /\ j.todo # <<>> /\ j.todo[1] \in Selecting => j.box \in Mailboxes
         /\ j.todo = <<"BODY">> => \E u \in Uids : j.uids = {u}
BY TodoSteps DEF JobSet, JobRecords

LEMMA NoJobType == NoJob \in JobSet /\ NoJob.tag = 0 /\ NoJob.at = "step" /\ NoJob.op = "none" /\ NoJob.todo = <<>>
<1>1. "none" \in NoneOr /\ {} \in SUBSET Uids
  BY DEF NoneOr
<1>2. <<>> \in Todos \cup {<<>>}
  OBVIOUS
<1>3. NoJob.tag = 0 /\ NoJob.at = "step" /\ NoJob.op = "none" /\ NoJob.todo = <<>>
  BY DEF NoJob
<1>4. <<>> # <<"BODY">>
  BY Tuples
<1> QED  BY <1>1, <1>2, <1>3, <1>4 DEF JobSet, JobRecords, NoJob

LEMMA EndedType ==
  ASSUME job \in JobSet, Ended
  PROVE  job' \in JobSet /\ job' = NoJob /\ alive' \in BOOLEAN
BY NoJobType DEF Ended

LEMMA GoesType ==
  ASSUME job \in JobSet, alive \in BOOLEAN, NEW todo, Goes(todo),
         todo = <<>> \/ (todo \in Todos /\ todo[1] \notin Selecting \cup {"BODY", "CHANGEDSINCE", "UIDMOVE"} /\ job.op # "none")
  PROVE  /\ job' \in JobSet /\ alive' \in BOOLEAN
         /\ job' = NoJob \/ (todo # <<>> /\ job' = [job EXCEPT !.todo = todo, !.at = "step"])
<1>1. CASE todo = <<>>
  <2>1. Ended
    BY <1>1 DEF Goes
  <2> QED  BY <2>1, EndedType
<1>2. CASE todo # <<>>
  <2>1. job' = [job EXCEPT !.todo = todo, !.at = "step"] /\ alive' = alive
    BY <1>2 DEF Goes
  <2>2. todo \in Todos /\ todo[1] \notin Selecting \cup {"BODY", "CHANGEDSINCE", "UIDMOVE"} /\ job.op # "none"
    BY <1>2
  <2>3. todo # <<"BODY">>
    BY <2>2, Tuples
  <2>4. job' \in JobSet
    BY <1>2, <2>1, <2>2, <2>3 DEF JobSet, JobRecords
  <2> QED  BY <1>2, <2>1, <2>4
<1> QED  BY <1>1, <1>2

(* The step the operation is at.                                           *)
LEMMA NowIs ==
  ASSUME job \in JobSet, job.op # "none"
  PROVE  /\ Now \in Verbs /\ Now = job.todo[1] /\ job.todo \in Todos
         /\ Tail(job.todo) = <<>> \/ (Tail(job.todo) \in Todos /\ Tail(job.todo)[1] \notin Selecting \cup {"BODY", "CHANGEDSINCE", "UIDMOVE"})
<1>1. job.todo \in Todos
  BY JobParts
<1> QED  BY <1>1, TodoSteps DEF Now

LEMMA FaultType ==
  ASSUME BoundTypes, NEW f, Fault(f)
  PROVE  faults' \in 0..MaxFaults
BY Bounds DEF BoundTypes, Fault

LEMMA OutTags ==
  ASSUME out \in Seq(LineSet)
  PROVE  /\ DOMAIN out = 1..Len(out) /\ Len(out) \in Nat /\ (out # <<>> => 1 \in DOMAIN out /\ Head(out) = out[1])
         /\ \A i \in DOMAIN out : out[i] \in LineSet /\ out[i].tag \in Nat
<1>1. DOMAIN out = 1..Len(out) /\ Len(out) \in Nat /\ \A i \in 1..Len(out) : out[i] \in LineSet
  BY LenProperties
<1>2. out # <<>> => Len(out) # 0
  BY EmptySeq
<1>3. \A x \in LineSet : x.tag \in Nat
  BY DEF LineSet
<1> QED  BY <1>1, <1>2, <1>3

LEMMA UsedType ==
  /\ Used \in BoxSet /\ Used.validity = 1 /\ DOMAIN Used.msgs = {1, 3} /\ \A u \in {1, 3} : Used.msgs[u].mod = u + 1
<1>1. {1, 3} \in SUBSET Uids /\ {2} \in SUBSET Uids
  BY ImapAssumption DEF Uids
<1> DEFINE f == [u \in {1, 3} |-> [mod |-> u + 1, seen |-> FALSE]]
           g == [u \in {2} |-> 5]
<1>2. f \in [{1, 3} -> [mod : Nat, seen : BOOLEAN]] /\ g \in [{2} -> Nat] /\ DOMAIN f = {1, 3} /\ \A u \in {1, 3} : f[u].mod = u + 1
  OBVIOUS
<1>3. f \in MsgMaps /\ g \in GoneMaps
  BY <1>1, <1>2 DEF MsgMaps, GoneMaps
<1>4. Used = [validity |-> 1, next |-> 4, modseq |-> 5, msgs |-> f, gone |-> g]
  <2>1. Used = [NewBox(1) EXCEPT !.next = 4, !.modseq = 5, !.gone = g, !.msgs = f]
    BY Zenon DEF Used, f, g
  <2> HIDE DEF f, g
  <2> QED  BY <2>1 DEF NewBox
<1> HIDE DEF f, g
<1>5. Used \in BoxSet
  BY <1>3, <1>4 DEF BoxSet, MsgMaps, GoneMaps
<1> QED  BY <1>2, <1>4, <1>5

LEMMA NoSessionType ==
  /\ NoSession \in SessionSet /\ NoSession.news = <<>> /\ NoSession.idle = 0 /\ ~NoSession.sasl /\ NoSession.literal = "none"
  /\ NoSession.box = "none"
  /\ \A offer \in Caps : LET s == [NoSession EXCEPT !.offer = offer] IN
       /\ s \in SessionSet /\ s.news = <<>> /\ s.idle = 0 /\ ~s.sasl /\ s.literal = "none" /\ s.box = "none"
<1>1. <<>> \in Seq(ItemSet) /\ {} \in Caps /\ "none" \in NoneOr
  BY EmptySeq DEF Caps, NoneOr
<1> QED  BY <1>1 DEF NoSession, SessionSet

(* The mailboxes and the cache a behaviour starts with.                    *)
LEMMA InitState ==
  ASSUME Init
  PROVE  /\ box \in [Mailboxes -> BoxSet] /\ cache \in [Mailboxes -> CacheSet]
         /\ \A m \in Mailboxes : /\ box[m] = Used /\ Own(cache[m], m) /\ cache[m].validity \in {0, 1}
                                 /\ DOMAIN cache[m].msgs \subseteq {1, 3}
<1>1. PICK start \in Starts :
        /\ box = [b \in Mailboxes |-> Used]
        /\ cache = [b \in Mailboxes |-> IF (start = "fresh") \/ b # Home THEN NoState
                    ELSE [validity |-> 1, modseq |-> 5, next |-> 4,
                          msgs |-> [u \in {1, 3} |-> Entry(box[b].msgs[u].mod, FALSE, TRUE, <<Home, 1>>)]]]
  BY Zenon DEF Init
<1>2. box \in [Mailboxes -> BoxSet] /\ \A m \in Mailboxes : box[m] = Used
  BY <1>1, UsedType
<1> DEFINE g == [u \in {1, 3} |-> Entry(box[Home].msgs[u].mod, FALSE, TRUE, <<Home, 1>>)]
           r == [validity |-> 1, modseq |-> 5, next |-> 4, msgs |-> g]
<1>3. Home \in Mailboxes /\ {1, 3} \in SUBSET Uids
  BY ImapAssumption DEF Uids
<1>4. \A u \in {1, 3} : /\ Entry(box[Home].msgs[u].mod, FALSE, TRUE, <<Home, 1>>) \in EntrySet
                        /\ Entry(box[Home].msgs[u].mod, FALSE, TRUE, <<Home, 1>>).of = <<Home, 1>>
                        /\ Entry(box[Home].msgs[u].mod, FALSE, TRUE, <<Home, 1>>).body = <<>>
  <2>1. \A u \in {1, 3} : box[Home].msgs[u].mod \in Nat
    BY <1>2, <1>3, UsedType
  <2>2. <<Home, 1>> \in Place /\ <<>> \in Bodies
    BY <1>3 DEF Place, Bodies
  <2> QED  BY <2>1, <2>2 DEF Entry, EntrySet
<1>5. g \in [{1, 3} -> EntrySet] /\ \A u \in {1, 3} : g[u].of = <<Home, 1>> /\ g[u].body = <<>>
  BY <1>4
<1> HIDE DEF g
<1>6. r \in CacheSet /\ r.validity = 1 /\ r.msgs = g /\ DOMAIN g = {1, 3}
  BY <1>3, <1>5, CacheRecord
<1>7. Own(r, Home)
  BY <1>5, <1>6 DEF Own
<1> HIDE DEF r
<1>8. \A m \in Mailboxes : cache[m] = NoState \/ (m = Home /\ cache[m] = r)
  BY <1>1 DEF r, g
<1>9. DOMAIN cache = Mailboxes /\ cache = [m \in Mailboxes |-> cache[m]]
  BY <1>1
<1>10. \A m \in Mailboxes : cache[m] \in CacheSet /\ Own(cache[m], m) /\ cache[m].validity \in {0, 1} /\ DOMAIN cache[m].msgs \subseteq {1, 3}
  <2>1. NoState.validity = 0
    BY DEF NoState
  <2> QED  BY <1>6, <1>7, <1>8, <2>1, NoStateType
<1>11. cache \in [Mailboxes -> CacheSet]
  BY <1>9, <1>10
<1> QED  BY <1>2, <1>10, <1>11

LEMMA InitTypes == Init => IInv
<1> SUFFICES ASSUME Init PROVE IInv
  OBVIOUS
<1>1. PICK start \in Starts :
        LET fresh == start = "fresh"
            here  == IF start = "selected" THEN Home ELSE "none"
        IN
        /\ conn = IF fresh THEN "Disconnected" ELSE "Connected"
        /\ net = IF fresh THEN "none" ELSE "up"
        /\ out = <<>> /\ in = <<>> /\ tag = IF fresh THEN 0 ELSE IF start = "selected" THEN 5 ELSE 6
        /\ idle = [on |-> FALSE, tag |-> 0] /\ job = NoJob
        /\ srv = IF fresh THEN NoSession
                 ELSE [NoSession EXCEPT !.auth = TRUE, !.box = here, !.qresync = TRUE, !.offer = {"QRESYNC"}]
        /\ cli = IF start = "selected" THEN [box |-> Home, validity |-> 1, modseq |-> 5, qresync |-> TRUE]
                 ELSE [NoMailbox EXCEPT !.qresync = ~fresh]
        /\ misled = FALSE /\ lost = FALSE
        /\ alive = TRUE /\ ops = 0 /\ changes = 0 /\ faults = 0
  BY Zenon DEF Init
<1>2. ClientTypes
  BY <1>1, NoJobType DEF ClientTypes
<1>3. LinkTypes
  BY <1>1, EmptySeq DEF LinkTypes
<1>4. cli \in [box : NoneOr, validity : Nat, modseq : Nat, qresync : BOOLEAN]
  <2>1. Home \in NoneOr /\ "none" \in NoneOr
    BY ImapAssumption DEF NoneOr
  <2> QED  BY <1>1, <2>1 DEF NoMailbox
<1>5. srv \in SessionSet /\ srv.idle = 0 /\ ~srv.sasl /\ srv.literal = "none"
  <2>1. Home \in NoneOr /\ "none" \in NoneOr /\ {"QRESYNC"} \in Caps
    BY ImapAssumption DEF NoneOr, Caps
  <2>2. CASE start = "fresh"
    BY <1>1, <2>2, NoSessionType
  <2>3. CASE start # "fresh"
    <3>1. \A h \in NoneOr : LET s == [NoSession EXCEPT !.auth = TRUE, !.box = h, !.qresync = TRUE, !.offer = {"QRESYNC"}]
                            IN  s \in SessionSet /\ s.idle = 0 /\ ~s.sasl /\ s.literal = "none"
      BY <2>1, NoSessionType DEF SessionSet
    <3>2. PICK h \in NoneOr : srv = [NoSession EXCEPT !.auth = TRUE, !.box = h, !.qresync = TRUE, !.offer = {"QRESYNC"}]
      BY <1>1, <2>1, <2>3
    <3> QED  BY <3>1, <3>2
  <2> QED  BY <2>2, <2>3
<1>6. BoundTypes
  <2>1. misled = FALSE /\ lost = FALSE /\ alive = TRUE /\ ops = 0 /\ changes = 0 /\ faults = 0
    BY <1>1
  <2>2. {misled, lost, alive} \subseteq BOOLEAN
    BY <2>1
  <2>3. ops \in 0..MaxOps /\ changes \in 0..MaxChanges /\ faults \in 0..MaxFaults
    BY <2>1, Bounds
  <2> QED  BY <2>2, <2>3 DEF BoundTypes
<1>7. Tags
  <2>1. DOMAIN out = {} /\ tag \in Nat
    BY <1>1
  <2> QED  BY <1>1, <1>5, <2>1, NoJobType DEF Tags
<1>8. OneWait
  BY <1>5 DEF OneWait
<1> QED  BY <1>2, <1>3, <1>4, <1>5, <1>6, <1>7, <1>8, InitState DEF IInv, Types, StateTypes, ServerTypes

(* The steps of the program and of its user.                               *)
LEMMA InJobSet ==
  ASSUME NEW j \in JobRecords, j.op # "none", j.todo # <<>>, j.todo[1] \in Selecting => j.box \in Mailboxes,
         j.todo = <<"BODY">> => \E u \in Uids : j.uids = {u}
  PROVE  j \in JobSet
BY DEF JobSet

(* The job of a command as it was typed.                                   *)
Asked(op, m, uids, port, opt, dirty, j) ==
  /\ op \in CliCommands \ {"clear"} /\ m \in NoneOr /\ (op \in {"select", "examine"} => m \in Mailboxes)
  /\ uids \in SUBSET Uids /\ (op = "read" => Cardinality(uids) = 1) /\ port \in {143, 993}
  /\ opt \in BOOLEAN /\ dirty \in {"none", "mailbox", "set"}
  /\ j = [op |-> op, todo |-> Script(op, m, port), at |-> "step", tag |-> 0, box |-> m, uids |-> uids, opt |-> opt,
          dirty |-> dirty, waited |-> TRUE]

LEMMA AskedJob ==
  ASSUME NEW op, NEW m, NEW uids, NEW port, NEW opt, NEW dirty, NEW j, Asked(op, m, uids, port, opt, dirty, j)
  PROVE  /\ j \in JobRecords /\ j.tag = 0 /\ j.at = "step"
         /\ j.op # "none" /\ j.todo # <<>> /\ (j.todo[1] \in Selecting => j.box \in Mailboxes)
         /\ j.todo[1] # "greeting"
         /\ j.todo = <<"BODY">> => \E u \in Uids : j.uids = {u}
<1>1. /\ op \in CliCommands \ {"clear"} /\ m \in NoneOr /\ (op \in {"select", "examine"} => m \in Mailboxes)
      /\ uids \in SUBSET Uids /\ (op = "read" => Cardinality(uids) = 1) /\ port \in {143, 993}
      /\ dirty \in {"none", "mailbox", "set"}
  BY DEF Asked
<1>2. opt \in BOOLEAN
  BY DEF Asked
<1>3. PICK s \in Todos : /\ s = Script(op, m, port)
                         /\ s[1] \in Selecting => op \in {"select", "examine"}
                         /\ s = <<"BODY">> => op = "read"
                         /\ s[1] # "greeting"
  BY <1>1, ScriptTodos
<1>4. s # <<>> /\ op # "none"
  BY <1>1, <1>3, TodoSteps DEF CliCommands, Fetching, Simple, Listing, Searching, Naming
<1>5. s = <<"BODY">> => \E u \in Uids : uids = {u}
  <2> SUFFICES ASSUME s = <<"BODY">> PROVE \E u \in Uids : uids = {u}
    OBVIOUS
  <2>1. Cardinality(uids) = 1 /\ IsFiniteSet(uids)
    BY <1>1, <1>3, FiniteUids
  <2>2. PICK u : uids = {u}
    BY <2>1, FS_Singleton
  <2> QED  BY <1>1, <2>2
<1>6. j = [op |-> op, todo |-> s, at |-> "step", tag |-> 0, box |-> m, uids |-> uids, opt |-> opt, dirty |-> dirty,
           waited |-> TRUE]
  BY <1>3, Zenon DEF Asked
<1>7. j.op = op /\ j.todo = s /\ j.at = "step" /\ j.tag = 0 /\ j.box = m /\ j.uids = uids
  BY <1>6
<1>8. op \in CliCommands
  BY <1>1
<1>9. j \in JobRecords
  BY <1>1, <1>2, <1>6, <1>8 DEF JobRecords
<1>10. s[1] \in Selecting => m \in Mailboxes
  BY <1>1, <1>3
<1>11. j.todo = <<"BODY">> => \E u \in Uids : j.uids = {u}
  BY <1>5, <1>7
<1> QED  BY <1>3, <1>4, <1>7, <1>9, <1>10, <1>11

LEMMA TypedJob ==
  ASSUME NEW op \in CliOps \ {"clear"}, Type(op)
  PROVE  job' \in JobSet /\ job'.tag = 0 /\ job'.at = "step" /\ job'.todo[1] # "greeting"
<1>0. op \in CliCommands \ {"clear"}
  BY ImapAssumption
<1> DEFINE M == IF op \in {"select", "examine", "append", "move"} THEN Mailboxes ELSE {"none"}
           U == IF op \in Fetching THEN UidSets ELSE {{}}
           P == IF op = "connect" THEN Ports ELSE {993}
           B == IF op = "store" THEN BOOLEAN ELSE {FALSE}
           D == {"none"} \cup (IF "crlf" \in Faults /\ op \in Typed THEN {"mailbox", "set"} ELSE {})
<1>1. \A m \in M : m \in NoneOr /\ (op \in {"select", "examine"} => m \in Mailboxes)
  BY DEF NoneOr
<1>2. U \in SUBSET (SUBSET Uids)
  <2>1. UidSets \in SUBSET (SUBSET Uids)
    BY ImapAssumption DEF Uids
  <2> QED  BY <2>1
<1>3. P \in SUBSET {143, 993}
  BY ImapAssumption
<1>4. B \in SUBSET BOOLEAN /\ D \in SUBSET {"none", "mailbox", "set"}
  OBVIOUS
<1>5. \E m \in M, uids \in U, port \in P, opt \in B, dirty \in D :
        /\ op = "read" => Cardinality(uids) = 1
        /\ ~AnsweredLocally(op, IF uids = {} THEN 0 ELSE CHOOSE u \in uids : TRUE)
        /\ job' = [op |-> op, todo |-> Script(op, m, port), at |-> "step", tag |-> 0, box |-> m, uids |-> uids,
                    opt |-> opt, dirty |-> dirty, waited |-> TRUE]
  BY Zenon DEF Type, M, U, P, B, D
<1> HIDE DEF M, U, P, B, D
<1>6. PICK m \in M, uids \in U, port \in P, opt \in B, dirty \in D :
        /\ op = "read" => Cardinality(uids) = 1
        /\ job' = [op |-> op, todo |-> Script(op, m, port), at |-> "step", tag |-> 0, box |-> m, uids |-> uids,
                    opt |-> opt, dirty |-> dirty, waited |-> TRUE]
  BY <1>5, Zenon
<1>7. m \in NoneOr /\ (op \in {"select", "examine"} => m \in Mailboxes) /\ uids \in SUBSET Uids /\ port \in {143, 993}
      /\ dirty \in {"none", "mailbox", "set"}
  BY <1>1, <1>2, <1>3, <1>4
<1>8. opt \in BOOLEAN
  BY <1>4
<1>9. /\ job' \in JobRecords /\ job'.tag = 0 /\ job'.at = "step"
      /\ job'.op # "none" /\ job'.todo # <<>> /\ (job'.todo[1] \in Selecting => job'.box \in Mailboxes) /\ job'.todo[1] # "greeting"
      /\ job'.todo = <<"BODY">> => \E u \in Uids : job'.uids = {u}
  <2>1. Asked(op, m, uids, port, opt, dirty, job')
    BY <1>0, <1>6, <1>7, <1>8, Zenon DEF Asked
  <2> QED  BY <2>1, AskedJob
<1> QED  BY <1>9, InJobSet

LEMMA TypeTypes ==
  ASSUME IInv, NEW op \in CliOps \ {"clear"}, Type(op)
  PROVE  IInv'
<1>2. job' \in JobSet /\ job'.tag = 0 /\ job'.at = "step"
  BY TypedJob
<1>3. /\ ops < MaxOps /\ ops' = ops + 1
      /\ UNCHANGED <<client, link, state, server, history, alive, changes, faults>>
  BY DEF Type
<1>4. Types'
  BY <1>2, <1>3, Bounds
  DEF IInv, Types, ClientTypes, LinkTypes, StateTypes, ServerTypes, BoundTypes, client, link, state, server, history
<1>5. Tags' /\ OneWait'
  BY <1>2, <1>3 DEF IInv, Types, ClientTypes, Tags, OneWait, client, link, state, server, history
<1> QED  BY <1>4, <1>5 DEF IInv

LEMMA PromptTypes ==
  ASSUME IInv, ClearCache \/ HandlerGivesUp \/ Cut
  PROVE  IInv'
<1>1. CASE ClearCache
  <2>1. /\ cache' = [m \in Mailboxes |-> ClearAll(cache[m])] /\ ops < MaxOps /\ ops' = ops + 1
        /\ UNCHANGED <<client, link, job, cli, server, history, alive, changes, faults>>
    BY <1>1 DEF ClearCache
  <2>2. cache' \in [Mailboxes -> CacheSet]
    BY <2>1, NoStateType DEF ClearAll
  <2>3. Types'
    BY <2>1, <2>2, Bounds
    DEF IInv, Types, ClientTypes, LinkTypes, StateTypes, ServerTypes, BoundTypes, client, link, state, server, history
  <2>4. Tags' /\ OneWait'
    BY <2>1 DEF IInv, Tags, OneWait, Now, client, link, state, server, history
  <2> QED  BY <2>3, <2>4 DEF IInv
<1>2. CASE HandlerGivesUp
  <2>1. job' = [job EXCEPT !.waited = FALSE] /\ UNCHANGED <<client, link, state, server, history, alive, ops, changes>>
    BY <1>2 DEF HandlerGivesUp
  <2>2. faults' \in 0..MaxFaults
    BY <1>2, FaultType DEF HandlerGivesUp, IInv, Types
  <2>3. job \in JobSet
    BY DEF IInv, Types, ClientTypes
  <2>4. job' \in JobSet /\ job'.tag = job.tag /\ job'.at = job.at /\ job'.todo = job.todo
    BY <2>1, <2>3 DEF JobSet, JobRecords
  <2>5. Types'
    BY <2>1, <2>2, <2>4
    DEF IInv, Types, ClientTypes, LinkTypes, StateTypes, ServerTypes, BoundTypes, client, link, state, server, history
  <2>6. Tags' /\ OneWait'
    BY <2>1, <2>4 DEF IInv, Tags, OneWait, Now, client, link, state, server, history
  <2> QED  BY <2>5, <2>6 DEF IInv
<1>3. CASE Cut
  <2>1. /\ net' = "cut" /\ out' = <<>> /\ in' \in {in, <<>>}
        /\ UNCHANGED <<client, job, state, server, history, alive, ops, changes>>
    BY <1>3 DEF Cut
  <2>2. faults' \in 0..MaxFaults
    BY <1>3, FaultType DEF Cut, IInv, Types
  <2>3. LinkTypes'
    BY <2>1, EmptySeq DEF IInv, Types, LinkTypes
  <2>4. Types'
    BY <2>1, <2>2, <2>3
    DEF IInv, Types, ClientTypes, StateTypes, ServerTypes, BoundTypes, client, link, state, server, history
  <2>5. DOMAIN out' = {}
    BY <2>1
  <2>6. Tags' /\ OneWait'
    BY <2>1, <2>5 DEF IInv, Tags, OneWait, Now, client, state, server, history
  <2> QED  BY <2>4, <2>6 DEF IInv
<1> QED  BY <1>1, <1>2, <1>3

(* A handshake fails or is not answered.                                   *)
LEMMA HandshakeTypes ==
  ASSUME IInv, HandshakeFails, job.op # "none", Now \notin {"IDLE", "wait"}, conn' \in {"Disconnected", "Connected"},
         UNCHANGED <<tag, idle, out, in, state, server, history, ops, changes>>
  PROVE  IInv'
<1>1. job \in JobSet /\ alive \in BOOLEAN /\ job.tag <= tag
  BY DEF IInv, Types, ClientTypes, BoundTypes, Tags
<1>2. net' \in {"silent", "null"} /\ faults' \in 0..MaxFaults
  BY FaultType DEF HandshakeFails, IInv, Types
<1>3. job' \in JobSet /\ alive' \in BOOLEAN /\ job'.at # "reply" /\ job'.tag <= tag
  <2>1. CASE Ended
    BY <1>1, <2>1, EndedType, NoJobType DEF IInv, Types, ClientTypes
  <2>2. CASE job' = [job EXCEPT !.at = "handshake"] /\ UNCHANGED alive
    BY <1>1, <2>2 DEF JobSet, JobRecords
  <2> QED  BY <2>1, <2>2 DEF HandshakeFails
<1>4. Types'
  BY <1>2, <1>3
  DEF IInv, Types, ClientTypes, LinkTypes, StateTypes, ServerTypes, BoundTypes, state, server, history
<1>5. Tags' /\ OneWait'
  BY <1>3 DEF IInv, Tags, OneWait, server
<1> QED  BY <1>4, <1>5 DEF IInv

LEMMA EstablishTypes ==
  ASSUME IInv, Establish
  PROVE  IInv'
<1>0. job \in JobSet /\ alive \in BOOLEAN /\ job.op # "none" /\ Now = "establish" /\ job.at = "step"
  BY DEF IInv, Types, ClientTypes, BoundTypes, Establish, At, Busy
<1>1. UNCHANGED <<state, box, history, ops, changes>>
  BY DEF Establish
<1>2. CASE Ended /\ UNCHANGED <<client, link, srv>> /\ (UNCHANGED faults \/ Fault("connect"))
  <2>1. job' \in JobSet /\ job' = NoJob /\ alive' \in BOOLEAN /\ job'.tag = 0 /\ job'.at = "step"
    BY <1>0, <1>2, EndedType, NoJobType
  <2>2. faults' \in 0..MaxFaults
    BY <1>2, FaultType DEF IInv, Types, BoundTypes
  <2>3. Types'
    BY <1>1, <1>2, <2>1, <2>2
    DEF IInv, Types, ClientTypes, LinkTypes, StateTypes, ServerTypes, BoundTypes, client, link, state, history
  <2>4. Tags' /\ OneWait'
    BY <1>1, <1>2, <2>1 DEF IInv, Types, ClientTypes, Tags, OneWait, client, link
  <2> QED  BY <2>3, <2>4 DEF IInv
<1>3. CASE /\ conn' = "Connected" /\ net' = "up" /\ out' = <<>> 
           /\ \E ok \in BOOLEAN : /\ in' = <<[Item("greeting") EXCEPT !.ok = ok]>>
                                  /\ IF ok THEN UNCHANGED faults ELSE Fault("refuse")
           /\ \E offer \in Offers : srv' = [NoSession EXCEPT !.offer = offer]
           /\ job' = [job EXCEPT !.todo = Tail(job.todo), !.at = "reply"]
           /\ UNCHANGED <<tag, idle, alive>>
  <2>1. PICK ok \in BOOLEAN : in' = <<[Item("greeting") EXCEPT !.ok = ok]>>
    BY <1>3
  <2>2. in' \in Seq(ItemSet)
    <3>1. [Item("greeting") EXCEPT !.ok = ok] \in ItemSet
      BY DEF Item, ItemSet
    <3> QED  BY <2>1, <3>1
  <2>3. srv' \in SessionSet /\ srv'.idle = 0 /\ ~srv'.sasl /\ srv'.literal = "none"
    <3>1. PICK offer \in Caps : srv' = [NoSession EXCEPT !.offer = offer]
      <4>1. PICK offer \in Offers : srv' = [NoSession EXCEPT !.offer = offer]
        BY <1>3
      <4>2. offer \in Caps
        BY ImapAssumption DEF Caps
      <4> QED  BY <4>1, <4>2
    <3> QED  BY <3>1, NoSessionType
  <2>4. /\ Now = job.todo[1] /\ Tail(job.todo) \in Todos /\ Tail(job.todo)[1] \notin Selecting \cup {"BODY", "CHANGEDSINCE", "UIDMOVE"}
        /\ Tail(job.todo) # <<>> /\ Tail(job.todo)[1] = "greeting"
    <3>1. job.todo \in Todos /\ job.todo[1] = "establish"
      BY <1>0, NowIs
    <3>2. job.todo \in {<<"establish", "greeting">>, <<"establish", "greeting", "CAPABILITY", "STARTTLS", "upgrade", "CAPABILITY2">>}
      <4>1. \A v \in Singles : job.todo # <<v>>
        BY <3>1, Tuples DEF Singles
      <4>2. \A a, b, c, d, e, f : /\ job.todo = <<a, b>> => a = "establish"
                                  /\ job.todo = <<a, b, c>> => a = "establish"
                                  /\ job.todo = <<a, b, c, d>> => a = "establish"
                                  /\ job.todo = <<a, b, c, d, e>> => a = "establish"
        BY <3>1, Tuples
      <4> QED  BY <3>1, <4>1, <4>2 DEF Todos, Idling, Connect
    <3>3. Tail(job.todo) # <<>> /\ Tail(job.todo)[1] = "greeting"
      <4>1. Tail(job.todo) \in {<<"greeting">>, <<"greeting", "CAPABILITY", "STARTTLS", "upgrade", "CAPABILITY2">>}
        <5>1. CASE job.todo = <<"establish", "greeting">>
          BY <5>1, Tuples
        <5>2. CASE job.todo = <<"establish", "greeting", "CAPABILITY", "STARTTLS", "upgrade", "CAPABILITY2">>
          BY <5>2, Tuples
        <5> QED  BY <3>2, <5>1, <5>2
      <4>2. \A t \in {<<"greeting">>, <<"greeting", "CAPABILITY", "STARTTLS", "upgrade", "CAPABILITY2">>} :
              t # <<>> /\ t[1] = "greeting"
        OBVIOUS
      <4> QED  BY <4>1, <4>2
    <3> QED  BY <1>0, <3>3, NowIs
  <2>5. job' \in JobSet /\ job'.tag = job.tag /\ job'.at = "reply" /\ job'.todo = Tail(job.todo)
    <3>1. Tail(job.todo) # <<"BODY">>
      BY <2>4, Tuples
    <3> QED  BY <1>0, <1>3, <2>4, <3>1 DEF JobSet, JobRecords
  <2>6. faults' \in 0..MaxFaults
    BY <1>3, FaultType DEF IInv, Types, BoundTypes
  <2>7. Types'
    BY <1>1, <1>3, <2>2, <2>3, <2>5, <2>6, EmptySeq
    DEF IInv, Types, ClientTypes, LinkTypes, StateTypes, ServerTypes, BoundTypes, state, history
  <2>8. Now' = "greeting"
    <3>1. Tail(job.todo) \in Todos /\ Tail(job.todo)[1] = "greeting"
      BY <2>4
    <3>2. Head(Tail(job.todo)) = Tail(job.todo)[1]
      BY <3>1, TodoSteps
    <3> QED  BY <2>5, <3>1, <3>2 DEF Now
  <2>9. Tags' /\ OneWait'
    <3>1. DOMAIN out' = {} /\ tag \in Nat
      BY <1>3 DEF IInv, Types, ClientTypes
    <3> QED  BY <1>3, <2>3, <2>5, <2>8, <3>1 DEF IInv, Tags, OneWait
  <2> QED  BY <2>7, <2>9 DEF IInv
<1>4. CASE conn' = "Connected" /\ HandshakeFails /\ UNCHANGED <<tag, idle, out, in, srv>>
  BY <1>0, <1>1, <1>4, HandshakeTypes DEF server
<1> QED  BY <1>2, <1>3, <1>4 DEF Establish

(* The body that is asked for is that of one message.                      *)
LEMMA BodyTodo ==
  ASSUME NEW t \in Todos, t[1] = "BODY"
  PROVE  t = <<"BODY">>
<1>1. CASE \E v \in Singles : t = <<v>>
  <2>1. PICK v \in Singles : t = <<v>>
    BY <1>1
  <2> QED  BY <2>1, Tuples
<1>2. CASE ~\E v \in Singles : t = <<v>>
  <2>1. t \in {<<"establish", "greeting">>, <<"upgrade", "CAPABILITY2">>, <<"LOGIN", "CAPABILITY3">>,
                    <<"LOGOUT", "closeConnection">>, <<"APPEND", "literal">>, <<"wait", "DONE">>, <<"IDLE", "wait", "DONE">>,
                    <<"STARTTLS", "upgrade", "CAPABILITY2">>, <<"CAPABILITY", "STARTTLS", "upgrade", "CAPABILITY2">>,
                    <<"greeting", "CAPABILITY", "STARTTLS", "upgrade", "CAPABILITY2">>,
                    <<"establish", "greeting", "CAPABILITY", "STARTTLS", "upgrade", "CAPABILITY2">>}
    BY <1>2 DEF Todos, Idling, Connect
  <2>2. t[1] \in {"establish", "upgrade", "LOGIN", "LOGOUT", "APPEND", "wait", "IDLE", "STARTTLS", "CAPABILITY", "greeting"}
    BY <2>1
  <2> QED  BY <2>2
<1> QED  BY <1>1, <1>2

LEMMA SelectedType ==
  ASSUME NEW c \in CacheSet, NEW raw \in Seq(ItemSet)
  PROVE  /\ Selected(c, raw) \in CacheSet /\ Selected(c, raw).validity = SelectResponse(raw).validity
         /\ \A m : Own(c, m) => Own(Selected(c, raw), m)
<1>1. SelectResponse(raw) \in SelectData
  BY SelectResponseType
<1>2. PICK v \in Nat, q \in Nat, x \in Nat : v = SelectResponse(raw).validity /\ q = SelectResponse(raw).modseq /\ x = SelectResponse(raw).next
  BY <1>1 DEF SelectData
<1>3. PICK k \in CacheSet : k = SetMailboxState(c, v, q) /\ k.validity = v /\ \A m : Own(c, m) => Own(k, m)
  BY SetMailboxStateType
<1>4. Selected(c, raw) = SetUidNext(k, x)
  BY <1>2, <1>3 DEF Selected
<1>5. SetUidNext(k, x) \in CacheSet /\ SetUidNext(k, x).validity = k.validity /\ \A m : Own(k, m) => Own(SetUidNext(k, x), m)
  BY SetUidNextType
<1> QED  BY <1>2, <1>3, <1>4, <1>5

(* The lines of messages are about the mailbox m the program is in.        *)
FromHere(raw, m) ==
  \A i \in Of(raw, "FETCH") :
    /\ cli.validity # 0 /\ raw[i].data.of = <<m, cli.validity>>
    /\ raw[i].data.body \in {<<>>, <<m, cli.validity, raw[i].data.uid>>}
    /\ Now = "BODY" /\ raw[i].data.body # <<>> => raw[i].data.uid \in job.uids

LEMMA FiledType ==
  ASSUME StateTypes, job \in JobSet, job.op # "none", NEW c \in CacheSet, NEW raw \in Seq(ItemSet)
  PROVE  /\ Filed(c, raw) \in CacheSet
         /\ \A m \in Mailboxes : Own(c, m) /\ (cli.validity # 0 => c.validity \in {0, cli.validity}) /\ FromHere(raw, m)
              => Own(Filed(c, raw), m) /\ (cli.validity # 0 => Filed(c, raw).validity \in {0, cli.validity})
<1> DEFINE Fits(m) == Own(c, m) /\ (cli.validity # 0 => c.validity \in {0, cli.validity}) /\ FromHere(raw, m)
<1>1. CASE Filed(c, raw) = Stored(c, raw)
  <2>1. \A m \in Mailboxes : FromHere(raw, m) => \A i \in Of(raw, "FETCH") : cli.validity # 0 /\ raw[i].data.of = <<m, cli.validity>>
    BY DEF FromHere
  <2> QED  BY <1>1, <2>1, StoredType
<1>2. CASE Filed(c, raw) = Flagged(c, job.uids)
  BY <1>2, UpdateFlagsType DEF Flagged
<1>3. CASE Now = "BODY"
  <2>1. job.todo = <<"BODY">>
    BY <1>3, NowIs, BodyTodo
  <2>2. PICK u \in Uids : job.uids = {u}
    BY <2>1, JobParts
  <2>3. Filed(c, raw) = SetMessageBody(c, CHOOSE w \in job.uids : TRUE, Body(raw))
    BY <1>3 DEF Filed
  <2>4. (CHOOSE w \in job.uids : TRUE) = u
    BY <2>2
  <2>5. PICK b \in Bodies : b = Body(raw) /\ (b = <<"empty">> \/ \E i \in Of(raw, "FETCH") : raw[i].data.body # <<>> /\ b = raw[i].data.body)
    BY BodyIs
  <2>6. /\ SetMessageBody(c, u, b) \in CacheSet /\ SetMessageBody(c, u, b).validity = c.validity
        /\ \A m : Own(c, m) /\ b \in {<<>>, <<"empty">>, <<m, c.validity, u>>} => Own(SetMessageBody(c, u, b), m)
    BY SetMessageBodyType
  <2>7. Filed(c, raw) = SetMessageBody(c, u, b)
    BY <2>3, <2>4, <2>5
  <2>8. ASSUME NEW m \in Mailboxes, Fits(m)
        PROVE  Own(SetMessageBody(c, u, b), m)
    <3>1. CASE c.validity = 0
      <4>1. u \notin DOMAIN c.msgs
        BY <2>8, <3>1 DEF Own
      <4>2. SetMessageBody(c, u, b) = c
        BY <4>1 DEF SetMessageBody
      <4> QED  BY <2>8, <4>2
    <3>2. CASE b = <<"empty">>
      BY <2>6, <2>8, <3>2
    <3>3. CASE c.validity # 0 /\ b # <<"empty">>
      <4>1. PICK i \in Of(raw, "FETCH") : raw[i].data.body # <<>> /\ b = raw[i].data.body
        BY <2>5, <3>3
      <4>2. cli.validity # 0 /\ b = <<m, cli.validity, raw[i].data.uid>> /\ raw[i].data.uid \in job.uids
        BY <1>3, <2>8, <4>1 DEF FromHere
      <4>3. c.validity = cli.validity /\ b = <<m, c.validity, u>>
        BY <2>2, <2>8, <3>3, <4>2
      <4> QED  BY <2>6, <2>8, <4>3
    <3> QED  BY <3>1, <3>2, <3>3
  <2> QED  BY <2>6, <2>7, <2>8
<1>4. CASE Filed(c, raw) = RemoveMessages(c, job.uids)
  BY <1>4, RemoveMessagesType
<1>5. CASE Filed(c, raw) = c
  BY <1>5
<1>6. \/ Filed(c, raw) \in {Stored(c, raw), Flagged(c, job.uids), RemoveMessages(c, job.uids), c}
      \/ Now = "BODY"
  BY DEF Filed
<1> QED  BY <1>1, <1>2, <1>3, <1>4, <1>5, <1>6

LEMMA NewCliType ==
  ASSUME StateTypes, job \in JobSet, job.op # "none", NEW raw \in Seq(ItemSet)
  PROVE  NewCli(raw) \in [box : NoneOr, validity : Nat, modseq : Nat, qresync : BOOLEAN]
<1>1. SelectResponse(raw) \in SelectData
  BY SelectResponseType
<1>2. PICK v \in Nat, q \in Nat : v = SelectResponse(raw).validity /\ q = SelectResponse(raw).modseq
  BY <1>1 DEF SelectData
<1>3. NewCli(raw) \in {[cli EXCEPT !.box = job.box, !.validity = v, !.modseq = q],
                       [cli EXCEPT !.box = "none", !.validity = 0, !.modseq = 0], [cli EXCEPT !.qresync = TRUE], cli}
  BY <1>2 DEF NewCli
<1>4. job.box \in NoneOr /\ "none" \in NoneOr
  BY JobParts DEF NoneOr
<1>5. cli \in [box : NoneOr, validity : Nat, modseq : Nat, qresync : BOOLEAN]
  BY DEF StateTypes
<1> DEFINE R == [box : NoneOr, validity : Nat, modseq : Nat, qresync : BOOLEAN]
<1>6. [cli EXCEPT !.box = job.box, !.validity = v, !.modseq = q] \in R
  BY <1>4, <1>5
<1>7. [cli EXCEPT !.box = "none", !.validity = 0, !.modseq = 0] \in R /\ [cli EXCEPT !.qresync = TRUE] \in R
  BY <1>4, <1>5
<1> HIDE DEF R
<1>8. NewCli(raw) \in R
  BY <1>3, <1>5, <1>6, <1>7 DEF R
<1> QED  BY <1>8 DEF R

(* Which mailbox of the cache an accepted command changes.                 *)
LEMMA NewCacheType ==
  ASSUME StateTypes, job \in JobSet, job.op # "none", NEW raw \in Seq(ItemSet)
  PROVE  /\ NewCache(raw) \in [Mailboxes -> CacheSet]
         /\ \A m \in Mailboxes :
              \/ NewCache(raw)[m] = cache[m]
              \/ Now = "SELECT" /\ m = job.box /\ NewCache(raw)[m] = Selected(cache[m], raw)
              \/ Now = "SELECT_QRESYNC" /\ m = job.box /\ NewCache(raw)[m] = Selected(RemoveMessages(cache[m], ExpungedUids(raw)), raw)
              \/ Now \notin {"SELECT", "SELECT_QRESYNC"} /\ m = cli.box /\ NewCache(raw)[m] = Filed(cache[m], raw)
<1>0. cache \in [Mailboxes -> CacheSet] /\ cli.box \in Mailboxes \cup {"none"}
  BY DEF StateTypes, NoneOr
<1>1. CASE Now = "SELECT"
  <2>1. job.box \in Mailboxes
    BY <1>1, NowIs, JobParts DEF Selecting
  <2>2. NewCache(raw) = [cache EXCEPT ![job.box] = Selected(cache[job.box], raw)]
    BY <1>1 DEF NewCache
  <2>3. Selected(cache[job.box], raw) \in CacheSet
    BY <1>0, <2>1, SelectedType
  <2> QED  BY <1>0, <1>1, <2>1, <2>2, <2>3
<1>2. CASE Now = "SELECT_QRESYNC"
  <2>1. job.box \in Mailboxes
    BY <1>2, NowIs, JobParts DEF Selecting
  <2>2. NewCache(raw) = [cache EXCEPT ![job.box] = Selected(RemoveMessages(cache[job.box], ExpungedUids(raw)), raw)]
    BY <1>2 DEF NewCache
  <2>3. Selected(RemoveMessages(cache[job.box], ExpungedUids(raw)), raw) \in CacheSet
    <3>1. PICK k \in CacheSet : k = RemoveMessages(cache[job.box], ExpungedUids(raw))
      BY <1>0, <2>1, RemoveMessagesType
    <3> QED  BY <3>1, SelectedType
  <2> QED  BY <1>0, <1>2, <2>1, <2>2, <2>3
<1>3. CASE Now \notin {"SELECT", "SELECT_QRESYNC"} /\ cli.box = "none"
  <2>1. NewCache(raw) = cache
    BY <1>3 DEF NewCache
  <2> QED  BY <1>0, <2>1
<1>4. CASE Now \notin {"SELECT", "SELECT_QRESYNC"} /\ cli.box # "none"
  <2>1. NewCache(raw) = [cache EXCEPT ![cli.box] = Filed(cache[cli.box], raw)] /\ cli.box \in Mailboxes
    BY <1>0, <1>4 DEF NewCache
  <2>2. Filed(cache[cli.box], raw) \in CacheSet
    BY <1>0, <2>1, FiledType
  <2> QED  BY <1>0, <1>4, <2>1, <2>2
<1> QED  BY <1>1, <1>2, <1>3, <1>4

(* The steps of the operation under way.                                   *)
LEMMA NextJob ==
  ASSUME IInv, job.op # "none", Ended \/ Goes(Tail(job.todo)) \/ Goes(<<"ENABLE">>)
  PROVE  job' \in JobSet /\ alive' \in BOOLEAN /\ job'.at = "step" /\ job'.tag \in {0, job.tag} /\ job'.tag <= tag
<1>1. job \in JobSet /\ alive \in BOOLEAN /\ tag \in Nat /\ job.tag \in Nat /\ job.tag <= tag
  BY JobParts DEF IInv, Types, ClientTypes, BoundTypes, Tags
<1>2. CASE Ended
  <2>1. job' \in JobSet /\ job' = NoJob /\ alive' \in BOOLEAN
    BY <1>1, <1>2, EndedType
  <2> QED  BY <1>1, <2>1, NoJobType
<1>3. CASE Goes(Tail(job.todo)) \/ Goes(<<"ENABLE">>)
  <2>1. PICK t \in {Tail(job.todo), <<"ENABLE">>} : Goes(t)
    BY <1>3
  <2>2. <<"ENABLE">> \in Todos /\ <<"ENABLE">>[1] \notin Selecting \cup {"BODY", "CHANGEDSINCE", "UIDMOVE"}
    BY DEF Todos, Singles, Selecting
  <2>3. t = <<>> \/ (t \in Todos /\ t[1] \notin Selecting \cup {"BODY", "CHANGEDSINCE", "UIDMOVE"} /\ job.op # "none")
    BY <1>1, <2>1, <2>2, NowIs
  <2>4. /\ job' \in JobSet /\ alive' \in BOOLEAN
        /\ job' = NoJob \/ (t # <<>> /\ job' = [job EXCEPT !.todo = t, !.at = "step"])
    BY <1>1, <2>1, <2>3, GoesType
  <2>5. [job EXCEPT !.todo = t, !.at = "step"].at = "step" /\ [job EXCEPT !.todo = t, !.at = "step"].tag = job.tag
    BY <1>1 DEF JobSet, JobRecords
  <2>6. NoJob.at = "step" /\ NoJob.tag = 0
    BY DEF NoJob
  <2>7. CASE job' = NoJob
    BY <1>1, <2>4, <2>6, <2>7
  <2>8. CASE job' = [job EXCEPT !.todo = t, !.at = "step"]
    BY <1>1, <2>4, <2>5, <2>8
  <2> QED  BY <2>4, <2>7, <2>8
<1> QED  BY <1>2, <1>3

LEMMA ConsumeType ==
  ASSUME LinkTypes, NEW n \in Nat, n <= Len(in), Consume(n)
  PROVE  in' \in Seq(ItemSet)
BY Rest DEF Consume, LinkTypes

(* A step that keeps the tags and the commands under way.                  *)
LEMMA TagsKept ==
  ASSUME IInv, UNCHANGED <<tag, out>>, srv'.idle = srv.idle, job'.at = "step", job'.tag <= tag, idle'.tag <= tag,
         idle'.on => idle'.tag # 0
  PROVE  Tags'
BY DEF IInv, Tags

LEMMA UpgradeTypes ==
  ASSUME IInv, UpgradeToTLS
  PROVE  IInv'
<1>1. /\ job.op # "none" /\ Now = "upgrade" /\ conn \in {"Disconnected", "Connected"} /\ net \in {"none", "up", "cut", "silent", "null"}
      /\ UNCHANGED <<client, out, in, state, server, history, ops, changes>>
  BY DEF UpgradeToTLS, At, Busy, IInv, Types, ClientTypes, LinkTypes
<1>2. CASE net' \in {net, "null"} /\ UNCHANGED faults /\ job' \in JobSet /\ alive' \in BOOLEAN /\ job'.at = "step" /\ job'.tag <= tag
  <2>1. Types'
    BY <1>1, <1>2
    DEF IInv, Types, ClientTypes, LinkTypes, StateTypes, ServerTypes, BoundTypes, client, state, server, history
  <2>2. Tags'
    BY <1>1, <1>2, TagsKept DEF IInv, Tags, client, server
  <2>3. OneWait'
    BY <1>1 DEF IInv, OneWait, server
  <2> QED  BY <2>1, <2>2, <2>3 DEF IInv
<1>3. CASE net = "up" /\ Goes(Tail(job.todo)) /\ UNCHANGED <<net, faults>>
  BY <1>1, <1>2, <1>3, NextJob
<1>4. CASE net = "up" /\ HandshakeFails
  BY <1>1, <1>4, HandshakeTypes DEF client
<1>5. CASE net = "cut" /\ net' = "null" /\ Ended /\ UNCHANGED faults
  BY <1>1, <1>2, <1>5, EndedType, NoJobType DEF IInv, Types, ClientTypes, BoundTypes
<1> QED  BY <1>3, <1>4, <1>5 DEF UpgradeToTLS

LEMMA CloseConnectionTypes ==
  ASSUME IInv, CloseConnection
  PROVE  IInv'
<1>1. /\ job.op # "none" /\ Goes(Tail(job.todo)) /\ UNCHANGED <<tag, idle, cache, server, history, ops, changes, faults>>
      /\ conn' = "Disconnected" /\ net' = "none" /\ out' = <<>> /\ in' = <<>>
      /\ cli' = [cli EXCEPT !.box = "none", !.qresync = FALSE]
  BY DEF CloseConnection, At, Busy
<1>2. job' \in JobSet /\ alive' \in BOOLEAN /\ job'.at = "step" /\ job'.tag <= tag
  BY <1>1, NextJob
<1>3. cli' \in [box : NoneOr, validity : Nat, modseq : Nat, qresync : BOOLEAN]
  <2>1. cli \in [box : NoneOr, validity : Nat, modseq : Nat, qresync : BOOLEAN] /\ "none" \in NoneOr
    BY DEF IInv, Types, StateTypes, NoneOr
  <2> QED  BY <1>1, <2>1
<1>4. Types'
  BY <1>1, <1>2, <1>3, EmptySeq
  DEF IInv, Types, ClientTypes, LinkTypes, StateTypes, ServerTypes, BoundTypes, server, history
<1>5. DOMAIN out' = {}
  BY <1>1
<1>6. Tags' /\ OneWait'
  BY <1>1, <1>2, <1>5 DEF IInv, Tags, OneWait, server
<1> QED  BY <1>4, <1>6 DEF IInv

LEMMA ReadAnswerTypes ==
  ASSUME IInv, ReadAnswer
  PROVE  IInv'
<1>1. /\ job.op # "none" /\ Close > 0 /\ Consume(Close) /\ misled' = (misled \/ Told(Raw) # Last(Raw).ok)
      /\ UNCHANGED <<client, net, out, server, lost, ops, changes, faults>>
      /\ Ended \/ Goes(Tail(job.todo))
      /\ UNCHANGED state \/ (cli' = NewCli(Raw) /\ cache' = NewCache(Raw))
  BY DEF ReadAnswer, At, Busy
<1>2. job' \in JobSet /\ alive' \in BOOLEAN /\ job'.at = "step" /\ job'.tag <= tag
  BY <1>1, NextJob
<1>3. in \in Seq(ItemSet) /\ job \in JobSet /\ LinkTypes /\ StateTypes
  BY DEF IInv, Types, LinkTypes, ClientTypes
<1>4. in' \in Seq(ItemSet) /\ Raw \in Seq(ItemSet)
  <2>1. Close \in Nat /\ Close <= Len(in)
    BY <1>3, CloseIs
  <2> QED  BY <1>1, <1>3, <2>1, ConsumeType, RawIs
<1>5. StateTypes'
  <2>1. CASE UNCHANGED state
    BY <1>3, <2>1 DEF StateTypes, state
  <2>2. CASE cli' = NewCli(Raw) /\ cache' = NewCache(Raw)
    BY <1>1, <1>3, <1>4, <2>2, NewCliType, NewCacheType DEF StateTypes
  <2> QED  BY <1>1, <2>1, <2>2
<1>6. misled' \in BOOLEAN
  BY <1>1 DEF IInv, Types, BoundTypes
<1>7. Types'
  BY <1>1, <1>2, <1>4, <1>5, <1>6
  DEF IInv, Types, ClientTypes, LinkTypes, ServerTypes, BoundTypes, client, server, history
<1>8. Tags'
  BY <1>1, <1>2, TagsKept DEF IInv, Tags, client, server
<1>9. OneWait'
  BY <1>1 DEF IInv, OneWait, server
<1> QED  BY <1>7, <1>8, <1>9 DEF IInv

LEMMA ReadLineTypes ==
  ASSUME IInv, ReadLine
  PROVE  IInv'
<1>1. /\ job.op # "none" /\ job.at = "reply" /\ Close > 0 /\ Consume(Close)
      /\ idle' = (IF Now = "IDLE" THEN [idle EXCEPT !.on = TRUE] ELSE idle)
      /\ UNCHANGED <<conn, tag, net, out, state, server, misled, lost, ops, changes, faults>>
  BY DEF ReadLine, At, Busy
<1>2. Ended \/ Goes(Tail(job.todo)) \/ Goes(<<"ENABLE">>)
  BY DEF ReadLine
<1>3. job' \in JobSet /\ alive' \in BOOLEAN /\ job'.at = "step" /\ job'.tag <= tag
  BY <1>1, <1>2, NextJob
<1>4. in' \in Seq(ItemSet)
  <2>1. Close \in Nat /\ Close <= Len(in) /\ LinkTypes
    BY CloseIs DEF IInv, Types, LinkTypes
  <2> QED  BY <1>1, <2>1, ConsumeType
<1>5. idle' \in [on : BOOLEAN, tag : Nat] /\ idle'.tag = idle.tag /\ (idle'.on => idle'.tag # 0)
  <2>1. idle \in [on : BOOLEAN, tag : Nat] /\ (idle.on \/ Now = "IDLE" => idle.tag # 0)
    BY <1>1 DEF IInv, Types, ClientTypes, Tags
  <2> QED  BY <1>1, <2>1
<1>6. Types'
  BY <1>1, <1>3, <1>4, <1>5
  DEF IInv, Types, ClientTypes, LinkTypes, StateTypes, ServerTypes, BoundTypes, state, server
<1>7. Tags'
  BY <1>1, <1>3, <1>5, TagsKept DEF IInv, Tags, server
<1>8. OneWait'
  BY <1>1 DEF IInv, OneWait, server
<1> QED  BY <1>6, <1>7, <1>8 DEF IInv

LEMMA IdleWaitTypes ==
  ASSUME IInv, IdleWait
  PROVE  IInv'
<1> DEFINE notices == {i \in DOMAIN in : in[i].kind \notin {"tagged", "plus"}}
<1>1. /\ job.op # "none" /\ Goes(Tail(job.todo)) /\ (in' = <<>> \/ (notices # {} /\ Consume(Min(notices))))
      /\ UNCHANGED <<client, net, out, state, server, misled, lost, ops, changes, faults>>
  BY DEF IdleWait, At, Busy, AfterWait
<1>2. job' \in JobSet /\ alive' \in BOOLEAN /\ job'.at = "step" /\ job'.tag <= tag
  BY <1>1, NextJob
<1>3. in' \in Seq(ItemSet)
  <2>1. LinkTypes /\ in \in Seq(ItemSet)
    BY DEF IInv, Types, LinkTypes
  <2>2. Len(in) \in Nat /\ notices \in SUBSET (1..Len(in))
    BY <2>1, LenProperties
  <2>3. CASE notices # {} /\ Consume(Min(notices))
    <3>1. notices \in SUBSET Nat
      BY <2>2
    <3> HIDE DEF notices
    <3>2. PICK k \in notices : k = Min(notices)
      BY <2>3, <3>1, MinProperties
    <3>3. k \in Nat /\ k <= Len(in) /\ Consume(k)
      BY <2>2, <2>3, <3>2
    <3> QED  BY <2>1, <3>3, ConsumeType
  <2> QED  BY <1>1, <2>3, EmptySeq
<1>4. Types'
  BY <1>1, <1>2, <1>3
  DEF IInv, Types, ClientTypes, LinkTypes, StateTypes, ServerTypes, BoundTypes, client, state, server
<1>5. Tags'
  BY <1>1, <1>2, TagsKept DEF IInv, Tags, client, server
<1>6. OneWait'
  BY <1>1 DEF IInv, OneWait, server
<1> QED  BY <1>4, <1>5, <1>6 DEF IInv

LEMMA ReadDoneTypes ==
  ASSUME IInv, ReadDone
  PROVE  IInv'
<1> DEFINE n == IF Close > 0 /\ Close < DoneLines THEN Close ELSE DoneLines
<1>1. /\ job.op # "none" /\ (Close > 0 \/ Len(in) >= DoneLines) /\ idle' = [on |-> FALSE, tag |-> 0]
      /\ Consume(n) /\ lost' = (lost \/ Close = 0 \/ Close > n) /\ Ended
      /\ UNCHANGED <<conn, tag, net, out, state, server, misled, ops, changes, faults>>
  BY DEF ReadDone, At, Busy
<1>2. job' \in JobSet /\ alive' \in BOOLEAN /\ job'.at = "step" /\ job'.tag <= tag
  BY <1>1, NextJob
<1>3. in' \in Seq(ItemSet)
  <2>1. Close \in 0..Len(in) /\ Len(in) \in Nat /\ LinkTypes
    BY CloseIs DEF IInv, Types, LinkTypes
  <2>2. n \in Nat /\ n <= Len(in)
    BY <1>1, <2>1, Bounds
  <2> QED  BY <1>1, <2>1, <2>2, ConsumeType
<1>4. lost' \in BOOLEAN
  BY <1>1 DEF IInv, Types, BoundTypes
<1>5. idle' \in [on : BOOLEAN, tag : Nat] /\ idle'.tag = 0 /\ ~idle'.on
  BY <1>1
<1>6. Types'
  BY <1>1, <1>2, <1>3, <1>4, <1>5
  DEF IInv, Types, ClientTypes, LinkTypes, StateTypes, ServerTypes, BoundTypes, state, server
<1>7. Tags'
  <2>1. 0 <= tag
    BY DEF IInv, Types, ClientTypes
  <2> QED  BY <1>1, <1>2, <1>5, <2>1, TagsKept DEF server
<1>8. OneWait'
  BY <1>1 DEF IInv, OneWait, server
<1> QED  BY <1>6, <1>7, <1>8 DEF IInv

LEMMA ReadFailsTypes ==
  ASSUME IInv, ReadFails
  PROVE  IInv'
<1>1. /\ job.op # "none" /\ in' = <<>> /\ (Goes(Tail(job.todo)) \/ Ended)
      /\ idle' = (IF Now = "DONE" THEN [on |-> FALSE, tag |-> 0] ELSE idle)
      /\ UNCHANGED <<conn, tag, net, out, state, server, gone, misled, ops, changes>>
  BY DEF ReadFails, At, Busy
<1>2. job' \in JobSet /\ alive' \in BOOLEAN /\ job'.at = "step" /\ job'.tag <= tag
  BY <1>1, NextJob
<1>3. lost' \in BOOLEAN /\ faults' \in 0..MaxFaults
  <2>1. StreamGivesUp /\ BoundTypes
    BY DEF ReadFails, IInv, Types
  <2>2. CASE UNCHANGED <<lost, faults>>
    BY <2>1, <2>2 DEF BoundTypes
  <2>3. CASE Fault("late") /\ lost' = TRUE
    BY <2>1, <2>3, FaultType
  <2> QED  BY <2>1, <2>2, <2>3 DEF StreamGivesUp
<1>4. idle' \in [on : BOOLEAN, tag : Nat] /\ idle'.tag <= tag /\ (idle'.on => idle'.tag # 0)
  <2>1. idle \in [on : BOOLEAN, tag : Nat] /\ idle.tag <= tag /\ tag \in Nat /\ (idle.on => idle.tag # 0)
    BY DEF IInv, Types, ClientTypes, Tags
  <2>2. CASE Now = "DONE"
    BY <1>1, <2>1, <2>2
  <2>3. CASE Now # "DONE"
    BY <1>1, <2>1, <2>3
  <2> QED  BY <2>2, <2>3
<1>5. Types'
  BY <1>1, <1>2, <1>3, <1>4, EmptySeq
  DEF IInv, Types, ClientTypes, LinkTypes, StateTypes, ServerTypes, BoundTypes, state, server
<1>6. Tags'
  BY <1>1, <1>2, <1>4, TagsKept DEF server
<1>7. OneWait'
  BY <1>1 DEF IInv, OneWait, server
<1> QED  BY <1>5, <1>6, <1>7 DEF IInv

(* The line of a command.                                                  *)
LEMMA LineType ==
  ASSUME Types, Placed, job.op # "none", NEW t \in Nat
  PROVE  /\ Line(t) \in LineSet /\ Line(t).tag = t /\ Line(t).verb = Now /\ Line(t).box = job.box /\ Line(t).uids = job.uids
         /\ [Line(t) EXCEPT !.verb = "ack"] \in LineSet /\ [Line(t) EXCEPT !.verb = "ack"].tag = t
         /\ [Line(t) EXCEPT !.verb = "ack"].verb = "ack"
<1>1. job \in JobSet /\ cache \in [Mailboxes -> CacheSet] /\ cli.box \in NoneOr
  BY DEF Types, ClientTypes, StateTypes
<1>2. Now \in Verbs /\ Now = job.todo[1] /\ job.todo # <<>>
  BY <1>1, NowIs, JobParts
<1>3. job.box \in NoneOr /\ job.uids \in SUBSET Uids /\ job.opt \in BOOLEAN /\ (Now \in Selecting => job.box \in Mailboxes)
  BY <1>1, <1>2, JobParts
<1>4. Now = "CHANGEDSINCE" => cli.box \in Mailboxes
  BY <1>1, <1>2 DEF Placed, NoneOr
<1>5. \A m \in Mailboxes : cache[m].modseq \in Nat /\ cache[m].validity \in Nat
  BY <1>1 DEF CacheSet
<1>6. PICK s \in Nat : s = (IF Now = "SELECT_QRESYNC" THEN cache[job.box].modseq
                            ELSE IF Now = "CHANGEDSINCE" THEN cache[cli.box].modseq ELSE 0)
  <2>1. CASE Now = "SELECT_QRESYNC"
    BY <1>3, <1>5, <2>1 DEF Selecting
  <2>2. CASE Now = "CHANGEDSINCE"
    BY <1>4, <1>5, <2>2
  <2> QED  BY <2>1, <2>2
<1>7. PICK v \in Nat : v = (IF Now = "SELECT_QRESYNC" THEN cache[job.box].validity ELSE 0)
  <2>1. CASE Now = "SELECT_QRESYNC"
    BY <1>3, <1>5, <2>1 DEF Selecting
  <2> QED  BY <2>1
<1>8. PICK k \in SUBSET Int : k = (IF Now = "SELECT_QRESYNC" THEN Covered(KnownUidRanges(cache[job.box])) ELSE {})
  <2>1. \A r : Covered(r) \in SUBSET Int
    BY DEF Covered
  <2> QED  BY <2>1
<1>9. Line(t) = [verb |-> Now, tag |-> t, box |-> job.box, uids |-> job.uids, opt |-> job.opt,
                 since |-> s, validity |-> v, known |-> k]
  BY <1>6, <1>7, <1>8 DEF Line
<1>10. Line(t) \in LineSet
  <2>1. Now \in Verbs \cup {"ack"}
    BY <1>2
  <2>2. Now \in Selecting => job.box \in Mailboxes
    BY <1>3
  <2> HIDE DEF Now, Selecting, Verbs
  <2> QED  BY <1>3, <1>6, <1>7, <1>8, <1>9, <2>1, <2>2 DEF LineSet
<1>11. PICK x \in LineSet : x = Line(t)
  BY <1>10
<1>12. /\ x.tag = t /\ x.verb = Now /\ x.box = job.box /\ x.uids = job.uids
  <2> HIDE DEF Now
  <2> QED  BY <1>9, <1>11
<1>13. [x EXCEPT !.verb = "ack"] \in LineSet /\ [x EXCEPT !.verb = "ack"].tag = x.tag /\ [x EXCEPT !.verb = "ack"].verb = "ack"
  <2>1. "ack" \in Verbs \cup {"ack"} /\ "ack" \notin Selecting
    BY DEF Selecting
  <2> HIDE DEF Verbs, Selecting
  <2> QED  BY <2>1 DEF LineSet
<1> HIDE DEF Now
<1> QED  BY <1>11, <1>12, <1>13

LEMMA OneMoreLine ==
  ASSUME out \in Seq(LineSet), NEW x \in LineSet, NEW t \in Nat, x.tag <= t, tag <= t, tag \in Nat,
         \A i \in DOMAIN out : out[i].tag <= tag
  PROVE  Append(out, x) \in Seq(LineSet) /\ \A i \in DOMAIN Append(out, x) : Append(out, x)[i].tag <= t
<1>1. PICK s : s = Append(out, x)
  OBVIOUS
<1>2. /\ s \in Seq(LineSet \cup {x}) /\ DOMAIN s = 1..Len(out) + 1
      /\ s[Len(out) + 1] = x /\ \A i \in 1..Len(out) : s[i] = out[i]
  BY <1>1, Answered
<1>3. Len(out) \in Nat /\ DOMAIN out = 1..Len(out) /\ \A i \in DOMAIN out : out[i].tag \in Nat
  BY OutTags
<1>4. LineSet \cup {x} = LineSet
  OBVIOUS
<1>5. ASSUME NEW i \in DOMAIN s
      PROVE  s[i].tag <= t
  <2>1. CASE i = Len(out) + 1
    BY <1>2, <2>1
  <2>2. CASE i # Len(out) + 1
    <3>1. i \in 1..Len(out)
      BY <1>2, <1>3, <1>5, <2>2
    <3>2. s[i] = out[i] /\ out[i].tag <= tag /\ out[i].tag \in Nat
      BY <1>2, <1>3, <3>1
    <3> QED  BY <3>2
  <2> QED  BY <2>1, <2>2
<1> QED  BY <1>1, <1>2, <1>4, <1>5

LEMMA WriteCommandTypes ==
  ASSUME IInv, Placed, WriteCommand
  PROVE  IInv'
<1>1. job.op # "none" /\ job \in JobSet /\ tag \in Nat /\ out \in Seq(LineSet) /\ idle \in [on : BOOLEAN, tag : Nat]
      /\ idle.tag <= tag /\ (idle.on => idle.tag # 0) /\ srv.idle <= tag /\ srv.idle \in Nat /\ job.at = "step"
  BY DEF IInv, Types, ClientTypes, LinkTypes, ServerTypes, SessionSet, Tags, WriteCommand, At, Busy
<1>2. PICK t : t = (IF Now \in Untagged THEN tag ELSE tag + 1)
  OBVIOUS
<1>3. t \in Nat /\ tag <= t /\ t <= tag + 1 /\ (Now = "IDLE" => t # 0)
  BY <1>1, <1>2 DEF Untagged
<1>4. /\ tag' = t
      /\ \/ out' = out /\ Ended
         \/ UNCHANGED <<out, job>> /\ alive' = FALSE
         \/ /\ out' = Append(out, Line(IF Now \in Untagged THEN 0 ELSE t))
            /\ job' = [job EXCEPT !.at = "reply", !.tag = t] /\ UNCHANGED alive
      /\ idle' \in {IdleTag(t), [idle EXCEPT !.on = FALSE], idle} /\ (Now = "IDLE" => idle' = IdleTag(t))
      /\ UNCHANGED <<conn, net, in, state, server, history, ops, changes, faults>>
  <2>1. idle' = CASE Now = "IDLE"                   -> IdleTag(t)
                  [] Now = "DONE" /\ net # "up"     -> [idle EXCEPT !.on = FALSE]
                  [] OTHER                          -> idle
    BY <1>2 DEF WriteCommand
  <2>2. idle' \in {IdleTag(t), [idle EXCEPT !.on = FALSE], idle} /\ (Now = "IDLE" => idle' = IdleTag(t))
    BY <2>1
  <2> HIDE DEF Now
  <2> QED  BY <1>2, <2>2 DEF WriteCommand
<1>5. idle' \in [on : BOOLEAN, tag : Nat] /\ idle'.tag <= t /\ (idle'.on => idle'.tag # 0) /\ (Now = "IDLE" => idle'.tag # 0)
  <2>1. CASE idle' = IdleTag(t) /\ Now = "IDLE"
    BY <1>1, <1>3, <2>1 DEF IdleTag
  <2>2. CASE Now # "IDLE" /\ idle' \in {[idle EXCEPT !.on = FALSE], idle}
    <3>1. idle.tag \in Nat /\ idle.tag <= t
      BY <1>1, <1>3
    <3>2. CASE idle' = [idle EXCEPT !.on = FALSE]
      <4>1. idle' \in [on : BOOLEAN, tag : Nat] /\ idle'.tag = idle.tag /\ idle'.on = FALSE
        BY <1>1, <3>2
      <4> HIDE DEF Now
      <4> QED  BY <2>2, <3>1, <4>1
    <3>3. CASE idle' = idle
      BY <1>1, <2>2, <3>1, <3>3
    <3> QED  BY <2>2, <3>2, <3>3
  <2>3. CASE Now # "IDLE" /\ idle' = IdleTag(t)
    <3>1. idle' \in {[idle EXCEPT !.on = FALSE], idle}
      BY <2>3 DEF WriteCommand
    <3> QED  BY <2>2, <2>3, <3>1
  <2> QED  BY <1>4, <2>1, <2>2, <2>3
<1>6. CASE out' = out /\ (Ended \/ (UNCHANGED job /\ alive' = FALSE))
  <2>1. job' \in JobSet /\ alive' \in BOOLEAN /\ job'.at = "step" /\ job'.tag <= t
    <3>1. CASE Ended
      BY <1>1, <1>3, <3>1, EndedType, NoJobType
    <3>2. CASE UNCHANGED job /\ alive' = FALSE
      <4>1. job.tag \in Nat
        BY <1>1 DEF JobSet, JobRecords
      <4>2. job.tag <= tag
        BY DEF IInv, Tags
      <4>3. job.tag <= t
        BY <1>1, <1>3, <4>1, <4>2
      <4> QED  BY <1>1, <3>2, <4>3
    <3> QED  BY <1>6, <3>1, <3>2
  <2>2. Types'
    BY <1>3, <1>4, <1>5, <1>6, <2>1
    DEF IInv, Types, ClientTypes, LinkTypes, StateTypes, ServerTypes, BoundTypes, state, server, history
  <2>3. \A i \in DOMAIN out : out[i].tag <= t
    <3>1. \A i \in DOMAIN out : out[i].tag <= tag /\ out[i].tag \in Nat
      BY <1>1, OutTags DEF IInv, Tags
    <3> QED  BY <1>1, <1>3, <3>1
  <2>4. srv'.idle <= t
    BY <1>1, <1>3, <1>4 DEF server
  <2>5. Tags' /\ OneWait'
    BY <1>3, <1>4, <1>5, <1>6, <2>1, <2>3, <2>4 DEF Tags, OneWait, IInv, server
  <2> QED  BY <2>2, <2>5 DEF IInv
<1>7. CASE /\ out' = Append(out, Line(IF Now \in Untagged THEN 0 ELSE t))
           /\ job' = [job EXCEPT !.at = "reply", !.tag = t] /\ UNCHANGED alive
  <2>1. PICK w \in Nat : w = (IF Now \in Untagged THEN 0 ELSE t) /\ w <= t
    BY <1>3
  <2>2. Line(w) \in LineSet /\ Line(w).tag = w
    BY <1>1, LineType DEF IInv
  <2>3. out' = Append(out, Line(w))
    BY <1>7, <2>1, <2>2
  <2>4. out' \in Seq(LineSet) /\ \A i \in DOMAIN out' : out'[i].tag <= t
    <3>1. PICK x \in LineSet : x = Line(w) /\ x.tag <= t
      BY <2>1, <2>2
    <3>2. \A i \in DOMAIN out : out[i].tag <= tag
      BY DEF IInv, Tags
    <3>3. Append(out, x) \in Seq(LineSet) /\ \A i \in DOMAIN Append(out, x) : Append(out, x)[i].tag <= t
      BY <1>1, <1>3, <3>1, <3>2, OneMoreLine
    <3> QED  BY <2>3, <3>1, <3>3
  <2>5. job' \in JobSet /\ job'.at = "reply" /\ job'.tag = t /\ job'.todo = job.todo
    <3>1. job' \in JobRecords /\ job'.op = job.op /\ job'.todo = job.todo /\ job'.at = "reply" /\ job'.tag = t /\ job'.box = job.box /\ job'.uids = job.uids
      BY <1>1, <1>3, <1>7 DEF JobSet, JobRecords
    <3> QED  BY <1>1, <3>1 DEF JobSet
  <2>6. Types'
    BY <1>3, <1>4, <1>5, <1>7, <2>4, <2>5
    DEF IInv, Types, ClientTypes, LinkTypes, StateTypes, ServerTypes, BoundTypes, state, server, history
  <2>7. srv'.idle <= t
    BY <1>1, <1>3, <1>4 DEF server
  <2>8. Now' = Now
    BY <2>5 DEF Now
  <2>9. OneWait'
    BY <1>4 DEF OneWait, IInv, server
  <2>10. Tags'
    BY <1>3, <1>4, <1>5, <2>4, <2>5, <2>7, <2>8 DEF Tags
  <2> QED  BY <2>6, <2>9, <2>10 DEF IInv
<1> QED  BY <1>4, <1>6, <1>7

LEMMA ReadXOAuth2Types ==
  ASSUME IInv, Placed, ReadXOAuth2
  PROVE  IInv'
<1>1. /\ job.op # "none" /\ job.at = "reply" /\ in # <<>> /\ Consume(1) /\ Now = "XOAUTH2"
      /\ UNCHANGED <<client, net, state, server, history, ops, changes, faults>>
  BY DEF ReadXOAuth2, At, Busy
<1>2. \/ Ended /\ UNCHANGED out
      \/ UNCHANGED <<out, job, alive>>
      \/ out' = Append(out, [Line(0) EXCEPT !.verb = "ack"]) /\ UNCHANGED <<job, alive>>
  BY DEF ReadXOAuth2
<1>3. in' \in Seq(ItemSet)
  <2>1. in \in Seq(ItemSet) /\ LinkTypes
    BY DEF IInv, Types, LinkTypes
  <2>2. Len(in) \in Nat /\ 1 <= Len(in)
    <3>1. Len(in) \in Nat /\ Len(in) # 0
      BY <1>1, <2>1, EmptySeq
    <3> QED  BY <3>1
  <2> QED  BY <1>1, <2>1, <2>2, ConsumeType
<1>4. tag \in Nat /\ out \in Seq(LineSet) /\ job \in JobSet /\ \A i \in DOMAIN out : out[i].tag <= tag
  BY DEF IInv, Types, ClientTypes, LinkTypes, Tags
<1>5. out' \in Seq(LineSet) /\ \A i \in DOMAIN out' : out'[i].tag <= tag
  <2>1. CASE UNCHANGED out
    BY <1>4, <2>1
  <2>2. CASE out' = Append(out, [Line(0) EXCEPT !.verb = "ack"])
    <3>0. [Line(0) EXCEPT !.verb = "ack"] \in LineSet /\ [Line(0) EXCEPT !.verb = "ack"].tag = 0
      BY <1>1, LineType DEF IInv
    <3>1. PICK x \in LineSet : x = [Line(0) EXCEPT !.verb = "ack"] /\ x.tag = 0
      BY <3>0, Zenon
    <3>2. 0 <= tag /\ tag <= tag /\ x.tag <= tag
      BY <1>4, <3>1
    <3>3. Append(out, x) \in Seq(LineSet) /\ \A i \in DOMAIN Append(out, x) : Append(out, x)[i].tag <= tag
      BY <1>4, <3>2, OneMoreLine
    <3> QED  BY <2>2, <3>1, <3>3
  <2> QED  BY <1>2, <2>1, <2>2
<1>6. CASE Ended
  <2>1. job' \in JobSet /\ alive' \in BOOLEAN /\ job'.at = "step" /\ job'.tag = 0 /\ 0 <= tag
    BY <1>4, <1>6, EndedType, NoJobType
  <2>2. Types'
    BY <1>1, <1>3, <1>5, <2>1
    DEF IInv, Types, ClientTypes, LinkTypes, StateTypes, ServerTypes, BoundTypes, client, state, server, history
  <2>3. Tags' /\ OneWait'
    BY <1>1, <1>5, <2>1 DEF IInv, Tags, OneWait, client, server
  <2> QED  BY <2>2, <2>3 DEF IInv
<1>7. CASE UNCHANGED <<job, alive>>
  <2>1. Types'
    BY <1>1, <1>3, <1>4, <1>5, <1>7
    DEF IInv, Types, ClientTypes, LinkTypes, StateTypes, ServerTypes, BoundTypes, client, state, server, history
  <2>2. Tags' /\ OneWait'
    BY <1>1, <1>5, <1>7 DEF IInv, Tags, OneWait, client, server, Now
  <2> QED  BY <2>1, <2>2 DEF IInv
<1> QED  BY <1>2, <1>6, <1>7

-----------------------------------------------------------------------------
(* What the server does.                                                   *)

(* The lines about messages of mailbox m, and the others that change       *)
(* nothing there and that the parser gets over: what VANISHED names is     *)
(* gone.                                                                   *)
Vanishes(x, b) == b[x.data[1]].validity = x.data[2] /\ x.uids \subseteq DOMAIN b[x.data[1]].gone
Fetches(m, v, B) == {x \in ItemSet : /\ x.kind = "FETCH" /\ x.data.of = <<m, v>> /\ x.data.uid \in DOMAIN box[m].msgs
                                     /\ x.data.body # <<>> => x.data.uid \in B /\ x.data.body = <<m, v, x.data.uid>>}
Plain == {x \in ItemSet : /\ x.kind \in {"EXISTS", "VANISHED", "EXPUNGE", "caps"} /\ ~x.slash
                          /\ x.kind = "VANISHED" => Vanishes(x, box')}

(* What had come, what was pending, the lines of L, and the status.        *)
Said(t, L, ok) ==
  /\ in' \in Seq(ItemSet) /\ Len(in') \in Nat /\ Len(in') > Len(in) + Len(srv.news)
  /\ in'[Len(in')] \in ItemSet /\ in'[Len(in')].kind = "tagged" /\ in'[Len(in')].tag = t /\ in'[Len(in')].ok = ok
  /\ ~in'[Len(in')].slash
  /\ \A i \in 1..Len(in) : in'[i] = in[i]
  /\ \A i \in Len(in) + 1..Len(in) + Len(srv.news) : in'[i] = srv.news[i - Len(in)] /\ i - Len(in) \in DOMAIN srv.news
  /\ \A i \in Len(in) + Len(srv.news) + 1..Len(in') - 1 : in'[i] \in L

LEMMA AllSaid ==
  ASSUME in \in Seq(ItemSet), ServerTypes, NEW t \in Nat, NEW L \in SUBSET ItemSet, NEW lines \in Seq(L), NEW ok \in BOOLEAN,
         in' = in \o srv.news \o lines \o <<Tagged(t, ok)>>
  PROVE  /\ Said(t, L, ok) /\ Len(in') = Len(in) + Len(srv.news) + Len(lines) + 1
         /\ \A i \in 1..Len(lines) : in'[Len(in) + Len(srv.news) + i] = lines[i]
<1>1. srv.news \in Seq(ItemSet) /\ lines \in Seq(ItemSet)
  BY SeqMonotonic DEF ServerTypes, SessionSet
<1>2. PICK x \in ItemSet : x = Tagged(t, ok) /\ x.kind = "tagged" /\ x.tag = t /\ x.ok = ok /\ ~x.slash
  <2>2. Tagged(t, ok) \in ItemSet /\ Tagged(t, ok).kind = "tagged" /\ Tagged(t, ok).tag = t /\ Tagged(t, ok).ok = ok
        /\ ~Tagged(t, ok).slash
    BY DEF Tagged, Item, ItemSet
  <2> QED  BY <2>2
<1>3. PICK n \in Seq(ItemSet) : n = srv.news
  BY <1>1
<1>4. /\ in \o n \in Seq(ItemSet) /\ Len(in \o n) = Len(in) + Len(n)
      /\ \A i \in 1..Len(in) + Len(n) : (in \o n)[i] = IF i <= Len(in) THEN in[i] ELSE n[i - Len(in)]
  BY ConcatProperties
<1>5. PICK p \in Seq(ItemSet) : p = in \o n
  BY <1>4
<1>6. /\ p \o lines \in Seq(ItemSet) /\ Len(p \o lines) = Len(p) + Len(lines)
      /\ \A i \in 1..Len(p) + Len(lines) : (p \o lines)[i] = IF i <= Len(p) THEN p[i] ELSE lines[i - Len(p)]
  BY <1>1, ConcatProperties
<1>7. PICK s \in Seq(ItemSet) : s = p \o lines
  BY <1>6
<1>8. in' = Append(s, x)
  <2>1. in' = in \o n \o lines \o <<x>>
    BY <1>2, <1>3
  <2>2. in \o n \o lines \o <<x>> = Append(in \o n \o lines, x)
    BY <1>1, ReplyLines
  <2> QED  BY <1>5, <1>7, <2>1, <2>2
<1>9. /\ Append(s, x) \in Seq(ItemSet \cup {x}) /\ Len(Append(s, x)) = Len(s) + 1
      /\ Append(s, x)[Len(s) + 1] = x /\ \A i \in 1..Len(s) : Append(s, x)[i] = s[i]
  BY Answered
<1>10. ItemSet \cup {x} = ItemSet
  OBVIOUS
<1>11. Len(in) \in Nat /\ Len(n) \in Nat /\ Len(lines) \in Nat /\ DOMAIN n = 1..Len(n) /\ \A i \in 1..Len(lines) : lines[i] \in L
  BY <1>1, LenProperties
<1>12. Len(p) = Len(in) + Len(n) /\ Len(s) = Len(in) + Len(n) + Len(lines) /\ Len(in') = Len(in) + Len(n) + Len(lines) + 1
  BY <1>4, <1>5, <1>6, <1>7, <1>8, <1>9
<1>13. in' \in Seq(ItemSet) /\ in'[Len(in')] = x
  BY <1>8, <1>9, <1>10
<1>14. \A i \in 1..Len(in) : in'[i] = in[i]
  <2> SUFFICES ASSUME NEW i \in 1..Len(in) PROVE in'[i] = in[i]
    OBVIOUS
  <2>1. i \in 1..Len(s) /\ i \in 1..Len(p) + Len(lines) /\ i \in 1..Len(in) + Len(n) /\ i <= Len(p) /\ i <= Len(in)
    BY <1>11, <1>12
  <2> QED  BY <1>4, <1>5, <1>6, <1>7, <1>8, <1>9, <2>1
<1>15. \A i \in Len(in) + 1..Len(in) + Len(n) : in'[i] = n[i - Len(in)] /\ i - Len(in) \in DOMAIN n
  <2> SUFFICES ASSUME NEW i \in Len(in) + 1..Len(in) + Len(n) PROVE in'[i] = n[i - Len(in)] /\ i - Len(in) \in DOMAIN n
    OBVIOUS
  <2>1. i \in 1..Len(s) /\ i \in 1..Len(p) + Len(lines) /\ i \in 1..Len(in) + Len(n) /\ i <= Len(p) /\ ~(i <= Len(in))
        /\ i - Len(in) \in 1..Len(n)
    BY <1>11, <1>12
  <2> QED  BY <1>4, <1>5, <1>6, <1>7, <1>8, <1>9, <1>11, <2>1
<1>16. \A i \in 1..Len(lines) : in'[Len(in) + Len(n) + i] = lines[i]
  <2> SUFFICES ASSUME NEW i \in 1..Len(lines) PROVE in'[Len(in) + Len(n) + i] = lines[i]
    OBVIOUS
  <2>1. PICK j \in Nat : j = Len(in) + Len(n) + i
    BY <1>11
  <2>2. j \in 1..Len(s) /\ j \in 1..Len(p) + Len(lines) /\ ~(j <= Len(p)) /\ j - Len(p) = i
    BY <1>11, <1>12, <2>1
  <2> QED  BY <1>6, <1>7, <1>8, <1>9, <2>1, <2>2
<1>17. \A i \in Len(in) + Len(n) + 1..Len(in') - 1 : in'[i] \in L
  <2> SUFFICES ASSUME NEW i \in Len(in) + Len(n) + 1..Len(in') - 1 PROVE in'[i] \in L
    OBVIOUS
  <2>1. PICK j \in Nat : j = i - Len(in) - Len(n)
    <3>1. i - Len(in) - Len(n) \in Nat
      BY <1>11, <1>12
    <3> QED  BY <3>1
  <2>2. j \in 1..Len(lines) /\ i = Len(in) + Len(n) + j
    BY <1>11, <1>12, <2>1
  <2> QED  BY <1>11, <1>16, <2>2
<1>18. Len(in') \in Nat /\ Len(in') > Len(in) + Len(n)
  BY <1>11, <1>12
<1> QED  BY <1>2, <1>3, <1>12, <1>13, <1>14, <1>15, <1>16, <1>17, <1>18 DEF Said

LEMMA ReplySaid ==
  ASSUME in \in Seq(ItemSet), ServerTypes, NEW c \in LineSet, NEW L \in SUBSET ItemSet, NEW lines \in Seq(L), NEW ok \in BOOLEAN,
         Reply(c, lines, ok)
  PROVE  /\ Said(c.tag, L, ok) /\ Len(in') = Len(in) + Len(srv.news) + Len(lines) + 1
         /\ \A i \in 1..Len(lines) : in'[Len(in) + Len(srv.news) + i] = lines[i]
<1>1. PICK t \in Nat : t = c.tag
  BY DEF LineSet
<1>2. in' = in \o srv.news \o lines \o <<Tagged(t, ok)>>
  BY <1>1 DEF Reply
<1>3. /\ Said(t, L, ok) /\ Len(in') = Len(in) + Len(srv.news) + Len(lines) + 1
      /\ \A i \in 1..Len(lines) : in'[Len(in) + Len(srv.news) + i] = lines[i]
  BY <1>2, AllSaid
<1> QED  BY <1>1, <1>3

(* Lines that are all in a larger set.                                     *)
LEMMA SaidMore ==
  ASSUME NEW t, NEW ok, NEW K, NEW L \in SUBSET K, Said(t, L, ok)
  PROVE  Said(t, K, ok)
BY DEF Said

LEMMA QuietType ==
  ASSUME srv \in SessionSet
  PROVE  /\ Quiet \in SessionSet /\ Quiet.news = <<>> /\ Quiet.box = srv.box
         /\ Quiet.idle = srv.idle /\ Quiet.sasl = srv.sasl /\ Quiet.literal = srv.literal /\ Quiet.cont = srv.cont
<1>1. <<>> \in Seq(ItemSet)
  BY EmptySeq
<1> QED  BY <1>1 DEF Quiet, SessionSet

(* The session after an answer: what it waits for is as it was.            *)
Session(b) ==
  /\ srv' \in SessionSet /\ srv'.news = <<>> /\ srv'.box = b
  /\ srv'.idle = srv.idle /\ srv'.sasl = srv.sasl /\ srv'.literal = srv.literal

LEMMA QuietSession ==
  ASSUME srv \in SessionSet, NEW b \in NoneOr, srv' = [Quiet EXCEPT !.box = b] \/ (srv' = Quiet /\ b = srv.box)
  PROVE  Session(b)
<1>1. PICK q \in SessionSet : q = Quiet /\ q.news = <<>> /\ q.box = srv.box
        /\ q.idle = srv.idle /\ q.sasl = srv.sasl /\ q.literal = srv.literal
  BY QuietType
<1>2. CASE srv' = [Quiet EXCEPT !.box = b]
  BY <1>1, <1>2 DEF Session, SessionSet
<1>3. CASE srv' = Quiet /\ b = srv.box
  BY <1>1, <1>3 DEF Session
<1> QED  BY <1>2, <1>3

Boxes == box' \in [Mailboxes -> BoxSet] /\ \A m \in Mailboxes : box'[m].validity = box[m].validity /\ Ages(box[m], box'[m])

LEMMA SameBoxesAge ==
  ASSUME ServerTypes, box' = box
  PROVE  Boxes
BY StaysAges DEF Boxes, ServerTypes

LEMMA OneBoxAges ==
  ASSUME ServerTypes, NEW m \in Mailboxes, NEW b \in BoxSet, b.validity = box[m].validity, Ages(box[m], b),
         box' = [box EXCEPT ![m] = b]
  PROVE  Boxes
<1>1. box \in [Mailboxes -> BoxSet]
  BY DEF ServerTypes
<1>2. \A k \in Mailboxes : box'[k] = IF k = m THEN b ELSE box[k]
  BY <1>1
<1>3. \A k \in Mailboxes : Ages(box[k], box[k])
  BY <1>1, StaysAges
<1> QED  BY <1>1, <1>2, <1>3 DEF Boxes

LEMMA MeantIs ==
  ASSUME ServerTypes, NEW c \in LineSet, srv.box # "none"
  PROVE  /\ srv.box \in Mailboxes /\ Here \in BoxSet /\ Meant(c) \in SUBSET DOMAIN Here.msgs /\ DOMAIN Here.msgs \in SUBSET Uids
         /\ \A u \in DOMAIN Here.msgs : Here.msgs[u] \in [mod : Nat, seen : BOOLEAN]
         /\ Here.validity = box[srv.box].validity /\ Here.validity \in Nat
         /\ c.uids # {} => Meant(c) \subseteq c.uids
<1>1. srv.box \in Mailboxes /\ Here \in BoxSet
  BY DEF ServerTypes, SessionSet, NoneOr, Here
<1>2. PICK D \in SUBSET Uids : Here.msgs \in [D -> [mod : Nat, seen : BOOLEAN]]
  BY <1>1 DEF BoxSet
<1>3. \A u \in DOMAIN Here.msgs : Here.msgs[u] \in [mod : Nat, seen : BOOLEAN]
  <2> SUFFICES ASSUME NEW u \in DOMAIN Here.msgs PROVE Here.msgs[u] \in [mod : Nat, seen : BOOLEAN]
    OBVIOUS
  <2>1. u \in D
    BY <1>2
  <2> QED  BY <1>2, <2>1
<1>4. Here.validity \in Nat /\ Here.validity = box[srv.box].validity
  BY <1>1 DEF BoxSet, Here
<1>5. DOMAIN Here.msgs = D
  BY <1>2
<1> QED  BY <1>1, <1>3, <1>4, <1>5 DEF Meant

LEMMA FetchLineIs ==
  ASSUME ServerTypes, NEW m \in Mailboxes, NEW u \in Uids \cap DOMAIN box[m].msgs, NEW msg \in [mod : Nat, seen : BOOLEAN],
         NEW env \in BOOLEAN, NEW body \in Bodies, NEW B, body # <<>> => u \in B /\ body = <<m, box[m].validity, u>>
  PROVE  FetchLine(m, u, msg, env, body) \in Fetches(m, box[m].validity, B)
<1>1. PICK x : x = FetchLine(m, u, msg, env, body)
  OBVIOUS
<1>2. /\ x \in ItemSet /\ x.kind = "FETCH"
      /\ x.data = [of |-> <<m, box[m].validity>>, uid |-> u, mod |-> msg.mod, seen |-> msg.seen, env |-> env, body |-> body]
  BY <1>1, ServerItems
<1>3. x.data.of = <<m, box[m].validity>> /\ x.data.body = body /\ x.data.uid = u
  BY <1>2
<1> QED  BY <1>1, <1>2, <1>3 DEF Fetches

LEMMA VanishedIs ==
  ASSUME ServerTypes, NEW m \in Mailboxes, NEW S \in SUBSET Uids, NEW x, x = Vanished(m, S)
  PROVE  /\ x \in ItemSet /\ x.kind \in {"VANISHED", "EXPUNGE"} /\ ~x.slash /\ x.uids = S
         /\ x.data = <<m, box[m].validity>> /\ x.data[1] = m /\ x.data[2] = box[m].validity
<1>1. x \in ItemSet /\ x.kind \in {"VANISHED", "EXPUNGE"} /\ ~x.slash
  BY ServerItems
<1>2. x.uids = S /\ x.data = <<m, box[m].validity>>
  BY DEF Vanished, Item
<1>3. \A a, b : <<a, b>>[1] = a /\ <<a, b>>[2] = b
  OBVIOUS
<1> QED  BY <1>1, <1>2, <1>3

LEMMA RefuseServed ==
  ASSUME LinkTypes, ServerTypes, BoundTypes, NEW c \in LineSet, Refuse(c)
  PROVE  /\ faults' \in 0..MaxFaults /\ net' = net /\ box' = box
         /\ Session(IF c.verb \in Selecting THEN "none" ELSE srv.box)
         /\ Said(c.tag, IF "partial" \in Faults /\ Legal(c) /\ c.verb = "UIDFETCH" THEN Fetches(srv.box, box[srv.box].validity, {}) ELSE {},
                 FALSE)
<1>1. faults' \in 0..MaxFaults
  <2>1. CASE UNCHANGED faults
    BY <2>1 DEF BoundTypes
  <2>2. CASE Fault("refuse")
    BY <2>2, FaultType
  <2> QED  BY <2>1, <2>2 DEF Refuse
<1>2. Session(IF c.verb \in Selecting THEN "none" ELSE srv.box)
  <2>1. srv \in SessionSet /\ "none" \in NoneOr /\ srv.box \in NoneOr
    BY DEF ServerTypes, SessionSet, NoneOr
  <2>2. (srv' = [Quiet EXCEPT !.box = "none"] /\ c.verb \in Selecting) \/ (srv' = Quiet /\ c.verb \notin Selecting)
    BY DEF Refuse, Selecting
  <2> QED  BY <2>1, <2>2, QuietSession
<1>3. PICK sent \in {{}} \cup (IF "partial" \in Faults /\ Legal(c) /\ c.verb = "UIDFETCH" THEN {Meant(c)} ELSE {}) :
        Reply(c, Lines([u \in sent |-> FetchLine(srv.box, u, Here.msgs[u], TRUE, <<>>)]), FALSE)
  BY DEF Refuse
<1> DEFINE L == IF "partial" \in Faults /\ Legal(c) /\ c.verb = "UIDFETCH" THEN Fetches(srv.box, box[srv.box].validity, {}) ELSE {}
           f == [u \in sent |-> FetchLine(srv.box, u, Here.msgs[u], TRUE, <<>>)]
<1>4. sent \in SUBSET Uids /\ \A u \in sent : f[u] \in L
  <2>1. CASE sent = {}
    BY <2>1
  <2>2. CASE sent # {}
    <3>1. "partial" \in Faults /\ Legal(c) /\ c.verb = "UIDFETCH" /\ sent = Meant(c)
      BY <1>3, <2>2
    <3>2. srv.box # "none"
      BY <3>1 DEF Legal, AnyTime, InMailbox
    <3>3. /\ srv.box \in Mailboxes /\ Meant(c) \in SUBSET DOMAIN Here.msgs /\ DOMAIN Here.msgs \in SUBSET Uids
          /\ \A u \in DOMAIN Here.msgs : Here.msgs[u] \in [mod : Nat, seen : BOOLEAN]
      BY <3>2, MeantIs
    <3>4. ASSUME NEW u \in sent
          PROVE  FetchLine(srv.box, u, Here.msgs[u], TRUE, <<>>) \in Fetches(srv.box, box[srv.box].validity, {})
      <4>1. u \in Uids \cap DOMAIN box[srv.box].msgs /\ Here.msgs[u] \in [mod : Nat, seen : BOOLEAN] /\ <<>> \in Bodies
        BY <3>1, <3>3 DEF Bodies, Here
      <4> QED  BY <3>3, <4>1, FetchLineIs
    <3> QED  BY <3>1, <3>3, <3>4
  <2> QED  BY <2>1, <2>2
<1>5. DOMAIN f = sent /\ Lines(f) \in Seq(L)
  <2>1. DOMAIN f = sent
    OBVIOUS
  <2> HIDE DEF f, L
  <2> QED  BY <1>4, <2>1, LinesOf
<1>6. L \in SUBSET ItemSet
  BY DEF Fetches
<1>7. Said(c.tag, L, FALSE)
  <2>1. in \in Seq(ItemSet) /\ Reply(c, Lines(f), FALSE)
    BY <1>3 DEF LinkTypes
  <2> HIDE DEF f, L
  <2>2. PICK lines \in Seq(L) : lines = Lines(f)
    BY <1>5
  <2>3. Reply(c, lines, FALSE) /\ FALSE \in BOOLEAN
    BY <2>1, <2>2
  <2> QED  BY <1>6, <2>1, <2>3, ReplySaid
<1> QED  BY <1>1, <1>2, <1>7 DEF Refuse

(* One line more has come.                                                 *)
Added(k) ==
  /\ in' \in Seq(ItemSet) /\ Len(in) \in Nat /\ Len(in') = Len(in) + 1
  /\ in'[Len(in) + 1].kind = k /\ ~in'[Len(in) + 1].slash
  /\ \A i \in 1..Len(in) : in'[i] = in[i]

LEMMA AddedLine ==
  ASSUME in \in Seq(ItemSet), NEW x \in ItemSet, ~x.slash, in' = Append(in, x)
  PROVE  Added(x.kind) /\ in'[Len(in) + 1] = x
<1>1. ItemSet \cup {x} = ItemSet
  OBVIOUS
<1>2. Len(in) \in Nat
  BY LenProperties
<1> QED  BY <1>1, <1>2, Answered DEF Added

LEMMA RefuseXOAuth2Served ==
  ASSUME LinkTypes, ServerTypes, BoundTypes, NEW c \in LineSet, RefuseXOAuth2(c)
  PROVE  /\ faults' \in 0..MaxFaults /\ net' = net /\ box' = box /\ Added("plus") /\ c.verb = "XOAUTH2"
         /\ srv' \in SessionSet /\ srv'.news = srv.news /\ srv'.box = srv.box /\ srv'.idle = srv.idle /\ srv'.sasl
         /\ srv'.literal = srv.literal
<1>1. faults' \in 0..MaxFaults
  BY FaultType DEF RefuseXOAuth2
<1>2. Added("plus")
  <2>1. PICK x \in ItemSet : x = Item("plus") /\ x.kind = "plus" /\ ~x.slash
    BY ServerItems DEF Item
  <2>2. in' = Append(in, x) /\ in \in Seq(ItemSet)
    BY <2>1 DEF RefuseXOAuth2, LinkTypes
  <2> QED  BY <2>1, <2>2, AddedLine
<1>3. c.tag \in Nat /\ srv \in SessionSet /\ srv' = [srv EXCEPT !.sasl = TRUE, !.cont = c.tag]
  BY DEF RefuseXOAuth2, ServerTypes, LineSet
<1>4. /\ srv' \in SessionSet /\ srv'.news = srv.news /\ srv'.box = srv.box /\ srv'.idle = srv.idle /\ srv'.sasl
      /\ srv'.literal = srv.literal
  BY <1>3 DEF SessionSet
<1> QED  BY <1>1, <1>2, <1>4 DEF RefuseXOAuth2

(* The command that begins to idle: a "+", then what was pending.          *)
BeginsIdle ==
  /\ in' \in Seq(ItemSet) /\ Len(in) \in Nat /\ Len(in') = Len(in) + 1 + Len(srv.news)
  /\ in'[Len(in) + 1].kind = "plus" /\ ~in'[Len(in) + 1].slash
  /\ \A i \in 1..Len(in) : in'[i] = in[i]
  /\ \A i \in Len(in) + 2..Len(in') : in'[i] = srv.news[i - Len(in) - 1] /\ i - Len(in) - 1 \in DOMAIN srv.news

LEMMA ServeSessionServed ==
  ASSUME LinkTypes, ServerTypes, BoundTypes, net = "up", NEW c \in LineSet, ServeSession(c)
  PROVE  /\ faults' \in 0..MaxFaults /\ net' \in {"up", "cut"} /\ box' = box /\ srv' \in SessionSet /\ srv'.box = srv.box
         /\ \/ /\ c.verb = "APPEND" /\ Added("plus") /\ srv'.news = srv.news
               /\ srv'.idle = srv.idle /\ srv'.sasl = srv.sasl /\ net' = net
            \/ /\ c.verb = "IDLE" /\ BeginsIdle /\ srv'.news = <<>> /\ net' = net
               /\ srv'.idle = c.tag /\ srv'.sasl = srv.sasl /\ srv'.literal = srv.literal
            \/ Said(c.tag, Plain, TRUE) /\ Session(srv.box) /\ c.verb \notin {"APPEND", "IDLE", "UIDFETCH"} \cup Selecting
<1>1. faults' \in 0..MaxFaults /\ net' \in {"up", "cut"} /\ box' = box /\ srv \in SessionSet /\ in \in Seq(ItemSet)
      /\ (c.verb # "LOGOUT" => net' = net) /\ c.tag \in Nat /\ c.box \in NoneOr
  BY DEF ServeSession, BoundTypes, ServerTypes, LinkTypes, LineSet
<1>2. CASE c.verb = "APPEND" /\ in' = Append(in, Item("plus")) /\ srv' = [srv EXCEPT !.literal = c.box, !.cont = c.tag]
  <2>1. Added("plus")
    <3>1. PICK x \in ItemSet : x = Item("plus") /\ x.kind = "plus" /\ ~x.slash
      BY ServerItems DEF Item
    <3>2. in' = Append(in, x)
      BY <1>2, <3>1
    <3> QED  BY <1>1, <3>1, <3>2, AddedLine
  <2>2. srv' \in SessionSet /\ srv'.box = srv.box /\ srv'.news = srv.news /\ srv'.idle = srv.idle /\ srv'.sasl = srv.sasl
    BY <1>1, <1>2 DEF SessionSet
  <2> QED  BY <1>1, <1>2, <2>1, <2>2
<1>3. CASE c.verb = "IDLE" /\ in' = in \o <<Item("plus")>> \o srv.news /\ srv' = [Quiet EXCEPT !.idle = c.tag]
  <2>1. BeginsIdle
    <3>1. PICK x \in ItemSet : x = Item("plus") /\ x.kind = "plus" /\ ~x.slash
      BY ServerItems DEF Item
    <3>2. <<x>> \in Seq(ItemSet) /\ Len(<<x>>) = 1 /\ <<x>>[1] = x /\ Len(in) \in Nat
      BY <1>1, LenProperties
    <3>3. PICK n \in Seq(ItemSet) : n = srv.news /\ Len(n) \in Nat /\ DOMAIN n = 1..Len(n)
      BY <1>1, LenProperties DEF SessionSet
    <3>4. /\ in \o <<x>> \in Seq(ItemSet) /\ Len(in \o <<x>>) = Len(in) + 1
          /\ \A i \in 1..Len(in) + 1 : (in \o <<x>>)[i] = IF i <= Len(in) THEN in[i] ELSE <<x>>[i - Len(in)]
      BY <1>1, <3>2, ConcatProperties
    <3>5. PICK p \in Seq(ItemSet) : p = in \o <<x>>
      BY <3>4
    <3>6. /\ p \o n \in Seq(ItemSet) /\ Len(p \o n) = Len(p) + Len(n)
          /\ \A i \in 1..Len(p) + Len(n) : (p \o n)[i] = IF i <= Len(p) THEN p[i] ELSE n[i - Len(p)]
      BY ConcatProperties
    <3>7. in' = p \o n /\ Len(p) = Len(in) + 1
      BY <1>3, <3>1, <3>3, <3>4, <3>5
    <3>11. Len(in) \in Nat /\ Len(n) \in Nat /\ Len(p) = Len(in) + 1 /\ Len(in') = Len(in) + 1 + Len(n)
      BY <3>2, <3>3, <3>6, <3>7
    <3>8. p[Len(in) + 1] = x /\ \A i \in 1..Len(in) : p[i] = in[i]
      <4>1. Len(in) + 1 - Len(in) = 1 /\ ~(Len(in) + 1 <= Len(in)) /\ \A i \in 1..Len(in) : i \in 1..Len(in) + 1 /\ i <= Len(in)
        BY <3>2
      <4> QED  BY <3>2, <3>4, <3>5, <4>1
    <3>9. in'[Len(in) + 1] = x /\ \A i \in 1..Len(in) : in'[i] = in[i]
      <4>1. \A i \in 1..Len(in) + 1 : i \in 1..Len(p) + Len(n) /\ i <= Len(p)
        BY <3>11
      <4>2. \A i \in 1..Len(in) + 1 : in'[i] = p[i]
        BY <3>6, <3>7, <4>1
      <4> QED  BY <3>2, <3>8, <4>2
    <3>10. \A i \in Len(in) + 2..Len(in') : in'[i] = n[i - Len(in) - 1] /\ i - Len(in) - 1 \in DOMAIN n
      <4> SUFFICES ASSUME NEW i \in Len(in) + 2..Len(in') PROVE in'[i] = n[i - Len(in) - 1] /\ i - Len(in) - 1 \in DOMAIN n
        OBVIOUS
      <4>1. i \in 1..Len(p) + Len(n) /\ ~(i <= Len(p)) /\ i - Len(p) = i - Len(in) - 1 /\ i - Len(in) - 1 \in 1..Len(n)
        BY <3>11
      <4> QED  BY <3>3, <3>6, <3>7, <4>1
    <3> QED  BY <3>1, <3>2, <3>3, <3>6, <3>7, <3>9, <3>10 DEF BeginsIdle
  <2>2. PICK q \in SessionSet : q = Quiet /\ q.news = <<>> /\ q.box = srv.box
        /\ q.idle = srv.idle /\ q.sasl = srv.sasl /\ q.literal = srv.literal
    BY <1>1, QuietType
  <2>3. srv' = [q EXCEPT !.idle = c.tag]
    BY <1>3, <2>2
  <2>4. srv' \in SessionSet /\ srv'.box = q.box /\ srv'.news = q.news /\ srv'.idle = c.tag /\ srv'.sasl = q.sasl /\ srv'.literal = q.literal
    BY <1>1, <2>3 DEF SessionSet
  <2> QED  BY <1>1, <1>3, <2>1, <2>2, <2>4
<1>4. CASE /\ c.verb \in AnyTime \cup {"ENABLE", "SIMPLE"}
           /\ Reply(c, IF c.verb \in {"CAPABILITY", "CAPABILITY2", "CAPABILITY3"} THEN <<CapsLine>> ELSE <<>>, TRUE)
           /\ srv' = [Quiet EXCEPT !.auth = @ \/ c.verb \in {"LOGIN", "XOAUTH2"}, !.qresync = @ \/ c.verb = "ENABLE"]
  <2>1. Said(c.tag, Plain, TRUE)
    <3>1. PICK lines \in Seq(Plain) : lines = (IF c.verb \in {"CAPABILITY", "CAPABILITY2", "CAPABILITY3"} THEN <<CapsLine>> ELSE <<>>)
      <4>1. CapsLine \in Plain
        <5>1. CapsLine \in ItemSet /\ CapsLine.kind = "caps" /\ ~CapsLine.slash
          BY ServerItems
        <5> QED  BY <5>1 DEF Plain
      <4>2. <<CapsLine>> \in Seq(Plain) /\ <<>> \in Seq(Plain)
        BY <4>1, EmptySeq
      <4> QED  BY <4>2
    <3>2. Reply(c, lines, TRUE) /\ Plain \in SUBSET ItemSet /\ TRUE \in BOOLEAN
      BY <1>4, <3>1 DEF Plain
    <3> QED  BY <1>1, <3>2, ReplySaid
  <2>2. PICK q \in SessionSet : q = Quiet /\ q.news = <<>> /\ q.box = srv.box
        /\ q.idle = srv.idle /\ q.sasl = srv.sasl /\ q.literal = srv.literal
    BY <1>1, QuietType
  <2>3. PICK a \in BOOLEAN, b \in BOOLEAN : srv' = [q EXCEPT !.auth = a, !.qresync = b]
    <3>1. (q.auth \/ c.verb \in {"LOGIN", "XOAUTH2"}) \in BOOLEAN /\ (q.qresync \/ c.verb = "ENABLE") \in BOOLEAN
      BY Zenon
    <3>2. srv' = [q EXCEPT !.auth = q.auth \/ c.verb \in {"LOGIN", "XOAUTH2"}, !.qresync = q.qresync \/ c.verb = "ENABLE"]
      BY <1>4, <2>2, Zenon
    <3> QED  BY <3>1, <3>2, Zenon
  <2>4. Session(srv.box) /\ srv'.box = srv.box
    BY <2>2, <2>3 DEF SessionSet, Session
  <2>5. c.verb \notin {"APPEND", "IDLE", "UIDFETCH"} \cup Selecting
    BY <1>4 DEF AnyTime, Selecting
  <2> QED  BY <1>1, <2>1, <2>4, <2>5 DEF Session
<1>5. \/ c.verb = "APPEND" /\ in' = Append(in, Item("plus")) /\ srv' = [srv EXCEPT !.literal = c.box, !.cont = c.tag]
      \/ c.verb = "IDLE" /\ in' = in \o <<Item("plus")>> \o srv.news /\ srv' = [Quiet EXCEPT !.idle = c.tag]
      \/ /\ c.verb \in AnyTime \cup {"ENABLE", "SIMPLE"}
         /\ Reply(c, IF c.verb \in {"CAPABILITY", "CAPABILITY2", "CAPABILITY3"} THEN <<CapsLine>> ELSE <<>>, TRUE)
         /\ srv' = [Quiet EXCEPT !.auth = @ \/ c.verb \in {"LOGIN", "XOAUTH2"}, !.qresync = @ \/ c.verb = "ENABLE"]
  BY Zenon DEF ServeSession
<1> QED  BY <1>2, <1>3, <1>4, <1>5

(* The lines of the messages S of mailbox m.                               *)
LEMMA FetchLines ==
  ASSUME NEW S \in SUBSET Uids, NEW L, NEW f, DOMAIN f = S, \A u \in S : f[u] \in L
  PROVE  Lines(f) \in Seq(L)
BY LinesOf

LEMMA FirstOfAll ==
  ASSUME NEW T, NEW x \in T, NEW k \in Seq(T), NEW l \in Seq(T)
  PROVE  <<x>> \o k \o l \in Seq(T) /\ Len(<<x>> \o k \o l) \in Nat /\ Len(<<x>> \o k \o l) >= 1 /\ (<<x>> \o k \o l)[1] = x
<1>1. <<x>> \in Seq(T) /\ Len(<<x>>) = 1 /\ <<x>>[1] = x
  OBVIOUS
<1>2. PICK h \in Seq(T) : h = <<x>> /\ Len(h) = 1 /\ h[1] = x
  BY <1>1
<1>3. /\ h \o k \in Seq(T) /\ Len(h \o k) = Len(h) + Len(k)
      /\ \A i \in 1..Len(h) + Len(k) : (h \o k)[i] = IF i <= Len(h) THEN h[i] ELSE k[i - Len(h)]
  BY ConcatProperties
<1>4. PICK p \in Seq(T) : p = h \o k
  BY <1>3
<1>5. /\ p \o l \in Seq(T) /\ Len(p \o l) = Len(p) + Len(l)
      /\ \A i \in 1..Len(p) + Len(l) : (p \o l)[i] = IF i <= Len(p) THEN p[i] ELSE l[i - Len(p)]
  BY ConcatProperties
<1>6. Len(k) \in Nat /\ Len(l) \in Nat
  BY LenProperties
<1>7. Len(p) \in Nat /\ Len(p) >= 1 /\ p[1] = x
  BY <1>2, <1>3, <1>4, <1>6
<1>8. Len(p \o l) \in Nat /\ Len(p \o l) >= 1 /\ (p \o l)[1] = x
  BY <1>5, <1>6, <1>7
<1> QED  BY <1>2, <1>4, <1>5, <1>8

Picked(v) == {x \in ItemSet : x.kind = "selected" /\ x.data.validity = v}

LEMMA ServeSelectServed ==
  ASSUME LinkTypes, ServerTypes, BoundTypes, NEW c \in LineSet, ServeSelect(c)
  PROVE  /\ c.verb \in Selecting /\ c.box \in Mailboxes /\ faults' \in 0..MaxFaults /\ net' = net /\ box' = box
         /\ Session(c.box)
         /\ Said(c.tag, Picked(box[c.box].validity) \cup Plain \cup Fetches(c.box, box[c.box].validity, {}), TRUE)
         /\ \E i \in 1..Len(in') : i > Len(in) + Len(srv.news) /\ in'[i].kind = "selected"
<1>1. c.verb \in Selecting /\ c.box \in Mailboxes /\ UNCHANGED <<net, box, faults>> /\ srv' = [Quiet EXCEPT !.box = c.box]
  BY DEF ServeSelect, LineSet, Selecting
<1>2. Session(c.box)
  BY <1>1, QuietSession DEF ServerTypes, NoneOr
<1>3. PICK b \in BoxSet : b = box[c.box]
  BY <1>1 DEF ServerTypes
<1> DEFINE L == Picked(b.validity) \cup Plain \cup Fetches(c.box, b.validity, {})
           same == c.verb = "SELECT_QRESYNC" /\ c.validity = b.validity
           dead == IF same THEN {u \in c.known \cap DOMAIN b.gone : b.gone[u] > c.since} ELSE {}
           changed == IF same THEN {u \in DOMAIN b.msgs : b.msgs[u].mod > c.since} ELSE {}
           sel == [Item("selected") EXCEPT !.slash = TRUE, !.data = [validity |-> b.validity, next |-> b.next, modseq |-> b.modseq]]
           f == [u \in changed |-> FetchLine(c.box, u, b.msgs[u], FALSE, <<>>)]
<1>4. dead \in SUBSET Uids /\ changed \in SUBSET Uids /\ \A u \in changed : b.msgs[u] \in [mod : Nat, seen : BOOLEAN]
  <2>1. PICK D \in SUBSET Uids : b.msgs \in [D -> [mod : Nat, seen : BOOLEAN]]
    BY DEF BoxSet
  <2>2. PICK G \in SUBSET Uids : b.gone \in [G -> Nat]
    BY DEF BoxSet
  <2>3. DOMAIN b.msgs = D /\ DOMAIN b.gone = G
    BY <2>1, <2>2
  <2>4. changed \in SUBSET D /\ dead \in SUBSET G
    BY <2>3
  <2> HIDE DEF changed, dead
  <2> QED  BY <2>1, <2>4
<1>5. sel \in Picked(b.validity)
  <2> DEFINE d == [validity |-> b.validity, next |-> b.next, modseq |-> b.modseq]
  <2>1. d \in SelectData /\ d.validity = b.validity
    BY DEF SelectData, BoxSet
  <2>2. sel = [Item("selected") EXCEPT !.slash = TRUE, !.data = d]
    OBVIOUS
  <2> HIDE DEF d, sel
  <2>3. sel = [kind |-> "selected", tag |-> 0, ok |-> TRUE, slash |-> TRUE, uids |-> {}, data |-> d]
    BY <2>2 DEF Item
  <2>4. sel \in ItemSet /\ sel.kind = "selected" /\ sel.data = d
    BY <2>1, <2>3 DEF ItemSet
  <2> QED  BY <2>1, <2>4 DEF Picked
<1>6. PICK l1 \in Seq(L) : l1 = (IF dead = {} THEN <<>> ELSE <<Vanished(c.box, dead)>>)
  <2>1. CASE dead = {}
    BY <2>1, EmptySeq
  <2>2. CASE dead # {}
    <3>1. PICK x : x = Vanished(c.box, dead)
      OBVIOUS
    <3>2. x \in ItemSet /\ x.kind \in {"VANISHED", "EXPUNGE"} /\ ~x.slash
      <4> HIDE DEF dead
      <4> QED  BY <1>1, <1>4, <3>1, ServerItems
    <3>5. x.uids = dead /\ x.data[1] = c.box /\ x.data[2] = b.validity
      <4> HIDE DEF dead
      <4> QED  BY <1>1, <1>3, <1>4, <3>1, VanishedIs
    <3>6. Vanishes(x, box')
      <4>1. dead \subseteq DOMAIN b.gone
        OBVIOUS
      <4> HIDE DEF dead
      <4> QED  BY <1>1, <1>3, <3>5, <4>1 DEF Vanishes
    <3>3. x \in L
      BY <3>2, <3>6 DEF Plain
    <3> HIDE DEF L
    <3>4. <<x>> \in Seq(L)
      BY <3>3
    <3> QED  BY <2>2, <3>1, <3>4
  <2> QED  BY <2>1, <2>2
<1>7. PICK l2 \in Seq(L) : l2 = Lines(f)
  <2>1. DOMAIN f = changed
    OBVIOUS
  <2>2. \A u \in changed : f[u] \in L
    <3> SUFFICES ASSUME NEW u \in changed PROVE f[u] \in L
      OBVIOUS
    <3>1. f[u] = FetchLine(c.box, u, b.msgs[u], FALSE, <<>>)
      OBVIOUS
    <3>2. u \in Uids \cap DOMAIN b.msgs /\ b.msgs[u] \in [mod : Nat, seen : BOOLEAN] /\ <<>> \in Bodies /\ FALSE \in BOOLEAN
      BY <1>4 DEF Bodies
    <3> HIDE DEF f, changed
    <3>3. PICK msg \in [mod : Nat, seen : BOOLEAN] : msg = b.msgs[u]
      BY <3>2
    <3>4. FetchLine(c.box, u, msg, FALSE, <<>>) \in Fetches(c.box, box[c.box].validity, {})
      BY <1>1, <1>3, <3>2, FetchLineIs
    <3> QED  BY <1>3, <3>1, <3>3, <3>4
  <2> HIDE DEF f, L, changed
  <2> QED  BY <1>4, <2>1, <2>2, FetchLines
<1>8. sel \in L
  BY <1>5
<1>9. Reply(c, <<sel>> \o l1 \o l2, TRUE)
  <2>1. Reply(c, <<sel>> \o (IF dead = {} THEN <<>> ELSE <<Vanished(c.box, dead)>>) \o Lines(f), TRUE)
    BY <1>3 DEF ServeSelect
  <2> HIDE DEF sel, dead, f
  <2> QED  BY <1>6, <1>7, <2>1
<1>10. L \in SUBSET ItemSet /\ sel.kind = "selected"
  BY <1>5 DEF Picked, Plain, Fetches
<1> HIDE DEF L, f, dead, changed, same, sel
<1>11. PICK lines \in Seq(L) : lines = <<sel>> \o l1 \o l2 /\ Len(lines) \in Nat /\ Len(lines) >= 1 /\ lines[1] = sel
  <2>1. <<sel>> \o l1 \o l2 \in Seq(L) /\ Len(<<sel>> \o l1 \o l2) \in Nat /\ Len(<<sel>> \o l1 \o l2) >= 1
        /\ (<<sel>> \o l1 \o l2)[1] = sel
    BY <1>8, FirstOfAll
  <2> QED  BY <2>1
<1>12. /\ Said(c.tag, L, TRUE) /\ Len(in') = Len(in) + Len(srv.news) + Len(lines) + 1
       /\ \A i \in 1..Len(lines) : in'[Len(in) + Len(srv.news) + i] = lines[i]
  <2>1. Reply(c, lines, TRUE) /\ in \in Seq(ItemSet)
    BY <1>9, <1>11 DEF LinkTypes
  <2> QED  BY <1>10, <2>1, ReplySaid
<1>13. \E i \in 1..Len(in') : i > Len(in) + Len(srv.news) /\ in'[i].kind = "selected"
  <2>1. Len(in) \in Nat /\ Len(srv.news) \in Nat /\ Len(in') \in Nat
    BY <1>12, LenProperties DEF LinkTypes, ServerTypes, SessionSet, Said
  <2>2. PICK i \in Nat : i = Len(in) + Len(srv.news) + 1
    BY <2>1
  <2>3. Len(lines) \in Nat /\ Len(lines) >= 1 /\ Len(in') = Len(in) + Len(srv.news) + Len(lines) + 1
    BY <1>11, <1>12
  <2>4. i \in 1..Len(in') /\ i > Len(in) + Len(srv.news) /\ 1 \in 1..Len(lines)
    BY <2>1, <2>2, <2>3
  <2>5. in'[i] = lines[1]
    BY <1>12, <2>2, <2>4
  <2> QED  BY <1>10, <1>11, <2>4, <2>5
<1> QED  BY <1>1, <1>2, <1>3, <1>12, <1>13 DEF L, BoundTypes

LEMMA ServeFetchServed ==
  ASSUME LinkTypes, ServerTypes, BoundTypes, NEW c \in LineSet, Legal(c), ServeFetch(c)
  PROVE  /\ c.verb \in {"UIDFETCH", "CHANGEDSINCE", "BODY"} /\ srv.box \in Mailboxes /\ faults' \in 0..MaxFaults /\ net' = net /\ Boxes
         /\ Session(srv.box)
         /\ Said(c.tag, Fetches(srv.box, box[srv.box].validity, IF c.verb = "BODY" THEN Meant(c) ELSE {}), TRUE)
<1>1. c.verb \in {"UIDFETCH", "CHANGEDSINCE", "BODY"} /\ srv' = Quiet /\ UNCHANGED <<net, faults>> /\ srv.box # "none"
  BY DEF ServeFetch, Legal, AnyTime, InMailbox
<1>2. /\ srv.box \in Mailboxes /\ Here \in BoxSet /\ Meant(c) \in SUBSET DOMAIN Here.msgs /\ DOMAIN Here.msgs \in SUBSET Uids
      /\ \A u \in DOMAIN Here.msgs : Here.msgs[u] \in [mod : Nat, seen : BOOLEAN]
      /\ Here.validity = box[srv.box].validity
  BY <1>1, MeantIs
<1>3. Session(srv.box)
  BY <1>1, <1>2, QuietSession DEF ServerTypes, NoneOr
<1>4. PICK S : S = {u \in Meant(c) : Here.msgs[u].mod > c.since}
  OBVIOUS
<1>5. PICK b : b = IF c.verb = "BODY" /\ \E u \in S : ~Here.msgs[u].seen THEN Mark(Here, S, TRUE) ELSE Here
  OBVIOUS
<1>6. /\ b \in BoxSet /\ b.validity = box[srv.box].validity /\ Ages(Here, b)
      /\ \A u \in DOMAIN Here.msgs : b.msgs[u] \in [mod : Nat, seen : BOOLEAN]
  <2>1. CASE b = Mark(Here, S, TRUE)
    <3>1. PICK read \in BOOLEAN : read = TRUE
      OBVIOUS
    <3>2. b = Mark(Here, S, read)
      BY <2>1, <3>1
    <3> QED  BY <1>2, <3>2, MarkType, MarkAges
  <2>2. CASE b = Here
    BY <1>2, <2>2, StaysAges
  <2> QED  BY <1>5, <2>1, <2>2
<1> DEFINE B == IF c.verb = "BODY" THEN Meant(c) ELSE {}
           L == Fetches(srv.box, box[srv.box].validity, B)
           f == [u \in S |-> FetchLine(srv.box, u, b.msgs[u], c.verb # "BODY",
                      IF c.verb = "BODY" THEN <<srv.box, b.validity, u>> ELSE <<>>)]
<1>7. S \in SUBSET Meant(c) /\ S \in SUBSET Uids
  BY <1>2, <1>4
<1>8. box' = [box EXCEPT ![srv.box] = b] /\ Reply(c, Lines(f), TRUE)
  BY <1>4, <1>5 DEF ServeFetch
<1>9. Boxes
  BY <1>2, <1>6, <1>8, OneBoxAges DEF Here
<1>10. \A u \in S : f[u] \in L
  <2> SUFFICES ASSUME NEW u \in S PROVE f[u] \in L
    OBVIOUS
  <2>1. PICK body : body = IF c.verb = "BODY" THEN <<srv.box, b.validity, u>> ELSE <<>>
    OBVIOUS
  <2>2. PICK env \in BOOLEAN : env <=> (c.verb # "BODY")
    OBVIOUS
  <2>3. u \in Uids /\ u \in Meant(c) /\ b.validity \in Nat /\ u \in DOMAIN box[srv.box].msgs
    BY <1>2, <1>6, <1>7 DEF BoxSet, Here
  <2>4. PICK msg \in [mod : Nat, seen : BOOLEAN] : msg = b.msgs[u]
    BY <1>2, <1>6, <2>3
  <2>5. body \in Bodies /\ (body # <<>> => u \in B /\ body = <<srv.box, box[srv.box].validity, u>>)
    BY <1>2, <1>6, <2>1, <2>3 DEF Bodies
  <2>6. f[u] = FetchLine(srv.box, u, msg, env, body)
    <3>1. f[u] = FetchLine(srv.box, u, b.msgs[u], c.verb # "BODY", body)
      BY <2>1
    <3>2. env = (c.verb # "BODY")
      BY <2>2
    <3> HIDE DEF f
    <3> QED  BY <2>4, <3>1, <3>2
  <2> HIDE DEF f, B
  <2>7. FetchLine(srv.box, u, msg, env, body) \in Fetches(srv.box, box[srv.box].validity, B)
    BY <1>2, <2>3, <2>5, FetchLineIs
  <2> QED  BY <2>6, <2>7
<1>11. PICK lines \in Seq(L) : lines = Lines(f)
  <2>1. DOMAIN f = S
    OBVIOUS
  <2> HIDE DEF f, L
  <2> QED  BY <1>7, <1>10, <2>1, FetchLines
<1>12. L \in SUBSET ItemSet
  BY DEF Fetches
<1> HIDE DEF L, f
<1>13. Said(c.tag, L, TRUE)
  BY <1>8, <1>11, <1>12, ReplySaid DEF LinkTypes
<1> QED  BY <1>1, <1>2, <1>3, <1>9, <1>13 DEF L, BoundTypes

LEMMA ServeStoreServed ==
  ASSUME LinkTypes, ServerTypes, BoundTypes, NEW c \in LineSet, Legal(c), ServeStore(c)
  PROVE  /\ c.verb = "UIDSTORE" /\ srv.box \in Mailboxes /\ faults' \in 0..MaxFaults /\ net' = net /\ Boxes /\ Session(srv.box)
         /\ Said(c.tag, Fetches(srv.box, box[srv.box].validity, {}), TRUE)
<1>1. c.verb = "UIDSTORE" /\ srv' = Quiet /\ UNCHANGED <<net, faults>> /\ srv.box # "none"
  BY DEF ServeStore, Legal, AnyTime, InMailbox
<1>2. /\ srv.box \in Mailboxes /\ Here \in BoxSet /\ Meant(c) \in SUBSET DOMAIN Here.msgs /\ DOMAIN Here.msgs \in SUBSET Uids
      /\ \A u \in DOMAIN Here.msgs : Here.msgs[u] \in [mod : Nat, seen : BOOLEAN]
      /\ Here.validity = box[srv.box].validity
  BY <1>1, MeantIs
<1>3. Session(srv.box)
  BY <1>1, <1>2, QuietSession DEF ServerTypes, NoneOr
<1>4. PICK S : S = {u \in Meant(c) : Here.msgs[u].seen # c.opt}
  OBVIOUS
<1>5. PICK b : b = IF S = {} THEN Here ELSE Mark(Here, S, c.opt)
  OBVIOUS
<1>6. /\ b \in BoxSet /\ b.validity = box[srv.box].validity /\ Ages(Here, b)
      /\ \A u \in DOMAIN Here.msgs : b.msgs[u] \in [mod : Nat, seen : BOOLEAN]
  <2>1. c.opt \in BOOLEAN
    BY DEF LineSet
  <2> QED  BY <1>2, <1>5, <2>1, MarkType, MarkAges, StaysAges
<1> DEFINE L == Fetches(srv.box, box[srv.box].validity, {})
           f == [u \in S |-> FetchLine(srv.box, u, b.msgs[u], FALSE, <<>>)]
<1>7. S \in SUBSET Meant(c) /\ S \in SUBSET Uids
  BY <1>2, <1>4
<1>8. box' = [box EXCEPT ![srv.box] = b] /\ Reply(c, Lines(f), TRUE)
  BY <1>4, <1>5 DEF ServeStore
<1>9. Boxes
  BY <1>2, <1>6, <1>8, OneBoxAges DEF Here
<1>10. \A u \in S : f[u] \in L
  <2> SUFFICES ASSUME NEW u \in S PROVE f[u] \in L
    OBVIOUS
  <2>1. u \in Uids /\ <<>> \in Bodies /\ FALSE \in BOOLEAN /\ u \in DOMAIN box[srv.box].msgs
    BY <1>2, <1>7 DEF Bodies, Here
  <2>2. PICK msg \in [mod : Nat, seen : BOOLEAN] : msg = b.msgs[u]
    BY <1>2, <1>6, <1>7
  <2>3. f[u] = FetchLine(srv.box, u, msg, FALSE, <<>>)
    BY <2>2
  <2>4. FetchLine(srv.box, u, msg, FALSE, <<>>) \in Fetches(srv.box, box[srv.box].validity, {})
    BY <1>2, <2>1, FetchLineIs
  <2> QED  BY <2>3, <2>4
<1>11. PICK lines \in Seq(L) : lines = Lines(f)
  <2>1. DOMAIN f = S
    OBVIOUS
  <2> HIDE DEF f, L
  <2> QED  BY <1>7, <1>10, <2>1, FetchLines
<1>12. L \in SUBSET ItemSet
  BY DEF Fetches
<1> HIDE DEF L, f
<1>13. Said(c.tag, L, TRUE)
  BY <1>8, <1>11, <1>12, ReplySaid DEF LinkTypes
<1> QED  BY <1>1, <1>2, <1>3, <1>9, <1>13 DEF L, BoundTypes

LEMMA ServeRemovalServed ==
  ASSUME LinkTypes, ServerTypes, BoundTypes, NEW c \in LineSet, Legal(c), ServeRemoval(c)
  PROVE  /\ c.verb \in {"UIDMOVE", "EXPUNGE", "UIDEXPUNGE", "CLOSE"} /\ faults' \in 0..MaxFaults /\ net' = net /\ Boxes
         /\ Session(IF c.verb = "CLOSE" THEN "none" ELSE srv.box) /\ Said(c.tag, Plain, TRUE)
         /\ c.verb = "UIDMOVE" => srv.box \in Mailboxes /\ c.uids \cap DOMAIN box'[srv.box].msgs = {}
<1>1. /\ c.verb \in {"UIDMOVE", "EXPUNGE", "UIDEXPUNGE", "CLOSE"} /\ UNCHANGED <<net, faults>> /\ srv.box # "none"
      /\ srv' = IF c.verb = "CLOSE" THEN [Quiet EXCEPT !.box = "none"] ELSE Quiet
  BY DEF ServeRemoval, Legal, AnyTime, InMailbox
<1>2. /\ srv.box \in Mailboxes /\ Here \in BoxSet /\ Meant(c) \in SUBSET DOMAIN Here.msgs /\ DOMAIN Here.msgs \in SUBSET Uids
  BY <1>1, MeantIs
<1>3. Session(IF c.verb = "CLOSE" THEN "none" ELSE srv.box)
  <2>1. srv \in SessionSet /\ "none" \in NoneOr /\ srv.box \in NoneOr
    BY DEF ServerTypes, SessionSet, NoneOr
  <2> QED  BY <1>1, <2>1, QuietSession
<1>4. PICK S \in SUBSET Uids :
        /\ S \subseteq DOMAIN Here.msgs /\ (c.verb = "UIDMOVE" => S = Meant(c))
        /\ box' = IF S = {} THEN box ELSE [box EXCEPT ![srv.box] = Drop(box[srv.box], S)]
        /\ Reply(c, IF S = {} \/ c.verb = "CLOSE" THEN <<>> ELSE <<Vanished(srv.box, S)>>, TRUE)
  <2>1. PICK S \in IF c.verb = "UIDMOVE" THEN {Meant(c)} ELSE {{}, IF c.verb = "UIDEXPUNGE" THEN Meant(c) ELSE DOMAIN Here.msgs} :
          /\ box' = IF S = {} THEN box ELSE [box EXCEPT ![srv.box] = Drop(box[srv.box], S)]
          /\ Reply(c, IF S = {} \/ c.verb = "CLOSE" THEN <<>> ELSE <<Vanished(srv.box, S)>>, TRUE)
    BY DEF ServeRemoval
  <2>2. S \in {{}, Meant(c), DOMAIN Here.msgs}
    BY <2>1
  <2>3. S \in SUBSET Uids /\ S \subseteq DOMAIN Here.msgs /\ (c.verb = "UIDMOVE" => S = Meant(c))
    BY <1>2, <2>1, <2>2
  <2> QED  BY <2>1, <2>3
<1> DEFINE dropped == Drop(box[srv.box], S)
<1>8. dropped \in BoxSet /\ dropped.validity = box[srv.box].validity
  BY <1>2, DropType DEF Here
<1>9. /\ Ages(box[srv.box], dropped)
      /\ DOMAIN dropped.msgs = DOMAIN Here.msgs \ S /\ S \subseteq DOMAIN dropped.gone
  BY <1>2, <1>4, DropAges DEF Here
<1> HIDE DEF dropped
<1>10. box' = IF S = {} THEN box ELSE [box EXCEPT ![srv.box] = dropped]
  BY <1>4 DEF dropped
<1>5. Boxes
  BY <1>2, <1>8, <1>9, <1>10, SameBoxesAge, OneBoxAges
<1>11. S # {} => box'[srv.box] = dropped
  BY <1>2, <1>10 DEF ServerTypes
<1>12. c.verb = "UIDMOVE" => c.uids \cap DOMAIN box'[srv.box].msgs = {}
  <2> SUFFICES ASSUME c.verb = "UIDMOVE", NEW u \in c.uids, u \in DOMAIN box'[srv.box].msgs PROVE FALSE
    OBVIOUS
  <2>1. u \in DOMAIN Here.msgs \ S
    BY <1>9, <1>10, <1>11 DEF Here
  <2>2. u \in Meant(c)
    BY <2>1 DEF Meant
  <2> QED  BY <1>4, <2>1, <2>2
<1>6. PICK lines \in Seq(Plain) : lines = IF S = {} \/ c.verb = "CLOSE" THEN <<>> ELSE <<Vanished(srv.box, S)>>
  <2>1. CASE S = {}
    BY <2>1, EmptySeq
  <2>2. CASE S # {}
    <3>1. PICK x : x = Vanished(srv.box, S)
      OBVIOUS
    <3>2. /\ x \in ItemSet /\ x.kind \in {"VANISHED", "EXPUNGE"} /\ ~x.slash /\ x.uids = S
          /\ x.data[1] = srv.box /\ x.data[2] = box[srv.box].validity
      BY <1>2, <3>1, VanishedIs
    <3>3. Vanishes(x, box')
      BY <1>8, <1>9, <1>11, <2>2, <3>2 DEF Vanishes
    <3>4. x \in Plain
      BY <3>2, <3>3 DEF Plain
    <3>5. <<x>> \in Seq(Plain) /\ <<>> \in Seq(Plain)
      BY <3>4, EmptySeq
    <3> QED  BY <3>1, <3>5
  <2> QED  BY <2>1, <2>2
<1>7. Said(c.tag, Plain, TRUE)
  <2>1. Plain \in SUBSET ItemSet /\ Reply(c, lines, TRUE)
    BY <1>4, <1>6 DEF Plain
  <2> QED  BY <2>1, ReplySaid DEF LinkTypes
<1> QED  BY <1>1, <1>2, <1>3, <1>5, <1>7, <1>12 DEF BoundTypes

LEMMA ServeContinuationServed ==
  ASSUME LinkTypes, ServerTypes, BoundTypes, NEW c \in LineSet, ServeContinuation(c)
  PROVE  /\ faults' \in 0..MaxFaults /\ net' = net /\ Boxes /\ srv' \in SessionSet /\ srv'.box = srv.box
         /\ \/ srv.literal # "none" /\ Said(srv.cont, {}, TRUE) /\ srv'.news = <<>> /\ srv'.literal = "none"
               /\ srv'.idle = srv.idle /\ srv'.sasl = srv.sasl
            \/ srv.sasl /\ Added("tagged") /\ srv'.news = srv.news /\ ~srv'.sasl
               /\ srv'.idle = srv.idle /\ srv'.literal = srv.literal
            \/ srv.idle # 0 /\ Added("tagged") /\ srv'.news = srv.news /\ srv'.idle = 0
               /\ srv'.literal = srv.literal /\ srv'.sasl = srv.sasl
<1>1. /\ UNCHANGED <<net, faults>> /\ srv \in SessionSet /\ in \in Seq(ItemSet) /\ srv.cont \in Nat /\ srv.idle \in Nat
      /\ box \in [Mailboxes -> BoxSet] /\ "none" \in NoneOr
  BY DEF ServeContinuation, ServerTypes, LinkTypes, SessionSet, NoneOr
<1>2. CASE /\ srv.literal # "none"
           /\ in' = Append(in \o srv.news, Tagged(srv.cont, TRUE)) /\ srv' = [Quiet EXCEPT !.literal = "none"]
           /\ box' = IF c.verb = "literal" /\ Room(srv.literal) THEN [box EXCEPT ![srv.literal] = Put(@)] ELSE box
  <2>1. Said(srv.cont, {}, TRUE)
    <3>1. PICK n \in Seq(ItemSet) : n = srv.news
      BY <1>1 DEF SessionSet
    <3>2. PICK p \in Seq(ItemSet) : p = in \o n
      BY <1>1, ConcatProperties
    <3>3. <<>> \in Seq(ItemSet) /\ <<>> \in Seq({}) /\ {} \in SUBSET ItemSet
      BY EmptySeq
    <3>4. p \o <<>> = p
      BY ConcatEmptySeq
    <3>7. PICK e \in Seq(ItemSet) : e = <<>>
      BY <3>3
    <3>8. PICK x : x = Tagged(srv.cont, TRUE)
      OBVIOUS
    <3>9. in \o n \o e \o <<x>> = Append(in \o n \o e, x)
      BY <1>1, ReplyLines
    <3>5. in \o n \o <<>> \o <<Tagged(srv.cont, TRUE)>> = Append(in \o n \o <<>>, Tagged(srv.cont, TRUE))
      BY <3>7, <3>8, <3>9, Zenon
    <3>6. in' = in \o srv.news \o <<>> \o <<Tagged(srv.cont, TRUE)>>
      BY <1>2, <3>1, <3>2, <3>4, <3>5
    <3> QED  BY <1>1, <3>3, <3>6, AllSaid
  <2>2. PICK q \in SessionSet : q = Quiet /\ q.news = <<>> /\ q.box = srv.box
        /\ q.idle = srv.idle /\ q.sasl = srv.sasl
    BY <1>1, QuietType
  <2>3. srv' \in SessionSet /\ srv'.news = <<>> /\ srv'.box = srv.box /\ srv'.literal = "none" /\ srv'.idle = srv.idle /\ srv'.sasl = srv.sasl
    BY <1>1, <1>2, <2>2 DEF SessionSet
  <2>4. Boxes
    <3>1. srv.literal \in Mailboxes
      BY <1>1, <1>2 DEF SessionSet, NoneOr
    <3>2. CASE Room(srv.literal) /\ box' = [box EXCEPT ![srv.literal] = Put(@)]
      <4>1. /\ Put(box[srv.literal]) \in BoxSet /\ Put(box[srv.literal]).validity = box[srv.literal].validity
            /\ Ages(box[srv.literal], Put(box[srv.literal]))
        BY <1>1, <3>1, <3>2, PutType, PutAges DEF Room
      <4> QED  BY <3>1, <3>2, <4>1, OneBoxAges
    <3>3. CASE box' = box
      BY <3>3, SameBoxesAge
    <3> QED  BY <1>2, <3>2, <3>3
  <2> QED  BY <1>1, <1>2, <2>1, <2>3, <2>4 DEF BoundTypes
<1>3. CASE srv.sasl /\ in' = Append(in, Tagged(srv.cont, FALSE)) /\ srv' = [srv EXCEPT !.sasl = FALSE] /\ UNCHANGED box
  <2>1. Added("tagged")
    <3>1. PICK x \in ItemSet : x = Tagged(srv.cont, FALSE) /\ x.kind = "tagged" /\ ~x.slash
      BY <1>1, ServerItems
    <3> QED  BY <1>1, <1>3, <3>1, AddedLine
  <2>2. srv' \in SessionSet /\ srv'.news = srv.news /\ srv'.box = srv.box /\ srv'.literal = srv.literal /\ srv'.idle = srv.idle /\ ~srv'.sasl
    BY <1>1, <1>3 DEF SessionSet
  <2> QED  BY <1>1, <1>3, <2>1, <2>2, SameBoxesAge DEF BoundTypes
<1>4. CASE srv.idle # 0 /\ in' = Append(in, Tagged(srv.idle, c.verb = "DONE")) /\ srv' = [srv EXCEPT !.idle = 0] /\ UNCHANGED box
  <2>1. Added("tagged")
    <3>1. PICK ok \in BOOLEAN : ok = (c.verb = "DONE")
      OBVIOUS
    <3>2. PICK x \in ItemSet : x = Tagged(srv.idle, ok) /\ x.kind = "tagged" /\ ~x.slash
      BY <1>1, ServerItems
    <3>3. in' = Append(in, x)
      BY <1>4, <3>1, <3>2
    <3> QED  BY <1>1, <3>2, <3>3, AddedLine
  <2>2. srv' \in SessionSet /\ srv'.news = srv.news /\ srv'.box = srv.box /\ srv'.literal = srv.literal /\ srv'.idle = 0 /\ srv'.sasl = srv.sasl
    BY <1>1, <1>4 DEF SessionSet
  <2> QED  BY <1>1, <1>4, <2>1, <2>2, SameBoxesAge DEF BoundTypes
<1> QED  BY <1>2, <1>3, <1>4 DEF ServeContinuation

(* The server serves a line.                                               *)
LEMMA ServeTypes ==
  ASSUME IInv, Serve
  PROVE  IInv'
<1>1. /\ net = "up" /\ out # <<>> /\ out' = Tail(out)
      /\ UNCHANGED <<client, job, state, history, alive, ops, changes>>
  BY DEF Serve
<1>2. PICK c : c = Head(out)
  OBVIOUS
<1>3. LinkTypes /\ ServerTypes /\ BoundTypes /\ out \in Seq(LineSet) /\ srv \in SessionSet /\ tag \in Nat
  BY DEF IInv, Types, LinkTypes, ServerTypes, ClientTypes
<1>4. c \in LineSet /\ c = out[1] /\ 1 \in DOMAIN out /\ c.tag <= tag
  BY <1>1, <1>2, <1>3, OutTags DEF IInv, Tags
<1>5. \/ ~InCommand /\ ServeContinuation(c)
      \/ InCommand /\ (Refuse(c) \/ RefuseXOAuth2(c))
      \/ InCommand /\ Legal(c) /\ (ServeSession(c) \/ ServeSelect(c) \/ ServeFetch(c) \/ ServeStore(c) \/ ServeRemoval(c))
  BY <1>2 DEF Serve
<1>6. out' \in Seq(LineSet) /\ \A i \in DOMAIN out' : out'[i].tag <= tag
  <2>1. Len(out) \in Nat /\ DOMAIN out = 1..Len(out) /\ \A i \in DOMAIN out : out[i].tag <= tag
    BY <1>3, OutTags DEF IInv, Tags
  <2>2. out' \in Seq(LineSet) /\ Len(out') = Len(out) - 1 /\ \A i \in 1..Len(out) - 1 : out'[i] = out[i + 1]
    BY <1>1, <1>3, HeadTailProperties
  <2>3. DOMAIN out' = 1..Len(out')
    BY <2>2, LenProperties
  <2>4. ASSUME NEW i \in DOMAIN out' PROVE out'[i].tag <= tag
    <3>1. i \in 1..Len(out) - 1 /\ i + 1 \in DOMAIN out
      BY <2>1, <2>2, <2>3
    <3> QED  BY <2>1, <2>2, <3>1
  <2> QED  BY <2>2, <2>4
<1> DEFINE Fine == /\ in' \in Seq(ItemSet) /\ net' \in {"none", "up", "cut", "silent", "null"} /\ faults' \in 0..MaxFaults
                   /\ srv' \in SessionSet /\ box' \in [Mailboxes -> BoxSet]
                   /\ srv'.idle \in {0, srv.idle, c.tag}
                   /\ (srv'.literal # "none" => ~srv'.sasl /\ srv'.idle = 0) /\ (srv'.sasl => srv'.idle = 0)
<1>7. Fine
  <2>0. (srv.literal # "none" => ~srv.sasl /\ srv.idle = 0) /\ (srv.sasl => srv.idle = 0) /\ box \in [Mailboxes -> BoxSet]
    BY DEF IInv, OneWait, Types, ServerTypes
  <2>1. CASE ~InCommand /\ ServeContinuation(c)
    <3>1. in' \in Seq(ItemSet)
      BY <1>3, <1>4, <2>1, ServeContinuationServed DEF Said, Added
    <3> QED  BY <1>1, <1>3, <1>4, <2>0, <2>1, <3>1, ServeContinuationServed DEF Boxes
  <2>2. CASE InCommand /\ Refuse(c)
    BY <1>1, <1>3, <1>4, <2>0, <2>2, RefuseServed DEF Said, Session
  <2>3. CASE InCommand /\ RefuseXOAuth2(c)
    BY <1>1, <1>3, <1>4, <2>0, <2>3, RefuseXOAuth2Served DEF Added, InCommand
  <2>4. CASE InCommand /\ ServeSession(c)
    <3>1. in' \in Seq(ItemSet)
      BY <1>1, <1>3, <1>4, <2>4, ServeSessionServed DEF Said, Added, BeginsIdle
    <3>2. srv.literal = "none" /\ ~srv.sasl /\ srv.idle = 0
      BY <2>4 DEF InCommand
    <3>3. /\ net' \in {"up", "cut"} /\ faults' \in 0..MaxFaults /\ srv' \in SessionSet /\ box' = box
          /\ \/ srv'.idle = srv.idle /\ srv'.sasl = srv.sasl
             \/ srv'.idle = c.tag /\ srv'.sasl = srv.sasl /\ srv'.literal = srv.literal
             \/ Session(srv.box)
      BY <1>1, <1>3, <1>4, <2>4, ServeSessionServed
    <3> QED  BY <2>0, <3>1, <3>2, <3>3 DEF Session
  <2>5. CASE InCommand /\ ServeSelect(c)
    BY <1>1, <1>3, <1>4, <2>0, <2>5, ServeSelectServed DEF Said, Session
  <2>6. CASE InCommand /\ Legal(c) /\ ServeFetch(c)
    BY <1>1, <1>3, <1>4, <2>0, <2>6, ServeFetchServed DEF Said, Session, Boxes
  <2>7. CASE InCommand /\ Legal(c) /\ ServeStore(c)
    BY <1>1, <1>3, <1>4, <2>0, <2>7, ServeStoreServed DEF Said, Session, Boxes
  <2>8. CASE InCommand /\ Legal(c) /\ ServeRemoval(c)
    BY <1>1, <1>3, <1>4, <2>0, <2>8, ServeRemovalServed DEF Said, Session, Boxes
  <2> QED  BY <1>5, <2>1, <2>2, <2>3, <2>4, <2>5, <2>6, <2>7, <2>8
<1>8. Types'
  BY <1>1, <1>6, <1>7
  DEF IInv, Types, ClientTypes, LinkTypes, StateTypes, ServerTypes, BoundTypes, client, state, history
<1>9. Tags'
  <2>1. srv'.idle <= tag
    BY <1>3, <1>4, <1>7 DEF IInv, Tags
  <2> QED  BY <1>1, <1>6, <2>1 DEF IInv, Tags, client, Now
<1>10. OneWait'
  BY <1>7 DEF OneWait
<1> QED  BY <1>8, <1>9, <1>10 DEF IInv

(* What other clients do: the line about it comes at once or is pending.   *)
Announced(line) ==
  \/ UNCHANGED <<in, srv>>
  \/ srv.idle # 0 /\ net = "up" /\ in' = Append(in, line) /\ UNCHANGED srv
  \/ /\ srv.idle = 0 /\ srv' \in SessionSet /\ srv'.news = Append(srv.news, line) /\ UNCHANGED in
     /\ srv'.box = srv.box /\ srv'.idle = srv.idle /\ srv'.sasl = srv.sasl /\ srv'.literal = srv.literal

LEMMA AnnounceServed ==
  ASSUME IInv, NEW m \in Mailboxes, NEW b \in BoxSet, NEW line \in ItemSet, Announce(m, b, line)
  PROVE  /\ IInv' /\ box' = [box EXCEPT ![m] = b] /\ Announced(line) /\ (srv.box # m => UNCHANGED <<in, srv>>)
         /\ UNCHANGED <<client, net, out, job, state, history, alive, ops, faults>>
<1>1. /\ changes < MaxChanges /\ changes' = changes + 1 /\ box' = [box EXCEPT ![m] = b]
      /\ UNCHANGED <<client, net, out, job, state, history, alive, ops, faults>>
  BY DEF Announce
<1>2. in \in Seq(ItemSet) /\ srv \in SessionSet /\ box \in [Mailboxes -> BoxSet] /\ srv.news \in Seq(ItemSet) /\ changes \in 0..MaxChanges
  BY DEF IInv, Types, LinkTypes, ServerTypes, BoundTypes, SessionSet
<1>3. \A s \in Seq(ItemSet) : Append(s, line) \in Seq(ItemSet)
  <2> SUFFICES ASSUME NEW s \in Seq(ItemSet) PROVE Append(s, line) \in Seq(ItemSet)
    OBVIOUS
  <2>1. ItemSet \cup {line} = ItemSet
    OBVIOUS
  <2> QED  BY <2>1, Answered
<1>4. Announced(line)
  <2>1. CASE srv.idle = 0 /\ srv' = [srv EXCEPT !.news = Append(@, line)] /\ UNCHANGED in
    <3>1. PICK n \in Seq(ItemSet) : n = Append(srv.news, line)
      BY <1>2, <1>3
    <3>2. srv' = [srv EXCEPT !.news = n]
      BY <2>1, <3>1
    <3>3. srv' \in SessionSet /\ srv'.news = n /\ srv'.box = srv.box /\ srv'.idle = srv.idle /\ srv'.sasl = srv.sasl /\ srv'.literal = srv.literal
      BY <1>2, <3>2 DEF SessionSet
    <3> QED  BY <2>1, <3>1, <3>3 DEF Announced
  <2> QED  BY <2>1 DEF Announce, Announced
<1>5. in' \in Seq(ItemSet) /\ srv' \in SessionSet /\ srv'.idle = srv.idle /\ srv'.sasl = srv.sasl /\ srv'.literal = srv.literal
  BY <1>2, <1>3, <1>4 DEF Announced
<1>6. box' \in [Mailboxes -> BoxSet] /\ changes' \in 0..MaxChanges
  BY <1>1, <1>2, Bounds
<1>7. Types'
  BY <1>1, <1>5, <1>6
  DEF IInv, Types, ClientTypes, LinkTypes, StateTypes, ServerTypes, BoundTypes, client, state, history
<1>8. Tags' /\ OneWait'
  BY <1>1, <1>5 DEF IInv, Tags, OneWait, client, Now
<1> QED  BY <1>1, <1>4, <1>7, <1>8 DEF IInv, Announce

Gone(m, b, line) == line.data[1] = m /\ line.data[2] = b.validity /\ line.uids \subseteq DOMAIN b.gone

(* The change, the mailbox after it, and the line.                         *)
Other(m, b, line) ==
  /\ b \in BoxSet /\ line \in ItemSet /\ Announce(m, b, line) /\ Ages(box[m], b)
  /\ \/ b.validity = box[m].validity
     \/ srv.box # m
  /\ \/ /\ line.kind \in {"EXISTS", "VANISHED", "EXPUNGE"} /\ ~line.slash
        /\ line.kind = "VANISHED" => Gone(m, b, line)
     \/ \E f \in FlagSets : line \in Fetches(m, box[m].validity, {}) /\ line.slash = f

LEMMA OthersIs ==
  ASSUME IInv, Others
  PROVE  \E m \in Mailboxes : \E b, line : Other(m, b, line)
<1>1. ServerTypes /\ box \in [Mailboxes -> BoxSet]
  BY DEF IInv, Types, ServerTypes
<1>2. PICK e \in ItemSet : e = Item("EXISTS") /\ e.kind = "EXISTS" /\ ~e.slash
  BY <1>1, ServerItems DEF Item
<1>3. PICK m \in Mailboxes : \/ Deliver(m) \/ Recreate(m)
                             \/ \E u \in Uids : Withdraw(m, u) \/ \E f \in FlagSets : Flag(m, u, f)
  BY DEF Others
<1>4. box[m] \in BoxSet
  BY <1>1
<1>5. CASE Deliver(m)
  <2>1. Put(box[m]) \in BoxSet /\ Put(box[m]).validity = box[m].validity /\ Ages(box[m], Put(box[m]))
    BY <1>4, <1>5, PutType, PutAges DEF Deliver, Room
  <2>2. Other(m, Put(box[m]), e)
    BY <1>2, <1>5, <2>1 DEF Deliver, Other
  <2> QED  BY <2>2
<1>6. CASE Recreate(m)
  <2>1. box[m].validity + 1 \in Nat \ {0}
    BY <1>4 DEF BoxSet
  <2>2. PICK v \in Nat \ {0} : v = box[m].validity + 1
    BY <2>1
  <2>3. NewBox(v) \in BoxSet /\ NewBox(v).next <= MaxUid
    <3>1. 1 <= MaxUid
      BY ImapAssumption
    <3> QED  BY <3>1, NewBoxType DEF NewBox
  <2>4. Put(NewBox(v)) \in BoxSet
    BY <2>3, PutType
  <2>5. PICK p \in BoxSet : p = Put(NewBox(v))
    BY <2>4
  <2>8. p.validity = v /\ Sound(p)
    <3>1. Sound(NewBox(v)) /\ NewBox(v).validity = v
      BY DEF Sound, NewBox
    <3>2. Ages(NewBox(v), p) /\ p.validity = NewBox(v).validity
      BY <2>3, <2>5, PutType, PutAges
    <3> QED  BY <3>1, <3>2 DEF Ages
  <2>9. PICK q : q = [p EXCEPT !.modseq = 6]
    OBVIOUS
  <2>10. q.validity = v /\ q.next = p.next /\ q.msgs = p.msgs /\ q.gone = p.gone /\ q \in BoxSet
    BY <2>8, <2>9 DEF BoxSet
  <2>11. Ages(box[m], q)
    <3>1. box[m].validity < q.validity
      BY <1>4, <2>2, <2>10 DEF BoxSet
    <3>2. Sound(q)
      BY <2>8, <2>10 DEF Sound
    <3> QED  BY <3>1, <3>2 DEF Ages
  <2>7. Other(m, q, e)
    BY <1>2, <1>6, <2>2, <2>5, <2>9, <2>10, <2>11 DEF Recreate, Other
  <2> QED  BY <2>7
<1>7. ASSUME NEW u \in Uids, Withdraw(m, u)
      PROVE  \E b, line : Other(m, b, line)
  <2>1. {u} \in SUBSET Uids
    OBVIOUS
  <2>2. /\ Drop(box[m], {u}) \in BoxSet /\ Drop(box[m], {u}).validity = box[m].validity
        /\ Ages(box[m], Drop(box[m], {u})) /\ {u} \subseteq DOMAIN Drop(box[m], {u}).gone
    <3>1. {u} \in SUBSET DOMAIN box[m].msgs
      BY <1>7 DEF Withdraw
    <3> QED  BY <1>4, <2>1, <3>1, DropType, DropAges
  <2>3. PICK x \in ItemSet : /\ x = Vanished(m, {u}) /\ x.kind \in {"VANISHED", "EXPUNGE"} /\ ~x.slash
                             /\ x.uids = {u} /\ x.data[1] = m /\ x.data[2] = box[m].validity
    BY <1>1, <2>1, VanishedIs
  <2>5. Gone(m, Drop(box[m], {u}), x)
    BY <2>2, <2>3 DEF Gone
  <2>4. Other(m, Drop(box[m], {u}), x)
    BY <1>7, <2>2, <2>3, <2>5 DEF Withdraw, Other
  <2> QED  BY <2>4
<1>8. ASSUME NEW u \in Uids, NEW f \in FlagSets, Flag(m, u, f)
      PROVE  \E b, line : Other(m, b, line)
  <2>1. f \in BOOLEAN /\ u \in DOMAIN box[m].msgs
    BY <1>8, ImapAssumption DEF Flag
  <2>2. /\ Mark(box[m], {u}, f) \in BoxSet /\ Mark(box[m], {u}, f).validity = box[m].validity
        /\ Ages(box[m], Mark(box[m], {u}, f))
        /\ Mark(box[m], {u}, f).msgs[u] \in [mod : Nat, seen : BOOLEAN] /\ Mark(box[m], {u}, f).msgs[u].seen = f
    BY <1>4, <2>1, MarkType, MarkAges
  <2>3. PICK b \in BoxSet : b = Mark(box[m], {u}, f)
    BY <2>2
  <2>4. PICK msg \in [mod : Nat, seen : BOOLEAN] : msg = b.msgs[u] /\ msg.seen = f
    BY <2>2, <2>3
  <2>5. PICK x : x = FetchLine(m, u, msg, FALSE, <<>>)
    OBVIOUS
  <2>6. x \in Fetches(m, box[m].validity, {}) /\ x.slash = f /\ x \in ItemSet
    <3>1. <<>> \in Bodies /\ FALSE \in BOOLEAN
      BY DEF Bodies
    <3>2. x \in Fetches(m, box[m].validity, {})
      BY <1>1, <2>1, <2>5, <3>1, FetchLineIs
    <3>3. x.slash = msg.seen
      BY <2>5 DEF FetchLine, Item
    <3> QED  BY <2>4, <3>2, <3>3 DEF Fetches
  <2>7. Announce(m, b, x) \/ Announce(m, b, e)
    BY <1>2, <1>8, <2>3, <2>4, <2>5 DEF Flag
  <2>8. Other(m, b, x) \/ Other(m, b, e)
    BY <1>2, <2>2, <2>3, <2>6, <2>7 DEF Other
  <2> QED  BY <2>8
<1> QED  BY <1>3, <1>5, <1>6, <1>7, <1>8

-----------------------------------------------------------------------------
(* Every step.                                                             *)
LEMMA StutterTypes ==
  ASSUME IInv, UNCHANGED vars
  PROVE  IInv'
<1>1. UNCHANGED <<client, link, job, state, server, history, alive, ops, changes, faults>>
  BY DEF vars
<1>2. Types'
  BY <1>1 DEF IInv, Types, ClientTypes, LinkTypes, StateTypes, ServerTypes, BoundTypes, client, link, state, server, history
<1>3. Tags' /\ OneWait'
  BY <1>1 DEF IInv, Tags, OneWait, Now, client, link, server
<1> QED  BY <1>2, <1>3 DEF IInv

LEMMA NextTypes ==
  ASSUME IInv, Placed, [Next]_vars
  PROVE  IInv'
<1>1. CASE \E op \in CliOps \ {"clear"} : Type(op)
  BY <1>1, TypeTypes
<1>2. CASE ClearCache \/ HandlerGivesUp \/ Cut
  BY <1>2, PromptTypes
<1>3. CASE JobStep
  BY <1>3, EstablishTypes, UpgradeTypes, CloseConnectionTypes, WriteCommandTypes, ReadAnswerTypes, ReadLineTypes, ReadXOAuth2Types, IdleWaitTypes,
     ReadDoneTypes, ReadFailsTypes DEF JobStep
<1>4. CASE Serve
  BY <1>4, ServeTypes
<1>5. CASE Others
  <2>1. PICK m \in Mailboxes : \E b, line : Other(m, b, line)
    BY <1>5, OthersIs
  <2>2. PICK b, line : Other(m, b, line)
    BY <2>1
  <2> QED  BY <2>2, AnnounceServed DEF Other
<1>6. CASE UNCHANGED vars
  BY <1>6, StutterTypes
<1> QED  BY <1>1, <1>2, <1>3, <1>4, <1>5, <1>6 DEF Next

(* What the next step of an operation is.                                  *)
LEMMA NextTodo ==
  ASSUME job \in JobSet, job.op # "none",
         \/ Ended \/ Goes(Tail(job.todo)) \/ Goes(<<"ENABLE">>)
         \/ job' = [job EXCEPT !.todo = Tail(job.todo), !.at = "reply"]
  PROVE  \/ job'.todo = <<>>
         \/ job'.todo \in {Tail(job.todo), <<"ENABLE">>} /\ job'.todo # <<>> /\ job'.todo[1] \notin Selecting \cup {"BODY", "CHANGEDSINCE", "UIDMOVE"}
<1>1. Tail(job.todo) = <<>> \/ (Tail(job.todo) \in Todos /\ Tail(job.todo)[1] \notin Selecting \cup {"BODY", "CHANGEDSINCE", "UIDMOVE"})
  BY NowIs
<1>2. <<"ENABLE">> # <<>> /\ <<"ENABLE">>[1] \notin Selecting \cup {"BODY", "CHANGEDSINCE", "UIDMOVE"}
  BY DEF Selecting
<1>3. job' = NoJob \/ \E t \in {Tail(job.todo), <<"ENABLE">>}, a \in {"step", "reply"} : job' = [job EXCEPT !.todo = t, !.at = a]
  BY DEF Ended, Goes
<1>4. CASE job' = NoJob
  BY <1>4, NoJobType
<1>5. CASE \E t \in {Tail(job.todo), <<"ENABLE">>}, a \in {"step", "reply"} : job' = [job EXCEPT !.todo = t, !.at = a]
  <2>1. PICK t \in {Tail(job.todo), <<"ENABLE">>}, a \in {"step", "reply"} : job' = [job EXCEPT !.todo = t, !.at = a]
    BY <1>5
  <2>2. job'.todo = t
    BY <2>1 DEF JobSet, JobRecords
  <2> QED  BY <1>1, <1>2, <2>1, <2>2
<1> QED  BY <1>3, <1>4, <1>5

(* What is left to do: what was typed, what was left before, or its rest.  *)
Rests == \/ Ended \/ Goes(Tail(job.todo)) \/ Goes(<<"ENABLE">>)
         \/ job' = [job EXCEPT !.todo = Tail(job.todo), !.at = "reply"]

(* What is typed at the prompt begins an operation with all its steps.     *)
Typing(op, m, port) == /\ job'.todo = Script(op, m, port) /\ UNCHANGED cli
                       /\ op = "sync" => cli.box # "none"
                       /\ op = "move" => job'.uids \in UidSets

LEMMA TodoNext ==
  ASSUME IInv, [Next]_vars
  PROVE  \/ \E op \in CliOps \ {"clear"}, m \in NoneOr, port \in {143, 993} : Typing(op, m, port)
         \/ UNCHANGED cli /\ job'.todo = job.todo /\ job'.uids = job.uids
         \/ job.op # "none" /\ Rests
<1>0. job \in JobSet /\ out \in Seq(LineSet)
  BY DEF IInv, Types, ClientTypes, LinkTypes
<1>1. CASE \E op \in CliOps \ {"clear"} : Type(op)
  <2>1. PICK op \in CliOps \ {"clear"} : Type(op)
    BY <1>1
  <2>2. PICK m \in NoneOr, port \in {143, 993} :
          /\ job'.todo = Script(op, m, port)
          /\ op = "sync" => cli.box # "none"
          /\ op = "move" => job'.uids \in UidSets
    <3> DEFINE M == IF op \in {"select", "examine", "append", "move"} THEN Mailboxes ELSE {"none"}
               U == IF op \in Fetching THEN UidSets ELSE {{}}
               P == IF op = "connect" THEN Ports ELSE {993}
               D == {"none"} \cup (IF "crlf" \in Faults /\ op \in Typed THEN {"mailbox", "set"} ELSE {})
               B == IF op = "store" THEN BOOLEAN ELSE {FALSE}
    <3>1. M \subseteq NoneOr /\ P \subseteq {143, 993}
      BY ImapAssumption DEF NoneOr
    <3>4. \E m \in M, uids \in U, port \in P, opt \in B, dirty \in D :
            /\ op = "read" => Cardinality(uids) = 1
            /\ ~AnsweredLocally(op, IF uids = {} THEN 0 ELSE CHOOSE u \in uids : TRUE)
            /\ job' = [op |-> op, todo |-> Script(op, m, port), at |-> "step", tag |-> 0, box |-> m, uids |-> uids,
                       opt |-> opt, dirty |-> dirty, waited |-> TRUE]
      BY <2>1, Zenon DEF Type, M, U, P, B, D
    <3>7. op = "move" => U = UidSets
      BY DEF Fetching
    <3> HIDE DEF M, U, P, B, D
    <3>2. PICK m \in M, uids \in U, port \in P, opt \in B, dirty \in D :
            /\ ~AnsweredLocally(op, IF uids = {} THEN 0 ELSE CHOOSE u \in uids : TRUE)
            /\ job' = [op |-> op, todo |-> Script(op, m, port), at |-> "step", tag |-> 0, box |-> m, uids |-> uids,
                       opt |-> opt, dirty |-> dirty, waited |-> TRUE]
      BY <3>4, Zenon
    <3>3. job'.todo = Script(op, m, port)
      BY <3>2
    <3>5. m \in NoneOr /\ port \in {143, 993}
      BY <3>1
    <3>6. op = "sync" => cli.box # "none"
      BY <3>2 DEF AnsweredLocally
    <3>8. job'.uids = uids
      BY <3>2
    <3>9. op = "move" => job'.uids \in UidSets
      BY <3>7, <3>8
    <3> QED  BY <3>3, <3>5, <3>6, <3>9
  <2>3. UNCHANGED cli
    BY <2>1 DEF Type, state
  <2>4. Typing(op, m, port)
    BY <2>2, <2>3 DEF Typing
  <2> QED  BY <2>4
<1>4. CASE ClearCache \/ HandlerGivesUp \/ Cut \/ Serve \/ Others \/ UNCHANGED vars
  <2>1. UNCHANGED cli /\ (UNCHANGED job \/ job' = [job EXCEPT !.waited = FALSE])
    <3>1. CASE Others
      <4>1. PICK m \in Mailboxes : \E b, line : Other(m, b, line)
        BY <3>1, OthersIs
      <4>2. PICK b \in BoxSet, line \in ItemSet : Announce(m, b, line)
        BY <4>1 DEF Other
      <4> QED  BY <4>2, AnnounceServed DEF state
    <3> QED  BY <1>4, <3>1 DEF ClearCache, HandlerGivesUp, Cut, Serve, vars, state
  <2>2. job'.todo = job.todo /\ job'.uids = job.uids
    BY <1>0, <2>1 DEF JobSet, JobRecords
  <2> QED  BY <2>1, <2>2
<1>5. CASE JobStep
  <2>1. job.op # "none"
    BY <1>5 DEF JobStep, Establish, UpgradeToTLS, CloseConnection, WriteCommand, ReadAnswer, ReadLine, ReadXOAuth2, IdleWait, ReadDone, ReadFails, At, Busy
  <2>2. CASE Establish
    <3>1. CASE HandshakeFails /\ UNCHANGED state
      <4>1. Ended \/ job' = [job EXCEPT !.at = "handshake"]
        BY <3>1 DEF HandshakeFails
      <4>2. Ended \/ (job'.todo = job.todo /\ job'.uids = job.uids)
        BY <1>0, <4>1 DEF JobSet, JobRecords
      <4> QED  BY <2>1, <3>1, <4>2 DEF Rests, state
    <3>2. CASE ~HandshakeFails
      BY <2>1, <2>2, <3>2 DEF Establish, Rests
    <3> QED  BY <2>2, <3>1, <3>2 DEF Establish
  <2>6. CASE UpgradeToTLS
    <3>1. Ended \/ Goes(Tail(job.todo)) \/ job' = [job EXCEPT !.at = "handshake"]
      BY <2>6 DEF UpgradeToTLS, HandshakeFails
    <3>2. Ended \/ Goes(Tail(job.todo)) \/ (job'.todo = job.todo /\ job'.uids = job.uids)
      BY <1>0, <3>1 DEF JobSet, JobRecords
    <3> QED  BY <2>1, <2>6, <3>2 DEF Rests, UpgradeToTLS, state
  <2>3. CASE CloseConnection \/ ReadAnswer \/ ReadLine \/ IdleWait \/ ReadDone \/ ReadFails
    <3>1. Ended \/ Goes(Tail(job.todo)) \/ Goes(<<"ENABLE">>)
      BY <2>3 DEF CloseConnection, ReadAnswer, ReadLine, IdleWait, ReadDone, ReadFails, AfterWait
    <3> QED  BY <2>1, <3>1 DEF Rests
  <2>4. CASE WriteCommand
    <3>1. Ended \/ UNCHANGED <<job, cli>> \/ \E t : job' = [job EXCEPT !.at = "reply", !.tag = t]
      BY <2>4 DEF WriteCommand, state
    <3>2. CASE \E t : job' = [job EXCEPT !.at = "reply", !.tag = t]
      <4>1. job'.todo = job.todo /\ job'.uids = job.uids /\ UNCHANGED cli
        BY <1>0, <2>4, <3>2 DEF JobSet, JobRecords, WriteCommand, state
      <4> QED  BY <4>1
    <3> QED  BY <2>1, <3>1, <3>2 DEF Rests
  <2>5. CASE ReadXOAuth2
    <3>1. Ended \/ (UNCHANGED job /\ UNCHANGED cli)
      BY <2>5 DEF ReadXOAuth2, state
    <3> QED  BY <2>1, <3>1 DEF Rests
  <2> QED  BY <1>5, <2>2, <2>3, <2>4, <2>5, <2>6 DEF JobStep
<1> QED  BY <1>1, <1>4, <1>5 DEF Next

LEMMA PlacedNext ==
  ASSUME IInv, Placed, [Next]_vars
  PROVE  Placed'
<1>1. CASE \E op \in CliOps \ {"clear"}, m \in NoneOr, port \in {143, 993} : Typing(op, m, port)
  <2>1. PICK op \in CliOps \ {"clear"}, m \in NoneOr, port \in {143, 993} :
          job'.todo = Script(op, m, port) /\ (op = "sync" => cli.box # "none") /\ UNCHANGED cli
    BY <1>1 DEF Typing
  <2>2. op \in CliCommands \ {"clear"}
    BY ImapAssumption
  <2>3. op # "sync" => Script(op, m, port)[1] # "CHANGEDSINCE"
    BY <2>2, ScriptTodos
  <2> QED  BY <2>1, <2>3 DEF Placed
<1>2. CASE UNCHANGED cli /\ job'.todo = job.todo
  BY <1>2 DEF Placed
<1>3. CASE job.op # "none" /\ Rests
  BY <1>3, NextTodo DEF Placed, Rests, IInv, Types, ClientTypes
<1> QED  BY <1>1, <1>2, <1>3, TodoNext

LEMMA InitPlaced == Init => Placed
BY DEF Init, NoJob, Placed

(* Every variable has its type throughout.                                 *)
LEMMA TypesInv == Spec => [](IInv /\ Placed)
<1>1. Init => IInv /\ Placed
  BY InitTypes, InitPlaced
<1>2. IInv /\ Placed /\ [Next]_vars => (IInv /\ Placed)'
  BY NextTypes, PlacedNext
<1> QED  BY <1>1, <1>2, PTL DEF Spec

(* Every variable has its type; in particular a connection the program     *)
(* calls idle has the tag of a command it has sent.                        *)
THEOREM ImapTypesTheorem == Spec => []TypeOK
<1>1. IInv => TypeOK
  <2> SUFFICES ASSUME IInv PROVE TypeOK
    OBVIOUS
  <2>1. /\ conn \in {"Disconnected", "Connected"} /\ net \in {"none", "up", "cut", "silent", "null"} /\ tag \in Nat
        /\ {misled, lost, alive} \subseteq BOOLEAN
        /\ ops \in 0..MaxOps /\ changes \in 0..MaxChanges /\ faults \in 0..MaxFaults
    BY DEF IInv, Types, ClientTypes, LinkTypes, BoundTypes
  <2>2. idle.on \in BOOLEAN /\ idle.tag \in 0..tag /\ (idle.on => idle.tag # 0)
    BY DEF IInv, Types, ClientTypes, Tags
  <2>3. /\ job.op \in CliCommands \cup {"none"} /\ job.at \in {"step", "reply", "handshake"} /\ job.tag \in 0..tag
        /\ (job.op = "none") = (job.todo = <<>>)
    <3>1. job \in JobSet /\ job.tag <= tag /\ tag \in Nat
      BY DEF IInv, Types, ClientTypes, Tags
    <3>2. job.op \in CliCommands \cup {"none"} /\ job.at \in {"step", "reply", "handshake"} /\ job.tag \in Nat /\ (job.op = "none" <=> job.todo = <<>>)
      BY <3>1, JobParts
    <3> QED  BY <3>1, <3>2
  <2>4. /\ cli.box \in Mailboxes \cup {"none"} /\ srv.box \in Mailboxes \cup {"none"} /\ srv.idle \in 0..tag
    BY DEF IInv, Types, ClientTypes, StateTypes, ServerTypes, SessionSet, Tags, NoneOr
  <2>5. ASSUME NEW m \in Mailboxes
        PROVE  DOMAIN cache[m].msgs \subseteq Uids /\ DOMAIN box[m].msgs \subseteq Uids
    <3>1. cache[m] \in CacheSet /\ box[m] \in BoxSet
      BY DEF IInv, Types, StateTypes, ServerTypes
    <3>2. PICK S \in SUBSET Uids : cache[m].msgs \in [S -> EntrySet]
      BY <3>1 DEF CacheSet
    <3>3. PICK D \in SUBSET Uids : box[m].msgs \in [D -> [mod : Nat, seen : BOOLEAN]]
      BY <3>1 DEF BoxSet
    <3> QED  BY <3>2, <3>3
  <2> QED  BY <2>1, <2>2, <2>3, <2>4, <2>5 DEF TypeOK
<1> QED  BY <1>1, TypesInv, PTL

(* The ranges sent with SELECT (QRESYNC) name the cached UIDs, no other,   *)
(* and no two ranges touch, whatever is cached: a UID left out would never *)
(* be reported as vanished.                                                *)
THEOREM KnownRangesTheorem == Spec => []KnownRangesExact
<1>1. IInv => KnownRangesExact
  <2> SUFFICES ASSUME IInv, NEW m \in Mailboxes
               PROVE  /\ Covered(KnownUidRanges(cache[m])) = DOMAIN cache[m].msgs
                      /\ Apart(KnownUidRanges(cache[m]))
    BY Zenon DEF KnownRangesExact, Apart
  <2>1. cache[m] \in CacheSet
    BY DEF IInv, Types, StateTypes
  <2>2. PICK c \in CacheSet : c = cache[m]
    BY <2>1
  <2>3. DOMAIN c.msgs \in SUBSET Uids /\ Uids \in SUBSET Nat
    BY CacheMsgs, Bounds
  <2>4. DOMAIN c.msgs \in SUBSET Nat /\ IsFiniteSet(DOMAIN c.msgs)
    BY <2>3, FiniteUids
  <2> QED  BY <2>2, <2>4, RangesExact
<1> QED  BY <1>1, TypesInv, PTL


-----------------------------------------------------------------------------
(* The conversation, as long as no answer is left over.                    *)

(* The steps of the operations that wait for a "+" or go on after one.     *)
LEMMA TodoIs ==
  ASSUME NEW t \in Todos
  PROVE  /\ t[1] = "establish" => Tail(t) # <<>> /\ Tail(t)[1] = "greeting"
         /\ t[1] # "establish" /\ Tail(t) # <<>> => Tail(t)[1] # "greeting"
         /\ t[1] = "IDLE" => t = Idling /\ Tail(t) = <<"wait", "DONE">>
         /\ t[1] = "wait" => t = <<"wait", "DONE">> /\ Tail(t) = <<"DONE">>
         /\ t[1] = "APPEND" => t = <<"APPEND", "literal">> /\ Tail(t) = <<"literal">>
         /\ t[1] = "DONE" => t = <<"DONE">>
         /\ t[1] = "literal" => t = <<"literal">>
         /\ t[1] = "XOAUTH2" => t = <<"XOAUTH2">>
<1> DEFINE Fine(h, r) ==
         /\ h = "establish" => r # <<>> /\ r[1] = "greeting"
         /\ h # "establish" /\ r # <<>> => r[1] # "greeting"
         /\ h = "IDLE" => t = Idling /\ r = <<"wait", "DONE">>
         /\ h = "wait" => t = <<"wait", "DONE">> /\ r = <<"DONE">>
         /\ h = "APPEND" => t = <<"APPEND", "literal">> /\ r = <<"literal">>
         /\ h = "DONE" => t = <<"DONE">>
         /\ h = "literal" => t = <<"literal">>
         /\ h = "XOAUTH2" => t = <<"XOAUTH2">>
<1>1. CASE \E v \in Singles : t = <<v>>
  <2>1. PICK v \in Singles : t = <<v>>
    BY <1>1
  <2>2. t[1] = v /\ Tail(t) = <<>>
    BY <2>1
  <2>3. v \notin {"establish", "IDLE", "wait", "APPEND"}
    BY DEF Singles
  <2> QED  BY <2>1, <2>2, <2>3
<1>2. CASE t \in {<<"establish", "greeting">>, <<"upgrade", "CAPABILITY2">>, <<"LOGIN", "CAPABILITY3">>,
                    <<"LOGOUT", "closeConnection">>, <<"APPEND", "literal">>, <<"wait", "DONE">>}
  <2>1. PICK a \in {"establish", "upgrade", "LOGIN", "LOGOUT", "APPEND", "wait"},
             b \in {"greeting", "CAPABILITY2", "CAPABILITY3", "closeConnection", "literal", "DONE"} :
          /\ t = <<a, b>> /\ (a = "establish" <=> b = "greeting") /\ (a = "APPEND" => b = "literal") /\ (a = "wait" => b = "DONE")
    BY <1>2
  <2>2. t[1] = a /\ Tail(t) = <<b>> /\ <<b>>[1] = b /\ <<b>> # <<>>
    BY <2>1, Tuples
  <2>3. Fine(a, <<b>>)
    BY <2>1, <2>2
  <2> HIDE DEF Fine
  <2>4. Fine(t[1], Tail(t))
    BY <2>2, <2>3
  <2> QED  BY <2>4 DEF Fine
<1>3. CASE t \in {Idling, <<"STARTTLS", "upgrade", "CAPABILITY2">>, <<"CAPABILITY", "STARTTLS", "upgrade", "CAPABILITY2">>,
                    <<"greeting", "CAPABILITY", "STARTTLS", "upgrade", "CAPABILITY2">>, Connect(143)}
  <2>1. CASE t = Idling
    <3>1. t[1] = "IDLE" /\ Tail(t) = <<"wait", "DONE">> /\ <<"wait", "DONE">>[1] = "wait"
      BY <2>1, Tuples DEF Idling
    <3> QED  BY <2>1, <3>1
  <2>2. CASE t = <<"STARTTLS", "upgrade", "CAPABILITY2">>
    <3>1. t[1] = "STARTTLS" /\ Tail(t) = <<"upgrade", "CAPABILITY2">> /\ <<"upgrade", "CAPABILITY2">>[1] = "upgrade"
      BY <2>2, Tuples
    <3> QED  BY <3>1
  <2>3. CASE t = <<"CAPABILITY", "STARTTLS", "upgrade", "CAPABILITY2">>
    <3>1. t[1] = "CAPABILITY" /\ Tail(t) = <<"STARTTLS", "upgrade", "CAPABILITY2">>
          /\ <<"STARTTLS", "upgrade", "CAPABILITY2">>[1] = "STARTTLS"
      BY <2>3, Tuples
    <3> QED  BY <3>1
  <2>4. CASE t = <<"greeting", "CAPABILITY", "STARTTLS", "upgrade", "CAPABILITY2">>
    <3>1. t[1] = "greeting" /\ Tail(t) = <<"CAPABILITY", "STARTTLS", "upgrade", "CAPABILITY2">>
          /\ <<"CAPABILITY", "STARTTLS", "upgrade", "CAPABILITY2">>[1] = "CAPABILITY"
      BY <2>4, Tuples
    <3> QED  BY <3>1
  <2>5. CASE t = Connect(143)
    <3>1. t[1] = "establish" /\ Tail(t) = <<"greeting", "CAPABILITY", "STARTTLS", "upgrade", "CAPABILITY2">>
          /\ <<"greeting", "CAPABILITY", "STARTTLS", "upgrade", "CAPABILITY2">>[1] = "greeting"
          /\ <<"greeting", "CAPABILITY", "STARTTLS", "upgrade", "CAPABILITY2">> # <<>>
      BY <2>5, Tuples DEF Connect
    <3> QED  BY <3>1
  <2> QED  BY <1>3, <2>1, <2>2, <2>3, <2>4, <2>5
<1> QED  BY <1>1, <1>2, <1>3 DEF Todos

(* Lines are read: of lines without a status none has one, after the "+"   *)
(* nothing has one, and the status is the last line of its answer.         *)
LEMMA LinesRead ==
  ASSUME in \in Seq(ItemSet), NEW n \in 1..Len(in), Consume(n)
  PROVE  /\ in' \in Seq(ItemSet)
         /\ Clean(in) => Clean(in')
         /\ Prompt(in) /\ in[n].kind = "plus" => Clean(in')
         /\ Answer(in) /\ in[n].kind = "tagged" => in' = <<>> /\ n = Len(in)
<1>1. n \in Nat /\ n <= Len(in) /\ Len(in) \in Nat /\ DOMAIN in = 1..Len(in)
  BY LenProperties
<1>2. /\ in' \in Seq(ItemSet) /\ DOMAIN in' = 1..(Len(in) - n) /\ Len(in') = Len(in) - n
      /\ \A i \in 1..(Len(in) - n) : in'[i] = in[n + i]
  BY <1>1, Rest DEF Consume
<1>3. \A i \in DOMAIN in' : n + i \in DOMAIN in /\ n + i # n /\ in'[i] = in[n + i]
  BY <1>1, <1>2
<1>4. Clean(in) => Clean(in')
  BY <1>3 DEF Clean
<1>5. Prompt(in) /\ in[n].kind = "plus" => Clean(in')
  BY <1>1, <1>3 DEF Clean, Prompt
<1>6. Answer(in) /\ in[n].kind = "tagged" => n = Len(in)
  BY <1>1 DEF Answer
<1>7. n = Len(in) => in' = <<>>
  BY <1>1, <1>2, EmptySeq
<1> QED  BY <1>2, <1>4, <1>5, <1>6, <1>7

LEMMA NothingLeft == Clean(<<>>) /\ ~Prompt(<<>>) /\ ~Answer(<<>>)
BY DEF Clean, Prompt, Answer

(* One line is read that is neither a "+" nor a status.                    *)
LEMMA LineRead ==
  ASSUME in \in Seq(ItemSet), in # <<>>, Consume(1), in[1].kind \notin {"tagged", "plus"}
  PROVE  /\ Prompt(in) => Prompt(in')
         /\ Answer(in) => Answer(in') /\ in'[Len(in')] = in[Len(in)]
<1>1. Len(in) \in Nat /\ DOMAIN in = 1..Len(in) /\ 1 \in Nat /\ 1 <= Len(in)
  BY LenProperties, EmptySeq
<1>2. /\ in' \in Seq(ItemSet) /\ DOMAIN in' = 1..(Len(in) - 1) /\ Len(in') = Len(in) - 1
      /\ \A i \in 1..(Len(in) - 1) : in'[i] = in[1 + i]
  BY <1>1, Rest DEF Consume
<1>3. ASSUME Prompt(in) PROVE Prompt(in')
  <2>1. PICK k \in DOMAIN in : in[k].kind = "plus" /\ \A i \in DOMAIN in \ {k} : in[i].kind \notin {"tagged", "plus"}
    BY <1>3 DEF Prompt
  <2>2. PICK j \in Nat : j = k - 1
    BY <1>1
  <2>3. j \in DOMAIN in' /\ in'[j] = in[k]
    BY <1>1, <1>2, <2>1, <2>2
  <2>4. \A i \in DOMAIN in' \ {j} : 1 + i \in DOMAIN in \ {k} /\ in'[i] = in[1 + i]
    BY <1>1, <1>2, <2>1, <2>2
  <2> QED  BY <2>1, <2>3, <2>4 DEF Prompt
<1>4. ASSUME Answer(in) PROVE Answer(in') /\ in'[Len(in')] = in[Len(in)]
  <2>1. in[Len(in)].kind = "tagged" /\ \A i \in DOMAIN in \ {Len(in)} : in[i].kind \notin {"tagged", "plus"}
    BY <1>4 DEF Answer
  <2>2. Len(in) # 1
    BY <2>1
  <2>3. Len(in') \in DOMAIN in' /\ in'[Len(in')] = in[Len(in)] /\ in' # <<>>
    BY <1>1, <1>2, <2>2, EmptySeq
  <2>4. \A i \in DOMAIN in' \ {Len(in')} : 1 + i \in DOMAIN in \ {Len(in)} /\ in'[i] = in[1 + i]
    BY <1>1, <1>2, <2>2
  <2> QED  BY <2>1, <2>3, <2>4 DEF Answer
<1> QED  BY <1>3, <1>4

(* Lines come: an answer, a line more, the beginning of IDLE.              *)
LEMMA SaidAnswer ==
  ASSUME in \in Seq(ItemSet), ServerTypes, NEW t, NEW L, NEW ok, Said(t, L, ok), Clean(in), Clean(srv.news),
         \A x \in L : x.kind \notin {"tagged", "plus"}
  PROVE  Answer(in') /\ in'[Len(in')].tag = t
<1>1. Len(in) \in Nat /\ Len(in') \in Nat /\ DOMAIN in = 1..Len(in) /\ DOMAIN in' = 1..Len(in') /\ Len(srv.news) \in Nat
  BY LenProperties DEF Said, ServerTypes, SessionSet
<1>2. /\ Len(in') > Len(in) + Len(srv.news) /\ in'[Len(in')].kind = "tagged" /\ in'[Len(in')].tag = t
      /\ \A i \in 1..Len(in) : in'[i] = in[i]
      /\ \A i \in Len(in) + 1..Len(in) + Len(srv.news) : in'[i] = srv.news[i - Len(in)] /\ i - Len(in) \in DOMAIN srv.news
      /\ \A i \in Len(in) + Len(srv.news) + 1..Len(in') - 1 : in'[i] \in L
  BY DEF Said
<1>3. ASSUME NEW i \in DOMAIN in' \ {Len(in')}
      PROVE  in'[i].kind \notin {"tagged", "plus"}
  <2>1. i \in 1..Len(in) \/ i \in Len(in) + 1..Len(in) + Len(srv.news) \/ i \in Len(in) + Len(srv.news) + 1..Len(in') - 1
    BY <1>1, <1>2
  <2>2. CASE i \in 1..Len(in)
    BY <1>1, <1>2, <2>2 DEF Clean
  <2>3. CASE i \in Len(in) + 1..Len(in) + Len(srv.news)
    BY <1>2, <2>3 DEF Clean
  <2>4. CASE i \in Len(in) + Len(srv.news) + 1..Len(in') - 1
    BY <1>2, <2>4
  <2> QED  BY <2>1, <2>2, <2>3, <2>4
<1>4. in' # <<>>
  BY <1>1, <1>2, EmptySeq
<1> QED  BY <1>2, <1>3, <1>4 DEF Answer

LEMMA AddedTo ==
  ASSUME in \in Seq(ItemSet), NEW k, Added(k)
  PROVE  /\ k = "tagged" /\ Clean(in) => Answer(in') /\ in'[Len(in')] = in'[Len(in) + 1]
         /\ k = "plus" /\ Clean(in) => Prompt(in')
         /\ k \notin {"tagged", "plus"} => (Clean(in) => Clean(in')) /\ (Prompt(in) => Prompt(in'))
<1>1. Len(in) \in Nat /\ DOMAIN in = 1..Len(in) /\ DOMAIN in' = 1..Len(in) + 1 /\ Len(in') = Len(in) + 1 /\ in' # <<>>
  BY LenProperties, EmptySeq DEF Added
<1>2. in'[Len(in) + 1].kind = k /\ \A i \in 1..Len(in) : in'[i] = in[i]
  BY DEF Added
<1>3. \A i \in DOMAIN in' : i = Len(in) + 1 \/ (i \in DOMAIN in /\ in'[i] = in[i])
  BY <1>1, <1>2
<1>4. Len(in) + 1 \in DOMAIN in' /\ Len(in) + 1 \notin DOMAIN in /\ DOMAIN in \subseteq DOMAIN in'
  BY <1>1
<1>5. k = "tagged" /\ Clean(in) => Answer(in') /\ in'[Len(in')] = in'[Len(in) + 1]
  BY <1>1, <1>2, <1>3 DEF Clean, Answer
<1>6. k = "plus" /\ Clean(in) => Prompt(in')
  BY <1>2, <1>3, <1>4 DEF Clean, Prompt
<1>7. k \notin {"tagged", "plus"} /\ Clean(in) => Clean(in')
  BY <1>2, <1>3 DEF Clean
<1>8. ASSUME k \notin {"tagged", "plus"}, Prompt(in) PROVE Prompt(in')
  <2>1. PICK j \in DOMAIN in : in[j].kind = "plus" /\ \A i \in DOMAIN in \ {j} : in[i].kind \notin {"tagged", "plus"}
    BY <1>8 DEF Prompt
  <2>2. j \in DOMAIN in' /\ in'[j] = in[j]
    BY <1>1, <1>2, <1>4
  <2>3. \A i \in DOMAIN in' \ {j} : in'[i].kind \notin {"tagged", "plus"}
    BY <1>2, <1>3, <1>8, <2>1
  <2> QED  BY <2>1, <2>2, <2>3 DEF Prompt
<1> QED  BY <1>5, <1>6, <1>7, <1>8

LEMMA BeginsPrompt ==
  ASSUME in \in Seq(ItemSet), ServerTypes, BeginsIdle, Clean(in), Clean(srv.news)
  PROVE  Prompt(in')
<1>1. Len(in) \in Nat /\ Len(srv.news) \in Nat /\ DOMAIN in = 1..Len(in) /\ DOMAIN in' = 1..Len(in')
      /\ Len(in') = Len(in) + 1 + Len(srv.news)
  BY LenProperties DEF BeginsIdle, ServerTypes, SessionSet
<1>0. PICK a \in Nat, b \in Nat, n \in Nat : a = Len(in) /\ b = Len(srv.news) /\ n = Len(in')
  BY <1>1, LenProperties DEF BeginsIdle
<1>4. n = a + 1 + b
  BY <1>0, <1>1
<1>5. a + 1 \in 1..n /\ \A i \in 1..n : i # a + 1 => i \in 1..a \/ i \in a + 2..n
  BY <1>4
<1>2. Len(in) + 1 \in DOMAIN in' /\ in'[Len(in) + 1].kind = "plus"
  <2>1. a + 1 \in 1..Len(in')
    BY <1>0, <1>5
  <2> QED  BY <1>0, <1>1, <2>1 DEF BeginsIdle
<1>3. ASSUME NEW i \in DOMAIN in' \ {Len(in) + 1}
      PROVE  in'[i].kind \notin {"tagged", "plus"}
  <2>0. i \in 1..Len(in') /\ i # a + 1
    BY <1>0, <1>1
  <2>1. i \in 1..Len(in) \/ i \in Len(in) + 2..Len(in')
    BY <1>0, <1>5, <2>0
  <2>2. CASE i \in 1..Len(in)
    BY <1>1, <2>2 DEF Clean, BeginsIdle
  <2>3. CASE i \in Len(in) + 2..Len(in')
    BY <2>3 DEF Clean, BeginsIdle
  <2> QED  BY <2>1, <2>2, <2>3
<1> QED  BY <1>2, <1>3 DEF Prompt

(* A line with a mark tells what has come.                                 *)
LEMMA Marks ==
  ASSUME in \in Seq(ItemSet)
  PROVE  /\ Answer(in) => ~Clean(in) /\ ~Prompt(in)
         /\ Prompt(in) => ~Clean(in)
         /\ \A i \in DOMAIN in : /\ in[i].kind = "tagged" => ~Clean(in) /\ ~Prompt(in)
                                 /\ in[i].kind = "plus" => ~Clean(in) /\ ~Answer(in)
<1>1. DOMAIN in = 1..Len(in) /\ Len(in) \in Nat /\ (in # <<>> => Len(in) \in DOMAIN in)
  BY LenProperties, EmptySeq
<1>2. \A i \in DOMAIN in : in[i].kind = "tagged" => ~Clean(in) /\ ~Prompt(in)
  BY DEF Clean, Prompt
<1>3. \A i \in DOMAIN in : in[i].kind = "plus" => ~Clean(in) /\ ~Answer(in)
  BY DEF Clean, Answer
<1>4. Answer(in) => ~Clean(in) /\ ~Prompt(in)
  BY <1>1, <1>2 DEF Answer
<1>5. Prompt(in) => ~Clean(in)
  BY <1>3 DEF Prompt
<1> QED  BY <1>2, <1>3, <1>4, <1>5

(* Between two awaits.                                                     *)
Rested ==
  /\ job.at = "step" /\ out = <<>> /\ Clean(in) /\ Clean(srv.news) /\ (net = "none" <=> conn = "Disconnected")
  /\ job.todo # <<>> => job.todo[1] # "greeting"
  /\ net = "up" => /\ srv.idle # 0 => job.todo \in {<<"wait", "DONE">>, <<"DONE">>}
                   /\ srv.literal # "none" => job.todo = <<"literal">>
                   /\ ~srv.sasl

LEMMA RestedTalks ==
  ASSUME Rested'
  PROVE  Talk' /\ Waits'
BY DEF Rested, Talk, Waits, Idles, Literal, Sasl, Due, Choosing, Asking

LEMMA TalkRests ==
  ASSUME Talk, Waits, job.at = "step"
  PROVE  Rested
<1>1. Idling # <<"APPEND", "literal">>
  BY DEF Idling
<1> QED  BY DEF Rested, Talk, Waits, Idles, Literal, Sasl, Asking

(* While the answer is there the server waits for nothing.                 *)
LEMMA Unawaited ==
  ASSUME in \in Seq(ItemSet), Talk, Waits, net = "up", Answer(in)
  PROVE  srv.idle = 0 /\ srv.literal = "none" /\ ~srv.sasl
<1>1. ~Clean(in) /\ ~Prompt(in)
  BY Marks
<1>2. out = <<>> /\ job.at = "reply"
  BY <1>1 DEF Talk
<1> QED  BY <1>1, <1>2 DEF Waits, Idles, Literal, Sasl

(* The job after an await.                                                 *)
LEMMA JobAfter ==
  ASSUME IInv, job.op # "none"
  PROVE  /\ Ended => job'.at = "step" /\ job'.todo = <<>>
         /\ \A t : Goes(t) => job'.at = "step" /\ job'.todo = t
<1>1. job \in JobSet
  BY DEF IInv, Types, ClientTypes
<1>2. Ended => job'.at = "step" /\ job'.todo = <<>>
  BY NoJobType DEF Ended
<1>3. ASSUME NEW t, Goes(t) PROVE job'.at = "step" /\ job'.todo = t
  <2>1. CASE t = <<>>
    BY <1>2, <1>3, <2>1 DEF Goes
  <2>2. CASE t # <<>>
    <3>1. job' = [job EXCEPT !.todo = t, !.at = "step"]
      BY <1>3, <2>2 DEF Goes
    <3> QED  BY <1>1, <3>1 DEF JobSet, JobRecords
  <2> QED  BY <2>1, <2>2
<1> QED  BY <1>2, <1>3

LEMMA NoGreeting ==
  ASSUME IInv, job.op # "none", Now # "establish", Ended \/ Goes(Tail(job.todo)) \/ Goes(<<"ENABLE">>)
  PROVE  job'.at = "step" /\ (job'.todo # <<>> => job'.todo[1] # "greeting")
<1>1. job \in JobSet
  BY DEF IInv, Types, ClientTypes
<1>2. job.todo \in Todos /\ Now = job.todo[1]
  BY <1>1, NowIs
<1>3. Tail(job.todo) # <<>> => Tail(job.todo)[1] # "greeting"
  BY <1>2, TodoIs
<1>4. <<"ENABLE">>[1] # "greeting"
  OBVIOUS
<1> QED  BY <1>3, <1>4, JobAfter

(* Nothing is under way at the prompt, and a command does not begin with   *)
(* the greeting.                                                           *)
LEMMA TypeTalks ==
  ASSUME IInv, Talk, Waits, NEW op \in CliOps \ {"clear"}, Type(op)
  PROVE  Talk' /\ Waits'
<1>1. job.op = "none" /\ UNCHANGED <<client, link, state, server, history, alive, changes, faults>> /\ job \in JobSet
  BY DEF Type, Busy, IInv, Types, ClientTypes
<1>2. job.todo = <<>> /\ job.at = "step"
  BY <1>1, JobParts
<1>3. Rested
  BY <1>2, TalkRests
<1>4. job'.at = "step" /\ job'.todo[1] # "greeting"
  BY TypedJob
<1>7. Rested'
  <2>1. net = "up" => srv.idle = 0 /\ srv.literal = "none" /\ ~srv.sasl
    BY <1>2, <1>3 DEF Rested
  <2> QED  BY <1>1, <1>3, <1>4, <2>1 DEF Rested, client, link, server
<1> QED  BY <1>7, RestedTalks

LEMMA KeptTalks ==
  ASSUME Talk, Waits, UNCHANGED <<net, conn, out, in, srv>>,
         job'.todo = job.todo /\ job'.at = job.at /\ job'.tag = job.tag
  PROVE  Talk' /\ Waits'
BY DEF Talk, Waits, Idles, Literal, Sasl, Due, Choosing, Asking, Now

LEMMA PromptTalks ==
  ASSUME IInv, Talk, Waits, ClearCache \/ HandlerGivesUp \/ Cut
  PROVE  Talk' /\ Waits'
<1>1. CASE ClearCache
  BY <1>1, KeptTalks DEF ClearCache, client, link, server
<1>2. CASE HandlerGivesUp
  <2>1. job' = [job EXCEPT !.waited = FALSE] /\ job \in JobSet /\ UNCHANGED <<client, link, server>>
    BY <1>2 DEF HandlerGivesUp, IInv, Types, ClientTypes
  <2>2. job'.todo = job.todo /\ job'.at = job.at /\ job'.tag = job.tag
    BY <2>1 DEF JobSet, JobRecords
  <2> QED  BY <2>1, <2>2, KeptTalks DEF client, link, server
<1>3. CASE Cut
  <2>1. net = "up" /\ net' = "cut" /\ out' = <<>> /\ in' \in {in, <<>>} /\ UNCHANGED <<client, job, server>>
    BY <1>3 DEF Cut
  <2>2. UNCHANGED <<conn, job, srv>>
    BY <2>1 DEF client, server
  <2>3. Clean(<<>>)
    BY NothingLeft
  <2>4. Clean(in') \/ Prompt(in') \/ Answer(in')
    BY <2>1, <2>3 DEF Talk
  <2>5. Clean(in) => Clean(in')
    BY <2>1, <2>3
  <2>6. Talk'
    BY <2>1, <2>2, <2>4, <2>5 DEF Talk, Asking, Now
  <2> QED  BY <2>1, <2>6 DEF Waits
<1> QED  BY <1>1, <1>2, <1>3

(* Between two awaits nothing is waited for but what the operation goes on *)
(* with.                                                                   *)
LEMMA Unwanted ==
  ASSUME Rested, net = "up", job.todo # <<>>, job.todo[1] \notin {"wait", "DONE", "literal"}
  PROVE  srv.idle = 0 /\ srv.literal = "none" /\ ~srv.sasl
<1>1. <<"wait", "DONE">>[1] = "wait" /\ <<"DONE">>[1] = "DONE" /\ <<"literal">>[1] = "literal"
  OBVIOUS
<1> QED  BY <1>1 DEF Rested

(* A handshake that fails leaves no stream, and nobody reads.              *)
LEMMA HandshakeRests ==
  ASSUME IInv, HandshakeFails, job.op # "none"
  PROVE  job'.at # "reply" /\ net' # "up" /\ (job'.todo = job.todo \/ job'.todo = <<>>)
<1>1. job \in JobSet /\ net' \in {"silent", "null"}
  BY DEF IInv, Types, ClientTypes, HandshakeFails
<1>2. CASE Ended
  BY <1>1, <1>2, JobAfter
<1>3. CASE job' = [job EXCEPT !.at = "handshake"]
  BY <1>1, <1>3 DEF JobSet, JobRecords
<1> QED  BY <1>2, <1>3 DEF HandshakeFails

LEMMA HandshakeTalks ==
  ASSUME IInv, Rested, job.op # "none", HandshakeFails, conn' # "Disconnected", UNCHANGED <<out, in, srv>>
  PROVE  Talk' /\ Waits'
<1>1. net' \in {"silent", "null"}
  BY DEF HandshakeFails
<1> QED  BY <1>1, HandshakeRests DEF Rested, Talk, Waits

LEMMA EstablishTalks ==
  ASSUME IInv, Talk, Waits, Establish
  PROVE  Talk' /\ Waits'
<1>1. job \in JobSet /\ job.op # "none" /\ Now = "establish" /\ job.at = "step"
  BY DEF IInv, Types, ClientTypes, Establish, At, Busy
<1>2. job.todo \in Todos /\ job.todo # <<>> /\ Now = job.todo[1]
  BY <1>1, NowIs, TodoSteps
<1>3. Rested
  BY <1>1, TalkRests
<1>4. CASE Ended /\ UNCHANGED <<client, link, srv>>
  <2>1. job'.at = "step" /\ job'.todo = <<>>
    BY <1>1, <1>4, JobAfter
  <2>2. net = "up" => srv.idle = 0 /\ srv.literal = "none" /\ ~srv.sasl
    BY <1>1, <1>2, <1>3, Unwanted
  <2>3. Rested'
    BY <1>3, <1>4, <2>1, <2>2 DEF Rested, client, link
  <2> QED  BY <2>3, RestedTalks
<1>5. CASE /\ conn' = "Connected" /\ net' = "up" /\ out' = <<>>
           /\ \E ok \in BOOLEAN : in' = <<[Item("greeting") EXCEPT !.ok = ok]>>
           /\ \E offer \in Offers : srv' = [NoSession EXCEPT !.offer = offer]
           /\ job' = [job EXCEPT !.todo = Tail(job.todo), !.at = "reply"]
  <2>1. Clean(in')
    <3>1. PICK ok \in BOOLEAN : in' = <<[Item("greeting") EXCEPT !.ok = ok]>>
      BY <1>5
    <3>2. PICK x : x = [Item("greeting") EXCEPT !.ok = ok]
      OBVIOUS
    <3>3. x.kind = "greeting"
      BY <3>2 DEF Item
    <3>4. DOMAIN <<x>> = {1} /\ <<x>>[1] = x
      OBVIOUS
    <3> QED  BY <3>1, <3>2, <3>3, <3>4 DEF Clean
  <2>2. srv'.idle = 0 /\ ~srv'.sasl /\ srv'.literal = "none" /\ srv'.news = <<>>
    <3>1. PICK offer \in Caps : srv' = [NoSession EXCEPT !.offer = offer]
      <4>1. PICK offer \in Offers : srv' = [NoSession EXCEPT !.offer = offer]
        BY <1>5
      <4>2. offer \in Caps
        BY ImapAssumption DEF Caps
      <4> QED  BY <4>1, <4>2
    <3> QED  BY <3>1, NoSessionType DEF NoSession
  <2>3. Tail(job.todo) # <<>> /\ Tail(job.todo)[1] = "greeting" /\ Tail(job.todo) \in Todos
    BY <1>1, <1>2, TodoIs, NowIs
  <2>4. job'.todo = Tail(job.todo) /\ job'.at = "reply"
    BY <1>1, <1>5 DEF JobSet, JobRecords
  <2>5. Now' = "greeting"
    BY <2>3, <2>4, TodoSteps DEF Now
  <2>6. Clean(<<>>)
    BY NothingLeft
  <2>7. Talk'
    BY <1>5, <2>1, <2>2, <2>4, <2>5, <2>6 DEF Talk, Asking
  <2>8. Waits'
    BY <2>2, <2>5 DEF Waits, Idles, Literal, Sasl, Due, Choosing, Selecting
  <2> QED  BY <2>7, <2>8
<1>6. CASE conn' = "Connected" /\ HandshakeFails /\ UNCHANGED <<out, in, srv>>
  BY <1>1, <1>3, <1>6, HandshakeTalks
<1> QED  BY <1>4, <1>5, <1>6 DEF Establish

LEMMA UpgradeTalks ==
  ASSUME IInv, Talk, Waits, UpgradeToTLS
  PROVE  Talk' /\ Waits'
<1>1. job \in JobSet /\ job.op # "none" /\ Now = "upgrade" /\ job.at = "step" /\ UNCHANGED <<conn, out, in, srv>>
  BY DEF IInv, Types, ClientTypes, UpgradeToTLS, At, Busy, client, server
<1>2. job.todo \in Todos /\ job.todo # <<>> /\ Now = job.todo[1]
  BY <1>1, NowIs, TodoSteps
<1>3. Rested
  BY <1>1, TalkRests
<1>4. net = "up" => srv.idle = 0 /\ srv.literal = "none" /\ ~srv.sasl
  BY <1>1, <1>2, <1>3, Unwanted
<1>5. CASE net = "up" /\ Goes(Tail(job.todo)) /\ UNCHANGED net
  <2>1. job'.at = "step" /\ (job'.todo # <<>> => job'.todo[1] # "greeting")
    BY <1>1, <1>5, NoGreeting
  <2>2. Rested'
    BY <1>1, <1>3, <1>4, <1>5, <2>1 DEF Rested
  <2> QED  BY <2>2, RestedTalks
<1>6. CASE net = "up" /\ HandshakeFails
  BY <1>1, <1>3, <1>6, HandshakeTalks DEF Rested
<1>7. CASE net = "cut" /\ net' = "null" /\ Ended
  <2>1. job'.at = "step" /\ job'.todo = <<>>
    BY <1>1, <1>7, JobAfter
  <2>2. Rested'
    BY <1>1, <1>3, <1>7, <2>1 DEF Rested
  <2> QED  BY <2>2, RestedTalks
<1> QED  BY <1>5, <1>6, <1>7 DEF UpgradeToTLS

LEMMA CloseConnectionTalks ==
  ASSUME IInv, Talk, Waits, CloseConnection
  PROVE  Talk' /\ Waits'
<1>1. job \in JobSet /\ job.op # "none" /\ Now = "closeConnection" /\ job.at = "step" /\ Goes(Tail(job.todo))
      /\ srv' = srv /\ conn' = "Disconnected" /\ net' = "none" /\ out' = <<>> /\ in' = <<>>
  BY DEF IInv, Types, ClientTypes, CloseConnection, At, Busy, server
<1>2. Rested
  BY <1>1, TalkRests
<1>3. job'.at = "step" /\ (job'.todo # <<>> => job'.todo[1] # "greeting")
  BY <1>1, NoGreeting
<1>4. Clean(<<>>)
  BY NothingLeft
<1>5. Rested'
  BY <1>1, <1>2, <1>3, <1>4 DEF Rested
<1> QED  BY <1>5, RestedTalks

(* A command is written whole, under the tag its operation has.            *)
LEMMA Written ==
  ASSUME IInv, Placed, WriteCommand
  PROVE  /\ job.op # "none" /\ job.at = "step" /\ Now \notin {"establish", "upgrade", "closeConnection", "wait"}
         /\ UNCHANGED <<conn, net, in, state, server, history>>
         /\ \/ UNCHANGED out /\ Ended /\ (job.dirty \in Fields(Now) \/ net # "up")
            \/ UNCHANGED <<out, job>> /\ net # "up"
            \/ /\ net = "up" /\ job'.at = "reply" /\ job'.todo = job.todo /\ job'.uids = job.uids /\ job'.box = job.box
               /\ \E w \in Nat : /\ Line(w) \in LineSet /\ out' = Append(out, Line(w)) /\ Line(w).verb = Now /\ Line(w).tag = w
                                 /\ Line(w).box = job.box /\ Line(w).uids = job.uids
                                 /\ Now \notin {"DONE", "literal"} => job'.tag = w
<1>1. job.op # "none" /\ job \in JobSet /\ tag \in Nat /\ job.at = "step" /\ Now \notin {"establish", "upgrade", "closeConnection", "wait"}
      /\ UNCHANGED <<conn, net, in, state, server, history>>
  BY DEF IInv, Types, ClientTypes, WriteCommand, At, Busy
<1>2. PICK t : t = (IF Now \in Untagged THEN tag ELSE tag + 1)
  OBVIOUS
<1>3. t \in Nat
  BY <1>1, <1>2
<1>4. \/ out' = out /\ Ended /\ (job.dirty \in Fields(Now) \/ net # "up")
      \/ UNCHANGED <<out, job>> /\ net # "up"
      \/ /\ net = "up" /\ out' = Append(out, Line(IF Now \in Untagged THEN 0 ELSE t))
         /\ job' = [job EXCEPT !.at = "reply", !.tag = t]
  <2>1. SerializeRefuses(Now, job.dirty) <=> job.dirty \in Fields(Now)
    BY DEF SerializeRefuses
  <2> HIDE DEF Now, Fields
  <2> QED  BY <1>2, <2>1 DEF WriteCommand
<1>5. PICK w \in Nat : w = (IF Now \in Untagged THEN 0 ELSE t)
  BY <1>3
<1>6. /\ Line(w) \in LineSet /\ Line(w).tag = w /\ Line(w).verb = Now
      /\ Line(w).box = job.box /\ Line(w).uids = job.uids
  BY <1>1, LineType DEF IInv
<1>7. CASE out' = out /\ Ended /\ (job.dirty \in Fields(Now) \/ net # "up")
  <2> HIDE DEF Now, Fields
  <2> QED  BY <1>1, <1>7
<1>8. CASE /\ net = "up" /\ out' = Append(out, Line(IF Now \in Untagged THEN 0 ELSE t))
           /\ job' = [job EXCEPT !.at = "reply", !.tag = t]
  <2>1. job'.at = "reply" /\ job'.todo = job.todo /\ job'.uids = job.uids /\ job'.box = job.box /\ job'.tag = t
    BY <1>1, <1>8 DEF JobSet, JobRecords
  <2>2. out' = Append(out, Line(w))
    BY <1>5, <1>6, <1>8
  <2>3. Now \notin {"DONE", "literal"} => job'.tag = w
    BY <1>5, <2>1 DEF Untagged
  <2> HIDE DEF Now
  <2> QED  BY <1>1, <1>5, <1>6, <1>8, <2>1, <2>2, <2>3
<1>9. CASE UNCHANGED <<out, job>> /\ net # "up"
  <2> HIDE DEF Now, Fields
  <2> QED  BY <1>1, <1>9
<1> HIDE DEF Now, Fields
<1> QED  BY <1>1, <1>4, <1>7, <1>8, <1>9

LEMMA WriteCommandTalks ==
  ASSUME IInv, Placed, Talk, Waits, WriteCommand
  PROVE  Talk' /\ Waits'
<1>1. job \in JobSet /\ job.op # "none" /\ job.at = "step" /\ Now \notin {"establish", "upgrade", "closeConnection", "wait"}
      /\ UNCHANGED <<conn, net, in, srv>>
  BY Written DEF IInv, Types, ClientTypes, server
<1>2. job.todo \in Todos /\ job.todo # <<>> /\ Now = job.todo[1]
  BY <1>1, NowIs, TodoSteps
<1>3. Rested
  BY <1>1, TalkRests
<1>4. job.todo \notin {<<"wait", "DONE">>} /\ Now # "greeting"
  BY <1>1, <1>2, <1>3 DEF Rested
<1>5. CASE UNCHANGED out /\ Ended /\ (job.dirty \in Fields(Now) \/ net # "up")
  <2>1. job'.at = "step" /\ job'.todo = <<>>
    BY <1>1, <1>5, JobAfter
  <2>2. Now \in {"DONE", "literal"} => net # "up"
    <3>1. Fields("DONE") = {} /\ Fields("literal") = {}
      BY DEF Fields, SessionFields, MailboxFields, SetFields, QresyncFields, AppendFields, LookFields, NameFields
    <3> QED  BY <1>5, <3>1
  <2>3. net = "up" => srv.idle = 0 /\ srv.literal = "none" /\ ~srv.sasl
    BY <1>1, <1>2, <1>3, <2>2, Unwanted
  <2>4. Rested'
    BY <1>1, <1>3, <1>5, <2>1, <2>3 DEF Rested
  <2> QED  BY <2>4, RestedTalks
<1>6. CASE /\ net = "up" /\ job'.at = "reply" /\ job'.todo = job.todo
           /\ \E w \in Nat : /\ Line(w) \in LineSet /\ out' = Append(out, Line(w)) /\ Line(w).verb = Now /\ Line(w).tag = w
                             /\ Now \notin {"DONE", "literal"} => job'.tag = w
  <2>1. PICK w \in Nat : /\ Line(w) \in LineSet /\ out' = Append(out, Line(w)) /\ Line(w).verb = Now /\ Line(w).tag = w
                         /\ Now \notin {"DONE", "literal"} => job'.tag = w
    BY <1>6
  <2>2. PICK x \in LineSet : x = Line(w) /\ x.verb = Now /\ x.tag = w
    BY <2>1
  <2>3. out' = <<x>> /\ out' # <<>> /\ Len(out') = 1 /\ out'[1] = x
    BY <1>3, <2>1, <2>2 DEF Rested
  <2>4. Now' = Now
    BY <1>6 DEF Now
  <2>5. Talk'
    BY <1>1, <1>3, <1>4, <1>6, <2>2, <2>3, <2>4 DEF Talk, Rested, Asking
  <2>6. Waits'
    <3>1. srv'.idle # 0 => job'.todo = <<"DONE">> /\ out' # <<>>
      BY <1>1, <1>3, <1>4, <1>6, <2>3 DEF Rested
    <3>2. srv'.literal # "none" => job'.todo = <<"literal">> /\ out' # <<>>
      BY <1>1, <1>3, <1>6, <2>3 DEF Rested
    <3>3. ~srv'.sasl /\ Clean(in')
      BY <1>1, <1>3, <1>6 DEF Rested
    <3>4. Now \in Selecting => out'[1].tag = job'.tag
      BY <2>1, <2>2, <2>3 DEF Selecting
    <3> QED  BY <2>3, <2>4, <3>1, <3>2, <3>3, <3>4 DEF Waits, Idles, Literal, Sasl, Due, Choosing
  <2> QED  BY <2>5, <2>6
<1>7. CASE UNCHANGED <<out, job>> /\ net # "up"
  BY <1>1, <1>3, <1>7, RestedTalks DEF Rested
<1> HIDE DEF Now
<1> QED  BY <1>5, <1>6, <1>7, Written

(* What an await reads ends with the line it waits for; a status is the    *)
(* last line there is.                                                     *)
LEMMA ClosedBy ==
  ASSUME in \in Seq(ItemSet), Close > 0
  PROVE  /\ Close \in 1..Len(in) /\ Close \in DOMAIN in /\ in[Close].kind = Awaited
         /\ Awaited = "tagged" => in[Close].tag = OwnTag
<1>1. Close \in 1..Len(in) /\ IsFinal(Close)
  BY CloseIs
<1>2. DOMAIN in = 1..Len(in)
  BY LenProperties
<1> QED  BY <1>1, <1>2 DEF IsFinal

LEMMA StatusRead ==
  ASSUME in \in Seq(ItemSet), Talk, Close > 0, Awaited = "tagged"
  PROVE  /\ Answer(in) /\ Close = Len(in) /\ out = <<>> /\ in[Close].kind = "tagged"
         /\ Consume(Close) => in' = <<>>
<1>1. Close \in 1..Len(in) /\ Close \in DOMAIN in /\ in[Close].kind = "tagged"
  BY ClosedBy
<1>2. Answer(in)
  BY <1>1, Marks DEF Talk
<1>3. out = <<>>
  BY <1>1, Marks DEF Talk
<1>4. Close = Len(in)
  BY <1>1, <1>2 DEF Answer
<1>5. PICK n \in 1..Len(in) : n = Close
  BY <1>1
<1>6. Consume(n) => in' = <<>>
  BY <1>1, <1>2, <1>5, LinesRead
<1> QED  BY <1>1, <1>2, <1>3, <1>4, <1>5, <1>6

(* After a status has been read nothing is under way.                      *)
LEMMA StatusTalks ==
  ASSUME IInv, Talk, Waits, job.op # "none", job.at = "reply", Now # "establish", Close > 0, Awaited = "tagged", Consume(Close),
         Ended \/ Goes(Tail(job.todo)) \/ Goes(<<"ENABLE">>), UNCHANGED <<net, conn, out, srv>>
  PROVE  in' = <<>> /\ Rested'
<1>1. in \in Seq(ItemSet)
  BY DEF IInv, Types, LinkTypes
<1>2. Answer(in) /\ in' = <<>> /\ out = <<>>
  BY <1>1, StatusRead
<1>3. net = "up" => srv.idle = 0 /\ srv.literal = "none" /\ ~srv.sasl
  BY <1>1, <1>2, Unawaited
<1>4. job'.at = "step" /\ (job'.todo # <<>> => job'.todo[1] # "greeting")
  BY NoGreeting
<1>5. Clean(<<>>)
  BY NothingLeft
<1> QED  BY <1>2, <1>3, <1>4, <1>5 DEF Rested, Talk

LEMMA ReadAnswerTalks ==
  ASSUME IInv, Talk, Waits, ReadAnswer
  PROVE  Talk' /\ Waits' /\ in' = <<>>
<1>1. /\ job.op # "none" /\ job.at = "reply" /\ Close > 0 /\ Consume(Close) /\ Now \in Validated
      /\ Ended \/ Goes(Tail(job.todo))
      /\ UNCHANGED <<net, conn, out, srv>>
  BY DEF ReadAnswer, At, Busy, client, server
<1>2. Awaited = "tagged" /\ Now # "establish"
  BY <1>1 DEF Awaited, Validated
<1>3. in' = <<>> /\ Rested'
  BY <1>1, <1>2, StatusTalks
<1> QED  BY <1>3, RestedTalks

LEMMA ReadLineTalks ==
  ASSUME IInv, Talk, Waits, ReadLine
  PROVE  Talk' /\ Waits'
<1>1. /\ job.op # "none" /\ job.at = "reply" /\ Close > 0 /\ Consume(Close)
      /\ Now \in {"greeting", "IDLE", "APPEND", "CAPABILITY", "CAPABILITY2", "CAPABILITY3"}
      /\ UNCHANGED <<net, conn, out, srv>> /\ in \in Seq(ItemSet) /\ job \in JobSet
  BY DEF ReadLine, At, Busy, server, IInv, Types, LinkTypes, ClientTypes
<1>2. Ended \/ Goes(Tail(job.todo)) \/ Goes(<<"ENABLE">>)
  BY DEF ReadLine
<1>3. job'.at = "step" /\ (job'.todo # <<>> => job'.todo[1] # "greeting")
  BY <1>1, <1>2, NoGreeting
<1>4. job.todo \in Todos /\ Now = job.todo[1]
  BY <1>1, NowIs
<1>5. PICK n \in 1..Len(in) : n = Close /\ n \in DOMAIN in /\ in[n].kind = Awaited
  BY <1>1, ClosedBy
<1>6. Consume(n)
  BY <1>1, <1>5
<1>7. <<"wait", "DONE">>[1] = "wait" /\ <<"DONE">>[1] = "DONE" /\ <<"literal">>[1] = "literal" /\ Idling[1] = "IDLE"
      /\ <<"APPEND", "literal">>[1] = "APPEND" /\ <<"XOAUTH2">>[1] = "XOAUTH2"
  BY DEF Idling
<1>8. CASE Now = "greeting"
  <2>1. Clean(in) /\ out = <<>>
    BY <1>1, <1>8 DEF Talk
  <2>2. Clean(in')
    BY <1>1, <1>6, <2>1, LinesRead
  <2>3. net = "up" => srv.idle = 0 /\ srv.literal = "none" /\ ~srv.sasl
    BY <1>4, <1>7, <1>8 DEF Waits, Idles, Literal, Sasl
  <2>4. Rested'
    BY <1>1, <1>3, <2>1, <2>2, <2>3 DEF Rested, Talk
  <2> QED  BY <2>4, RestedTalks
<1>9. CASE Now \in {"IDLE", "APPEND"}
  <2>1. in[n].kind = "plus"
    BY <1>5, <1>9 DEF Awaited
  <2>2. Prompt(in) /\ ~Clean(in)
    BY <1>1, <1>5, <2>1, Marks DEF Talk
  <2>3. Clean(in') /\ out = <<>>
    BY <1>1, <1>6, <2>1, <2>2, LinesRead DEF Talk
  <2>4. Goes(Tail(job.todo))
    BY <1>9 DEF ReadLine
  <2>5. job'.todo = Tail(job.todo)
    BY <1>1, <2>4, JobAfter
  <2>6. net = "up" /\ srv.idle # 0 => job'.todo = <<"wait", "DONE">>
    <3>1. net = "up" /\ srv.idle # 0 => Now = "IDLE"
      BY <1>4, <1>7, <1>9 DEF Waits, Idles
    <3> QED  BY <1>4, <2>5, <3>1, TodoIs
  <2>7. net = "up" /\ srv.literal # "none" => job'.todo = <<"literal">>
    <3>1. net = "up" /\ srv.literal # "none" => Now = "APPEND"
      BY <1>4, <1>7, <1>9 DEF Waits, Literal
    <3> QED  BY <1>4, <2>5, <3>1, TodoIs
  <2>8. net = "up" => ~srv.sasl
    BY <1>4, <1>7, <1>9 DEF Waits, Sasl
  <2>9. Rested'
    BY <1>1, <1>3, <2>3, <2>6, <2>7, <2>8 DEF Rested, Talk
  <2> QED  BY <2>9, RestedTalks
<1>10. CASE Now \in {"CAPABILITY", "CAPABILITY2", "CAPABILITY3"}
  <2>1. Awaited = "tagged" /\ Now # "establish"
    BY <1>10 DEF Awaited
  <2>2. Rested'
    BY <1>1, <1>2, <2>1, StatusTalks
  <2> QED  BY <2>2, RestedTalks
<1> QED  BY <1>1, <1>8, <1>9, <1>10

LEMMA ReadXOAuth2Talks ==
  ASSUME IInv, Placed, Talk, Waits, ReadXOAuth2
  PROVE  Talk' /\ Waits'
<1>1. /\ job.op # "none" /\ job.at = "reply" /\ in # <<>> /\ Consume(1) /\ Now = "XOAUTH2"
      /\ UNCHANGED <<net, conn, srv>> /\ in \in Seq(ItemSet) /\ job \in JobSet
  BY DEF ReadXOAuth2, At, Busy, client, server, IInv, Types, LinkTypes, ClientTypes
<1>2. job.todo = <<"XOAUTH2">>
  BY <1>1, NowIs, TodoIs
<1>3. Len(in) \in Nat /\ DOMAIN in = 1..Len(in) /\ 1 \in 1..Len(in) /\ 1 \in DOMAIN in /\ Head(in) = in[1]
  <2>1. Len(in) \in Nat /\ DOMAIN in = 1..Len(in) /\ Len(in) # 0
    BY <1>1, LenProperties, EmptySeq
  <2> QED  BY <1>1, <2>1
<1>4. <<"wait", "DONE">>[1] = "wait" /\ <<"DONE">>[1] = "DONE" /\ <<"literal">>[1] = "literal" /\ Idling[1] = "IDLE"
      /\ <<"APPEND", "literal">>[1] = "APPEND" /\ <<"XOAUTH2">>[1] = "XOAUTH2"
  BY DEF Idling
<1>5. net = "up" => srv.idle = 0 /\ srv.literal = "none"
  BY <1>2, <1>4 DEF Waits, Idles, Literal
<1>6. PICK x : x = in[1]
  OBVIOUS
<1>7. CASE x.kind = "tagged"
  <2>1. in' = <<>> /\ out = <<>> /\ Answer(in)
    BY <1>1, <1>3, <1>6, <1>7, Marks, LinesRead DEF Talk
  <2>2. Ended /\ out' = out
    BY <1>3, <1>6, <1>7 DEF ReadXOAuth2
  <2>3. net = "up" => ~srv.sasl
    BY <1>1, <2>1, Unawaited
  <2>4. job'.at = "step" /\ job'.todo = <<>>
    BY <1>1, <2>2, JobAfter
  <2>5. Rested'
    BY <1>1, <1>5, <2>1, <2>2, <2>3, <2>4, NothingLeft DEF Rested, Talk
  <2> QED  BY <2>5, RestedTalks
<1>8. CASE x.kind = "plus"
  <2>1. Prompt(in) /\ out = <<>> /\ Clean(in')
    BY <1>1, <1>3, <1>6, <1>8, Marks, LinesRead DEF Talk
  <2>2. CASE net # "up"
    <3>1. Ended /\ out' = out
      BY <1>3, <1>6, <1>8, <2>2 DEF ReadXOAuth2
    <3>2. job'.at = "step" /\ job'.todo = <<>>
      BY <1>1, <3>1, JobAfter
    <3>3. Rested'
      BY <1>1, <2>1, <2>2, <3>1, <3>2 DEF Rested, Talk
    <3> QED  BY <3>3, RestedTalks
  <2>3. CASE net = "up"
    <3>1. out' = Append(out, [Line(0) EXCEPT !.verb = "ack"]) /\ job' = job
      BY <1>3, <1>6, <1>8, <2>3 DEF ReadXOAuth2
    <3>2. PICK y \in LineSet : y = [Line(0) EXCEPT !.verb = "ack"] /\ y.verb = "ack"
      <4>1. 0 \in Nat /\ Types
        BY DEF IInv
      <4>2. [Line(0) EXCEPT !.verb = "ack"] \in LineSet /\ [Line(0) EXCEPT !.verb = "ack"].verb = "ack"
        BY <1>1, <4>1, LineType
      <4> QED  BY <4>2, Zenon
    <3>3. out' = <<y>> /\ out' # <<>> /\ Len(out') = 1 /\ out'[1] = y
      BY <2>1, <3>1, <3>2
    <3>4. Now' = Now
      BY <3>1 DEF Now
    <3>5. Talk'
      BY <1>1, <2>1, <2>3, <3>1, <3>2, <3>3, <3>4 DEF Talk, Asking
    <3>6. Waits'
      BY <1>1, <1>2, <1>5, <2>3, <3>1, <3>3, <3>4 DEF Waits, Idles, Literal, Sasl, Due, Choosing, Selecting
    <3> QED  BY <3>5, <3>6
  <2> QED  BY <2>2, <2>3
<1>9. CASE x.kind \notin {"tagged", "plus"}
  <2>1. UNCHANGED <<out, job>>
    BY <1>3, <1>6, <1>9 DEF ReadXOAuth2
  <2>2. (Clean(in) => Clean(in')) /\ (Prompt(in) => Prompt(in')) /\ (Answer(in) => Answer(in'))
    BY <1>1, <1>3, <1>6, <1>9, LinesRead, LineRead
  <2>3. Now' = Now
    BY <2>1 DEF Now
  <2>4. Talk'
    BY <1>1, <2>1, <2>2, <2>3 DEF Talk, Asking
  <2>5. Waits'
    BY <1>1, <1>2, <1>5, <2>1, <2>2, <2>3 DEF Waits, Idles, Literal, Sasl, Due, Choosing, Selecting
  <2> QED  BY <2>4, <2>5
<1> QED  BY <1>7, <1>8, <1>9

LEMMA IdleWaitTalks ==
  ASSUME IInv, Talk, Waits, IdleWait
  PROVE  Talk' /\ Waits'
<1> DEFINE notices == {i \in DOMAIN in : in[i].kind \notin {"tagged", "plus"}}
<1>1. /\ job.op # "none" /\ job.at = "step" /\ Now = "wait" /\ Goes(Tail(job.todo)) /\ (in' = <<>> \/ (notices # {} /\ Consume(Min(notices))))
      /\ UNCHANGED <<conn, net, out, srv>> /\ in \in Seq(ItemSet) /\ job \in JobSet
  BY DEF IdleWait, At, Busy, AfterWait, client, server, IInv, Types, LinkTypes, ClientTypes
<1>2. Rested
  BY <1>1, TalkRests
<1>3. Clean(in')
  <2>1. CASE in' = <<>>
    BY <2>1, NothingLeft
  <2>2. CASE notices # {} /\ Consume(Min(notices))
    <3>1. notices \in SUBSET (1..Len(in)) /\ notices \in SUBSET Nat
      BY <1>1, LenProperties
    <3> HIDE DEF notices
    <3>2. PICK k \in 1..Len(in) : k = Min(notices)
      BY <2>2, <3>1, MinProperties
    <3>3. Consume(k)
      BY <2>2, <3>2
    <3> QED  BY <1>1, <1>2, <3>3, LinesRead DEF Rested
  <2> QED  BY <1>1, <2>1, <2>2
<1>4. job.todo = <<"wait", "DONE">> /\ Tail(job.todo) = <<"DONE">> /\ <<"DONE">>[1] = "DONE"
  BY <1>1, NowIs, TodoIs
<1>5. job'.at = "step" /\ job'.todo = <<"DONE">>
  BY <1>1, <1>4, JobAfter
<1>6. net = "up" => srv.literal = "none" /\ ~srv.sasl
  <2>1. <<"wait", "DONE">>[1] = "wait" /\ <<"literal">>[1] = "literal"
    OBVIOUS
  <2> QED  BY <1>2, <1>4, <2>1 DEF Rested
<1>7. Rested'
  BY <1>1, <1>2, <1>3, <1>4, <1>5, <1>6 DEF Rested
<1> QED  BY <1>7, RestedTalks

(* Unless an answer is left over, DONE reads its answer to the end.        *)
LEMMA ReadDoneTalks ==
  ASSUME IInv, Talk, Waits, ReadDone, ~lost'
  PROVE  Talk' /\ Waits' /\ in' = <<>>
<1> DEFINE n == IF Close > 0 /\ Close < DoneLines THEN Close ELSE DoneLines
<1>1. /\ job.op # "none" /\ job.at = "reply" /\ Now = "DONE" /\ (Close > 0 \/ Len(in) >= DoneLines)
      /\ Consume(n) /\ lost' = (lost \/ Close = 0 \/ Close > n) /\ Ended
      /\ UNCHANGED <<conn, net, out, srv>>
  BY DEF ReadDone, At, Busy, server
<1>2. Close \in Nat /\ DoneLines \in Nat
  BY CloseIs, Bounds DEF IInv, Types, LinkTypes
<1>3. Close > 0 /\ Close <= n
  <2>1. PICK k \in Nat : k = Close
    BY <1>2
  <2>2. PICK d \in Nat : d = DoneLines
    BY <1>2
  <2>3. n = (IF k > 0 /\ k < d THEN k ELSE d) /\ n \in Nat
    BY <2>1, <2>2
  <2> HIDE DEF n
  <2>4. ~(k = 0) /\ ~(k > n)
    BY <1>1, <2>1, Zenon
  <2>5. k > 0 /\ k <= n
    BY <2>1, <2>3, <2>4
  <2> QED  BY <2>1, <2>5
<1>4. n = Close
  BY <1>2, <1>3
<1>5. Consume(Close)
  BY <1>1, <1>4
<1>6. Awaited = "tagged" /\ Now # "establish"
  BY <1>1 DEF Awaited
<1> HIDE DEF n
<1>7. Rested' /\ in' = <<>>
  BY <1>1, <1>3, <1>5, <1>6, StatusTalks
<1> QED  BY <1>7, RestedTalks

(* A read fails only when nothing is to come; then the server does not     *)
(* wait for anything either.                                               *)
LEMMA ReadFailsTalks ==
  ASSUME IInv, Talk, Waits, ReadFails, ~lost'
  PROVE  Talk' /\ Waits' /\ in' = <<>>
<1>1. /\ job.op # "none" /\ job.at = "reply" /\ Close = 0 /\ (Now = "XOAUTH2" => in = <<>>) /\ StreamGivesUp /\ in' = <<>>
      /\ (Ended \/ Goes(Tail(job.todo))) /\ (Ended \/ Now = "CAPABILITY2")
      /\ UNCHANGED <<conn, net, out, srv>> /\ in \in Seq(ItemSet) /\ job \in JobSet
  BY DEF ReadFails, At, Busy, server, IInv, Types, LinkTypes, ClientTypes
<1>2. job.todo \in Todos /\ Now = job.todo[1]
  BY <1>1, NowIs
<1>3. out = <<>>
  BY <1>1 DEF StreamGivesUp, Talk
<1>4. job'.at = "step" /\ (job'.todo # <<>> => job'.todo[1] # "greeting")
  <2>1. CASE Ended
    BY <1>1, <2>1, JobAfter
  <2>2. CASE Now = "CAPABILITY2"
    BY <1>1, <2>2, NoGreeting
  <2> QED  BY <1>1, <2>1, <2>2
<1>5. Finals = {}
  BY <1>1, CloseIs
<1>6. Awaited = "plus" => ~Prompt(in)
  BY <1>5 DEF Finals, IsFinal, Prompt
<1>7. <<"wait", "DONE">>[1] = "wait" /\ <<"DONE">>[1] = "DONE" /\ <<"literal">>[1] = "literal" /\ Idling[1] = "IDLE"
      /\ <<"APPEND", "literal">>[1] = "APPEND" /\ <<"XOAUTH2">>[1] = "XOAUTH2"
  BY DEF Idling
<1>8. net = "up" => srv.idle = 0
  <2>1. job.todo = Idling => Awaited = "plus"
    BY <1>2, <1>7 DEF Awaited
  <2> QED  BY <1>1, <1>3, <1>6, <2>1 DEF Waits, Idles
<1>9. net = "up" => srv.literal = "none"
  <2>1. job.todo = <<"APPEND", "literal">> => Awaited = "plus"
    BY <1>2, <1>7 DEF Awaited
  <2> QED  BY <1>1, <1>3, <1>6, <2>1 DEF Waits, Literal
<1>10. net = "up" => ~srv.sasl
  <2>1. job.todo = <<"XOAUTH2">> => in = <<>>
    BY <1>1, <1>2, <1>7
  <2> QED  BY <1>3, <2>1, NothingLeft DEF Waits, Sasl
<1>11. Rested'
  BY <1>1, <1>3, <1>4, <1>8, <1>9, <1>10, NothingLeft DEF Rested, Talk
<1> QED  BY <1>1, <1>11, RestedTalks

(* SELECT is answered under its tag: nothing else is there to be read.     *)
LEMMA SelectReads ==
  ASSUME IInv, Talk, Waits, Choosing, net = "up", out = <<>>
  PROVE  Close > 0
<1>1. in \in Seq(ItemSet) /\ DOMAIN in = 1..Len(in) /\ Len(in) \in Nat
  BY LenProperties DEF IInv, Types, LinkTypes
<1>2. Answer(in) /\ in[Len(in)].tag = job.tag /\ Now \in Selecting
  BY DEF Waits, Due, Choosing
<1>3. Len(in) \in DOMAIN in /\ in[Len(in)].kind = "tagged"
  BY <1>1, <1>2, EmptySeq DEF Answer
<1>4. Awaited = "tagged" /\ OwnTag = job.tag
  BY <1>2 DEF Awaited, OwnTag, Selecting
<1>5. Len(in) \in Finals
  BY <1>2, <1>3, <1>4 DEF Finals, IsFinal
<1>6. Close \in Nat /\ Close # 0
  BY <1>1, <1>5, CloseIs
<1> QED  BY <1>6

(* A line is served: what is said to it is left to be read.                *)
LEMMA Served ==
  ASSUME IInv, Talk, Waits, Serve
  PROVE  /\ net = "up" /\ out' = <<>> /\ Clean(in) /\ Clean(srv.news) /\ Asking /\ job.at = "reply" /\ conn # "Disconnected"
         /\ UNCHANGED <<client, job, state, history, alive, ops, changes>> /\ job.todo \in Todos /\ Now = job.todo[1]
         /\ out[1] \in LineSet /\ out # <<>> /\ (out[1].verb = Now \/ (Now = "XOAUTH2" /\ out[1].verb = "ack"))
         /\ LinkTypes /\ ServerTypes /\ BoundTypes /\ in \in Seq(ItemSet)
         /\ \/ ~InCommand /\ ServeContinuation(out[1])
            \/ InCommand /\ (Refuse(out[1]) \/ RefuseXOAuth2(out[1]))
            \/ /\ InCommand /\ Legal(out[1])
               /\ ServeSession(out[1]) \/ ServeSelect(out[1]) \/ ServeFetch(out[1]) \/ ServeStore(out[1]) \/ ServeRemoval(out[1])
<1>1. /\ net = "up" /\ out # <<>> /\ out' = Tail(out)
      /\ UNCHANGED <<client, job, state, history, alive, ops, changes>>
  BY DEF Serve
<1>2. PICK c : c = Head(out)
  OBVIOUS
<1>3. LinkTypes /\ ServerTypes /\ BoundTypes /\ out \in Seq(LineSet) /\ in \in Seq(ItemSet) /\ job \in JobSet
  BY DEF IInv, Types, LinkTypes, ClientTypes
<1>4. c = out[1] /\ out[1] \in LineSet
  BY <1>1, <1>2, <1>3, OutTags
<1>5. \/ ~InCommand /\ ServeContinuation(c)
      \/ InCommand /\ (Refuse(c) \/ RefuseXOAuth2(c))
      \/ InCommand /\ Legal(c) /\ (ServeSession(c) \/ ServeSelect(c) \/ ServeFetch(c) \/ ServeStore(c) \/ ServeRemoval(c))
  BY <1>2 DEF Serve
<1>6. out' = <<>>
  <2>1. Len(out) = 1
    BY <1>1 DEF Talk
  <2>2. Tail(out) \in Seq(LineSet) /\ Len(Tail(out)) = 0
    BY <1>1, <1>3, <2>1, HeadTailProperties
  <2> QED  BY <1>1, <2>2, EmptySeq
<1>7. Clean(in) /\ Clean(srv.news) /\ Asking /\ (out[1].verb = Now \/ (Now = "XOAUTH2" /\ out[1].verb = "ack")) /\ conn # "Disconnected"
  BY <1>1 DEF Talk
<1>8. job.at = "reply"
  BY <1>7 DEF Asking
<1>9. job.todo \in Todos /\ Now = job.todo[1]
  BY <1>3, <1>8, NowIs DEF JobSet
<1> QED  BY <1>1, <1>3, <1>4, <1>5, <1>6, <1>7, <1>8, <1>9

(* What the server has said is a whole answer, and it waits for nothing.   *)
Replied == /\ Answer(in') /\ Clean(srv'.news) /\ srv'.idle = 0 /\ srv'.literal = "none" /\ ~srv'.sasl
           /\ Choosing => in'[Len(in')].tag = job.tag

LEMMA RepliedTalks ==
  ASSUME IInv, Talk, Waits, Serve, net' \in {"up", "cut"}, Replied
  PROVE  Talk' /\ Waits'
<1>1. /\ net = "up" /\ out' = <<>> /\ Asking /\ job.at = "reply" /\ conn # "Disconnected" /\ UNCHANGED <<conn, job>>
  BY Served DEF client
<1>2. Choosing' = Choosing /\ Now' = Now
  BY <1>1 DEF Choosing, Now
<1>3. Talk'
  BY <1>1, <1>2 DEF Talk, Replied, Asking
<1>4. Due'
  BY <1>1, <1>2 DEF Due, Replied
<1>5. Idles' /\ Literal' /\ Sasl'
  BY DEF Idles, Literal, Sasl, Replied
<1> QED  BY <1>3, <1>4, <1>5 DEF Waits

(* The server has sent a "+" and waits.                                    *)
Prompted == /\ Prompt(in') /\ Clean(srv'.news)
            /\ srv'.idle # 0 => job.todo = Idling
            /\ srv'.literal # "none" => job.todo = <<"APPEND", "literal">>
            /\ srv'.sasl => job.todo = <<"XOAUTH2">>

LEMMA PromptedTalks ==
  ASSUME IInv, Talk, Waits, Serve, net' = "up", Prompted, ~Choosing
  PROVE  Talk' /\ Waits'
<1>1. /\ net = "up" /\ out' = <<>> /\ Asking /\ job.at = "reply" /\ conn # "Disconnected" /\ UNCHANGED <<conn, job>>
  BY Served DEF client
<1>2. Choosing' = Choosing /\ Now' = Now
  BY <1>1 DEF Choosing, Now
<1>3. Talk'
  BY <1>1, <1>2 DEF Talk, Prompted, Asking
<1>4. Due'
  BY <1>1, <1>2 DEF Due
<1>5. Idles' /\ Literal' /\ Sasl'
  BY <1>1 DEF Idles, Literal, Sasl, Prompted
<1> QED  BY <1>3, <1>4, <1>5 DEF Waits

(* Said under the tag of the line: it is the tag of the operation.         *)
LEMMA SaidReplied ==
  ASSUME IInv, Talk, Waits, Serve, InCommand, NEW L, NEW ok, NEW b, Said(out[1].tag, L, ok), Session(b),
         \A x \in L : x.kind \notin {"tagged", "plus"}
  PROVE  Replied
<1>1. net = "up" /\ out # <<>> /\ Clean(in) /\ Clean(srv.news) /\ in \in Seq(ItemSet) /\ ServerTypes
  BY Served
<1>2. Answer(in') /\ in'[Len(in')].tag = out[1].tag
  <2>1. PICK t : t = out[1].tag
    OBVIOUS
  <2> QED  BY <1>1, <2>1, SaidAnswer
<1>3. Choosing => out[1].tag = job.tag
  BY <1>1 DEF Waits, Due
<1>4. srv.idle = 0 /\ srv.literal = "none" /\ ~srv.sasl
  BY DEF InCommand
<1>5. srv'.idle = 0 /\ srv'.literal = "none" /\ ~srv'.sasl /\ Clean(srv'.news)
  BY <1>4, NothingLeft DEF Session
<1> QED  BY <1>2, <1>3, <1>5 DEF Replied

(* The line that continues a command is answered.                          *)
LEMMA ContinuationTalks ==
  ASSUME IInv, Talk, Waits, Serve, ~InCommand, ServeContinuation(out[1])
  PROVE  net' = "up" /\ Replied
<1>1. /\ net = "up" /\ out # <<>> /\ Clean(in) /\ Clean(srv.news) /\ in \in Seq(ItemSet) /\ LinkTypes /\ ServerTypes /\ BoundTypes
      /\ job.at = "reply" /\ job.todo \in Todos /\ Now = job.todo[1]
  BY Served
<1>2. PICK c \in LineSet : c = out[1]
  BY Served
<1>3. /\ net' = net
      /\ \/ srv.literal # "none" /\ Said(srv.cont, {}, TRUE) /\ srv'.news = <<>> /\ srv'.literal = "none"
            /\ srv'.idle = srv.idle /\ srv'.sasl = srv.sasl
         \/ srv.sasl /\ Added("tagged") /\ srv'.news = srv.news /\ ~srv'.sasl
            /\ srv'.idle = srv.idle /\ srv'.literal = srv.literal
         \/ srv.idle # 0 /\ Added("tagged") /\ srv'.news = srv.news /\ srv'.idle = 0
            /\ srv'.literal = srv.literal /\ srv'.sasl = srv.sasl
  BY <1>1, <1>2, ServeContinuationServed
<1>4. <<"wait", "DONE">>[1] = "wait" /\ <<"DONE">>[1] = "DONE" /\ <<"literal">>[1] = "literal" /\ <<"XOAUTH2">>[1] = "XOAUTH2"
  OBVIOUS
<1>5. ~Choosing
  <2>1. srv.literal # "none" \/ srv.sasl \/ srv.idle # 0
    BY DEF InCommand
  <2>2. job.todo \in {<<"DONE">>, <<"literal">>, <<"XOAUTH2">>}
    BY <1>1, <2>1 DEF Waits, Idles, Literal, Sasl
  <2> QED  BY <1>1, <1>4, <2>2 DEF Choosing, Selecting
<1>6. Answer(in')
  <2>1. CASE \E t : Said(t, {}, TRUE)
    <3>1. PICK t, L, ok : Said(t, L, ok) /\ L = {}
      BY <2>1
    <3> QED  BY <1>1, <3>1, SaidAnswer
  <2>2. CASE Added("tagged")
    <3>1. PICK k : k = "tagged"
      OBVIOUS
    <3> QED  BY <1>1, <2>2, <3>1, AddedTo
  <2> QED  BY <1>3, <2>1, <2>2
<1>7. OneWait
  BY DEF IInv
<1>8. srv'.idle = 0 /\ srv'.literal = "none" /\ ~srv'.sasl /\ Clean(srv'.news)
  BY <1>1, <1>3, <1>7, NothingLeft DEF OneWait
<1> QED  BY <1>1, <1>3, <1>5, <1>6, <1>8 DEF Replied

LEMMA LinesOfServer ==
  /\ \A x \in Plain : x.kind \notin {"tagged", "plus"}
  /\ \A m, v, B : \A x \in Fetches(m, v, B) : x.kind \notin {"tagged", "plus"}
  /\ \A v : \A x \in Picked(v) : x.kind \notin {"tagged", "plus"}
BY DEF Plain, Fetches, Picked

LEMMA RefuseTalks ==
  ASSUME IInv, Talk, Waits, Serve, InCommand, Refuse(out[1])
  PROVE  net' = "up" /\ Replied
<1>1. net = "up" /\ LinkTypes /\ ServerTypes /\ BoundTypes
  BY Served
<1>2. PICK c \in LineSet : c = out[1]
  BY Served
<1> DEFINE L == IF "partial" \in Faults /\ Legal(c) /\ c.verb = "UIDFETCH" THEN Fetches(srv.box, box[srv.box].validity, {}) ELSE {}
<1>3. net' = net /\ (\E b : Session(b)) /\ Said(c.tag, L, FALSE)
  BY <1>1, <1>2, RefuseServed
<1>4. \A x \in L : x.kind \notin {"tagged", "plus"}
  BY LinesOfServer
<1> HIDE DEF L
<1> QED  BY <1>1, <1>2, <1>3, <1>4, SaidReplied

LEMMA SessionTalks ==
  ASSUME IInv, Talk, Waits, Serve, InCommand, ServeSession(out[1])
  PROVE  net' \in {"up", "cut"} /\ (Replied \/ (net' = "up" /\ Prompted /\ ~Choosing))
<1>1. /\ net = "up" /\ LinkTypes /\ ServerTypes /\ BoundTypes /\ in \in Seq(ItemSet) /\ Clean(in) /\ Clean(srv.news)
      /\ (out[1].verb = Now \/ (Now = "XOAUTH2" /\ out[1].verb = "ack")) /\ job.todo \in Todos /\ Now = job.todo[1]
  BY Served
<1>2. PICK c \in LineSet : c = out[1]
  BY Served
<1>3. /\ net' \in {"up", "cut"}
      /\ \/ /\ c.verb = "APPEND" /\ Added("plus") /\ srv'.news = srv.news
            /\ srv'.idle = srv.idle /\ srv'.sasl = srv.sasl /\ net' = net
         \/ /\ c.verb = "IDLE" /\ BeginsIdle /\ srv'.news = <<>> /\ net' = net
            /\ srv'.sasl = srv.sasl /\ srv'.literal = srv.literal
         \/ Said(c.tag, Plain, TRUE) /\ Session(srv.box)
  BY <1>1, <1>2, ServeSessionServed
<1>4. srv.literal = "none" /\ ~srv.sasl /\ srv.idle = 0
  BY DEF InCommand
<1>5. CASE c.verb = "APPEND" /\ Added("plus") /\ srv'.news = srv.news /\ srv'.idle = srv.idle /\ srv'.sasl = srv.sasl /\ net' = net
  <2>1. Now = "APPEND" /\ job.todo = <<"APPEND", "literal">>
    BY <1>1, <1>2, <1>5, TodoIs
  <2>2. Prompt(in')
    <3>1. PICK k : k = "plus"
      OBVIOUS
    <3> QED  BY <1>1, <1>5, <3>1, AddedTo
  <2>3. Prompted
    BY <1>1, <1>4, <1>5, <2>1, <2>2 DEF Prompted
  <2> QED  BY <1>1, <1>5, <2>1, <2>3 DEF Choosing, Selecting
<1>6. CASE c.verb = "IDLE" /\ BeginsIdle /\ srv'.news = <<>> /\ net' = net /\ srv'.sasl = srv.sasl /\ srv'.literal = srv.literal
  <2>1. Now = "IDLE" /\ job.todo = Idling
    BY <1>1, <1>2, <1>6, TodoIs
  <2>2. Prompt(in')
    BY <1>1, <1>6, BeginsPrompt
  <2>3. Prompted
    BY <1>4, <1>6, <2>1, <2>2, NothingLeft DEF Prompted
  <2> QED  BY <1>1, <1>6, <2>1, <2>3 DEF Choosing, Selecting
<1>7. CASE Said(c.tag, Plain, TRUE) /\ Session(srv.box)
  BY <1>2, <1>3, <1>7, LinesOfServer, SaidReplied
<1> QED  BY <1>3, <1>5, <1>6, <1>7

LEMMA RefuseXOAuth2Talks ==
  ASSUME IInv, Talk, Waits, Serve, InCommand, RefuseXOAuth2(out[1])
  PROVE  net' = "up" /\ Prompted /\ ~Choosing
<1>1. /\ net = "up" /\ LinkTypes /\ ServerTypes /\ BoundTypes /\ in \in Seq(ItemSet) /\ Clean(in) /\ Clean(srv.news)
      /\ (out[1].verb = Now \/ (Now = "XOAUTH2" /\ out[1].verb = "ack")) /\ job.todo \in Todos /\ Now = job.todo[1]
  BY Served
<1>2. PICK c \in LineSet : c = out[1]
  BY Served
<1>3. net' = net /\ Added("plus") /\ c.verb = "XOAUTH2" /\ srv'.news = srv.news /\ srv'.idle = srv.idle /\ srv'.literal = srv.literal
  BY <1>1, <1>2, RefuseXOAuth2Served
<1>4. Now = "XOAUTH2" /\ job.todo = <<"XOAUTH2">>
  BY <1>1, <1>2, <1>3, TodoIs
<1>5. Prompt(in')
  <2>1. PICK k : k = "plus"
    OBVIOUS
  <2> QED  BY <1>1, <1>3, <2>1, AddedTo
<1>6. srv.literal = "none" /\ srv.idle = 0
  BY DEF InCommand
<1> QED  BY <1>1, <1>3, <1>4, <1>5, <1>6 DEF Prompted, Choosing, Selecting

LEMMA ServeTalks ==
  ASSUME IInv, Talk, Waits, Serve
  PROVE  Talk' /\ Waits'
<1>1. net = "up" /\ LinkTypes /\ ServerTypes /\ BoundTypes
  BY Served
<1>2. PICK c \in LineSet : c = out[1]
  BY Served
<1>3. CASE ~InCommand /\ ServeContinuation(out[1])
  BY <1>3, ContinuationTalks, RepliedTalks
<1>4. CASE InCommand /\ Refuse(out[1])
  BY <1>4, RefuseTalks, RepliedTalks
<1>5. CASE InCommand /\ RefuseXOAuth2(out[1])
  BY <1>5, RefuseXOAuth2Talks, PromptedTalks
<1>6. CASE InCommand /\ ServeSession(out[1])
  BY <1>6, SessionTalks, RepliedTalks, PromptedTalks
<1>7. CASE InCommand /\ Legal(out[1]) /\ (ServeSelect(out[1]) \/ ServeFetch(out[1]) \/ ServeStore(out[1]) \/ ServeRemoval(out[1]))
  <2>1. net' = net /\ \E b : Session(b)
    BY <1>1, <1>2, <1>7, ServeSelectServed, ServeFetchServed, ServeStoreServed, ServeRemovalServed
  <2>2. \E L : Said(c.tag, L, TRUE) /\ \A x \in L : x.kind \notin {"tagged", "plus"}
    <3>1. CASE ServeSelect(c)
      <4>1. PICK L : L = Picked(box[c.box].validity) \cup Plain \cup Fetches(c.box, box[c.box].validity, {})
        OBVIOUS
      <4>2. Said(c.tag, L, TRUE)
        BY <1>1, <3>1, <4>1, ServeSelectServed
      <4>3. \A x \in L : x.kind \notin {"tagged", "plus"}
        BY <4>1, LinesOfServer
      <4> QED  BY <4>2, <4>3
    <3>2. CASE ServeFetch(c)
      <4>1. PICK L : L = Fetches(srv.box, box[srv.box].validity, IF c.verb = "BODY" THEN Meant(c) ELSE {})
        OBVIOUS
      <4>2. Said(c.tag, L, TRUE)
        BY <1>1, <1>2, <1>7, <3>2, <4>1, ServeFetchServed
      <4>3. \A x \in L : x.kind \notin {"tagged", "plus"}
        BY <4>1, LinesOfServer
      <4> QED  BY <4>2, <4>3
    <3>3. CASE ServeStore(c)
      BY <1>1, <1>2, <1>7, <3>3, ServeStoreServed, LinesOfServer
    <3>4. CASE ServeRemoval(c)
      BY <1>1, <1>2, <1>7, <3>4, ServeRemovalServed, LinesOfServer
    <3> QED  BY <1>2, <1>7, <3>1, <3>2, <3>3, <3>4
  <2>3. Replied
    BY <1>2, <1>7, <2>1, <2>2, SaidReplied
  <2> QED  BY <1>1, <2>1, <2>3, RepliedTalks
<1> QED  BY <1>3, <1>4, <1>5, <1>6, <1>7, Served

(* What other clients do is told while the server idles, or with the next  *)
(* answer.                                                                 *)
LEMMA OthersTalks ==
  ASSUME IInv, Talk, Waits, Others
  PROVE  Talk' /\ Waits'
<1>1. PICK m \in Mailboxes : \E b, line : Other(m, b, line)
  BY OthersIs
<1>2. PICK b, line : Other(m, b, line)
  BY <1>1
<1>3. b \in BoxSet /\ line \in ItemSet /\ line.kind \notin {"tagged", "plus"} /\ Announce(m, b, line)
  BY <1>2 DEF Other, Fetches
<1>4. Announced(line) /\ UNCHANGED <<client, net, out, job>> /\ in \in Seq(ItemSet) /\ srv.news \in Seq(ItemSet)
      /\ (job.todo # <<>> => job.todo \in Todos /\ Now = job.todo[1])
  <2>1. job \in JobSet /\ (job.todo # <<>> => job.op # "none")
    BY DEF IInv, Types, ClientTypes, JobSet
  <2> QED  BY <1>3, <2>1, AnnounceServed, NowIs DEF IInv, Types, LinkTypes, ServerTypes, SessionSet
<1>5. CASE UNCHANGED <<in, srv>>
  BY <1>4, <1>5, KeptTalks DEF client
<1>6. CASE UNCHANGED in /\ srv'.news = Append(srv.news, line) /\ srv'.idle = srv.idle /\ srv'.sasl = srv.sasl /\ srv'.literal = srv.literal
  <2>1. Clean(srv'.news)
    <3>1. PICK n \in Seq(ItemSet) : n = srv.news
      BY <1>4
    <3>2. Clean(n)
      BY <3>1 DEF Talk
    <3>3. Clean(Append(n, line))
      BY <1>3, <3>2, AppendProperties, LenProperties DEF Clean
    <3> QED  BY <1>6, <3>1, <3>3
  <2> QED  BY <1>4, <1>6, <2>1 DEF client, Talk, Waits, Idles, Literal, Sasl, Due, Choosing, Asking, Now
<1>7. CASE srv.idle # 0 /\ net = "up" /\ in' = Append(in, line) /\ UNCHANGED srv
  <2>1. (Clean(in) => Clean(in')) /\ (Prompt(in) => Prompt(in'))
    <3>1. Clean(in) => Clean(in')
      BY <1>3, <1>4, <1>7, AppendProperties, LenProperties DEF Clean
    <3>2. ASSUME Prompt(in) PROVE Prompt(in')
      <4>1. DOMAIN in = 1..Len(in) /\ Len(in) \in Nat /\ DOMAIN in' = 1..Len(in) + 1 /\ in'[Len(in) + 1] = line
            /\ \A i \in 1..Len(in) : in'[i] = in[i]
        BY <1>3, <1>4, <1>7, AppendProperties, LenProperties
      <4>2. PICK k \in DOMAIN in : in[k].kind = "plus" /\ \A i \in DOMAIN in \ {k} : in[i].kind \notin {"tagged", "plus"}
        BY <3>2 DEF Prompt
      <4>3. k \in DOMAIN in' /\ in'[k].kind = "plus"
        BY <4>1, <4>2
      <4>4. \A i \in DOMAIN in' \ {k} : in'[i].kind \notin {"tagged", "plus"}
        BY <1>3, <4>1, <4>2
      <4> QED  BY <4>3, <4>4 DEF Prompt
    <3> QED  BY <3>1, <3>2
  <2>2. Clean(in) \/ Prompt(in)
    BY <1>7 DEF Waits, Idles
  <2>3. srv.literal = "none" /\ ~srv.sasl
    BY <1>7 DEF IInv, OneWait
  <2>4. <<"wait", "DONE">>[1] = "wait" /\ <<"DONE">>[1] = "DONE" /\ Idling[1] = "IDLE"
    BY DEF Idling
  <2>5. /\ ~Choosing /\ ~(job.at = "reply" /\ Now = "greeting")
        /\ (job.at # "reply" => Clean(in)) /\ (out # <<>> => Clean(in))
    <3>1. job.todo \in {Idling, <<"wait", "DONE">>, <<"DONE">>}
      BY <1>7 DEF Waits, Idles
    <3>2. job.todo # <<>>
      BY <3>1 DEF Idling
    <3>3. Now \in {"wait", "DONE", "IDLE"}
      BY <1>4, <2>4, <3>1, <3>2
    <3> QED  BY <3>3 DEF Talk, Choosing, Selecting
  <2>6. Idles'
    BY <1>4, <1>7, <2>1 DEF Waits, Idles
  <2>7. Literal' /\ Sasl' /\ Due'
    BY <1>4, <1>7, <2>3, <2>5 DEF Literal, Sasl, Due, Choosing, Now
  <2>8. Talk'
    BY <1>4, <1>7, <2>1, <2>2, <2>5 DEF Talk, Asking, Now, client
  <2> QED  BY <2>6, <2>7, <2>8 DEF Waits
<1> QED  BY <1>4, <1>5, <1>6, <1>7 DEF Announced

(* What is left over stays left over.                                      *)
LEMMA LostStays ==
  ASSUME [Next]_vars, ~lost'
  PROVE  ~lost
<1>1. lost' = lost \/ ReadDone \/ ReadFails
  BY DEF Next, vars, history, Type, ClearCache, HandlerGivesUp, Cut, JobStep, Establish, UpgradeToTLS, CloseConnection, WriteCommand, ReadAnswer,
         ReadLine, ReadXOAuth2, IdleWait, Serve, Others, Deliver, Withdraw, Flag, Recreate, Announce
<1> QED  BY <1>1 DEF ReadDone, ReadFails, StreamGivesUp

(* While nothing is left over, the conversation is as Talk and Waits say.  *)
LEMMA NextTalks ==
  ASSUME IInv, Placed, TalkInv, [Next]_vars
  PROVE  TalkInv'
<1> SUFFICES ASSUME ~lost' PROVE Talk' /\ Waits'
  BY DEF TalkInv
<1>2. ~lost
  BY LostStays
<1>3. Talk /\ Waits
  BY <1>2 DEF TalkInv
<1>4. CASE \E op \in CliOps \ {"clear"} : Type(op)
  BY <1>3, <1>4, TypeTalks
<1>5. CASE ClearCache \/ HandlerGivesUp \/ Cut
  BY <1>3, <1>5, PromptTalks
<1>6. CASE JobStep
  BY <1>3, <1>6, EstablishTalks, UpgradeTalks, CloseConnectionTalks, WriteCommandTalks, ReadAnswerTalks, ReadLineTalks, ReadXOAuth2Talks,
     IdleWaitTalks, ReadDoneTalks, ReadFailsTalks DEF JobStep
<1>7. CASE Serve
  BY <1>3, <1>7, ServeTalks
<1>8. CASE Others
  BY <1>3, <1>8, OthersTalks
<1>9. CASE UNCHANGED vars
  BY <1>3, <1>9, KeptTalks DEF vars, client, link, server
<1> QED  BY <1>4, <1>5, <1>6, <1>7, <1>8, <1>9 DEF Next

LEMMA InitTalks == Init => TalkInv
<1> SUFFICES ASSUME Init PROVE Talk /\ Waits
  BY DEF TalkInv
<1>1. PICK start \in Starts : TRUE
  BY DEF Init
<1>2. /\ out = <<>> /\ in = <<>> /\ job = NoJob /\ (net = "none" <=> conn = "Disconnected")
      /\ srv.news = <<>> /\ srv.idle = 0 /\ ~srv.sasl /\ srv.literal = "none"
  BY DEF Init, NoSession
<1>3. job.at = "step" /\ job.todo = <<>>
  BY <1>2 DEF NoJob
<1> QED  BY <1>2, <1>3, NothingLeft DEF Talk, Waits, Idles, Literal, Sasl, Due, Choosing, Asking

LEMMA TalkInvariant == Spec => []TalkInv
<1>1. IInv /\ Placed /\ TalkInv /\ [Next]_vars => TalkInv'
  BY NextTalks
<1> QED  BY <1>1, InitTalks, TypesInv, PTL DEF Spec

(* Nothing but DONE is sent to a server that idles, whatever ended the     *)
(* wait: asyncIdleDone writes DONE before anything else is written.        *)
THEOREM InIdleTheorem == Spec => []NothingInIdle
<1>1. IInv /\ TalkInv => NothingInIdle
  <2> SUFFICES ASSUME IInv, TalkInv, ~lost, srv.idle # 0, out # <<>> PROVE Head(out).verb = "DONE"
    BY DEF NothingInIdle
  <2>1. Talk /\ Waits
    BY DEF TalkInv
  <2>2. net = "up" /\ (out[1].verb = Now \/ (Now = "XOAUTH2" /\ out[1].verb = "ack")) /\ job.at = "reply"
    BY <2>1 DEF Talk, Asking
  <2>3. job.todo = <<"DONE">>
    BY <2>1, <2>2 DEF Waits, Idles
  <2>4. job \in JobSet /\ out \in Seq(LineSet)
    BY DEF IInv, Types, ClientTypes, LinkTypes
  <2>5. Now = "DONE"
    <3>1. <<"DONE">>[1] = "DONE" /\ <<"DONE">> # <<>>
      OBVIOUS
    <3> QED  BY <2>3, <2>4, <3>1, NowIs DEF JobSet
  <2>6. Head(out) = out[1]
    BY <2>4, OutTags
  <2> QED  BY <2>2, <2>5, <2>6
<1> QED  BY <1>1, TypesInv, TalkInvariant, PTL

-----------------------------------------------------------------------------
(* Lines of a set stay lines of the set: read, said, added.                *)
LEMMA AllRead ==
  ASSUME in \in Seq(ItemSet), NEW n \in 1..Len(in), Consume(n), NEW P, All(in, P)
  PROVE  All(in', P)
<1>1. n \in Nat /\ n <= Len(in) /\ Len(in) \in Nat /\ DOMAIN in = 1..Len(in)
  BY LenProperties
<1>2. DOMAIN in' = 1..(Len(in) - n) /\ \A i \in 1..(Len(in) - n) : in'[i] = in[n + i]
  BY <1>1, Rest DEF Consume
<1>3. \A i \in DOMAIN in' : n + i \in DOMAIN in /\ in'[i] = in[n + i]
  BY <1>1, <1>2
<1> QED  BY <1>3 DEF All

LEMMA AllOfSaid ==
  ASSUME in \in Seq(ItemSet), ServerTypes, NEW t, NEW L, NEW ok, Said(t, L, ok), NEW P, All(in, P), All(srv.news, P), L \subseteq P
  PROVE  /\ \A i \in DOMAIN in' \ {Len(in')} : in'[i] \in P
         /\ in' # <<>> /\ in' \in Seq(ItemSet) /\ Len(in') \in DOMAIN in' /\ Status(in'[Len(in')]) /\ in'[Len(in')].tag = t
         /\ in'[Len(in')].ok = ok /\ in'[Len(in')] \in Unmarked
<1>1. Len(in) \in Nat /\ Len(in') \in Nat /\ DOMAIN in = 1..Len(in) /\ DOMAIN in' = 1..Len(in') /\ Len(srv.news) \in Nat
  BY LenProperties DEF Said, ServerTypes, SessionSet
<1>2. /\ Len(in') > Len(in) + Len(srv.news) /\ in'[Len(in')].kind = "tagged" /\ in'[Len(in')].tag = t
      /\ \A i \in 1..Len(in) : in'[i] = in[i]
      /\ \A i \in Len(in) + 1..Len(in) + Len(srv.news) : in'[i] = srv.news[i - Len(in)] /\ i - Len(in) \in DOMAIN srv.news
      /\ \A i \in Len(in) + Len(srv.news) + 1..Len(in') - 1 : in'[i] \in L
      /\ in' \in Seq(ItemSet) /\ in'[Len(in')].ok = ok /\ in'[Len(in')] \in ItemSet /\ ~in'[Len(in')].slash
  BY DEF Said
<1>3. ASSUME NEW i \in DOMAIN in' \ {Len(in')}
      PROVE  in'[i] \in P
  <2>1. i \in 1..Len(in) \/ i \in Len(in) + 1..Len(in) + Len(srv.news) \/ i \in Len(in) + Len(srv.news) + 1..Len(in') - 1
    BY <1>1, <1>2
  <2>2. CASE i \in 1..Len(in)
    BY <1>1, <1>2, <2>2 DEF All
  <2>3. CASE i \in Len(in) + 1..Len(in) + Len(srv.news)
    BY <1>2, <2>3 DEF All
  <2>4. CASE i \in Len(in) + Len(srv.news) + 1..Len(in') - 1
    BY <1>2, <2>4
  <2> QED  BY <2>1, <2>2, <2>3, <2>4
<1>4. in' # <<>> /\ Len(in') \in DOMAIN in'
  BY <1>1, <1>2, EmptySeq
<1> QED  BY <1>2, <1>3, <1>4 DEF Status, Unmarked

LEMMA AllOfAdded ==
  ASSUME in \in Seq(ItemSet), NEW k, Added(k), NEW P, All(in, P)
  PROVE  /\ \A i \in DOMAIN in' \ {Len(in')} : in'[i] \in P
         /\ in' # <<>> /\ in' \in Seq(ItemSet) /\ Len(in') \in DOMAIN in' /\ in'[Len(in')].kind = k /\ in'[Len(in')] \in Unmarked
<1>1. Len(in) \in Nat /\ DOMAIN in = 1..Len(in) /\ DOMAIN in' = 1..Len(in) + 1 /\ Len(in') = Len(in) + 1 /\ in' # <<>>
  BY LenProperties, EmptySeq DEF Added
<1>2. /\ in' \in Seq(ItemSet) /\ in'[Len(in) + 1].kind = k /\ ~in'[Len(in) + 1].slash /\ \A i \in 1..Len(in) : in'[i] = in[i]
  BY DEF Added
<1>3. \A i \in DOMAIN in' \ {Len(in')} : in'[i] \in P
  BY <1>1, <1>2 DEF All
<1>4. in'[Len(in')] \in ItemSet /\ Len(in') \in DOMAIN in'
  BY <1>1, <1>2, ElementOfSeq
<1> QED  BY <1>1, <1>2, <1>3, <1>4 DEF Unmarked

LEMMA AllOfBegun ==
  ASSUME in \in Seq(ItemSet), ServerTypes, BeginsIdle, NEW P, All(in, P), All(srv.news, P)
  PROVE  \A i \in DOMAIN in' : in'[i] \in P \/ (in'[i].kind = "plus" /\ in'[i] \in Unmarked)
<1>1. Len(in) \in Nat /\ Len(srv.news) \in Nat /\ DOMAIN in = 1..Len(in) /\ DOMAIN in' = 1..Len(in')
      /\ Len(in') = Len(in) + 1 + Len(srv.news) /\ in' \in Seq(ItemSet)
  BY LenProperties DEF BeginsIdle, ServerTypes, SessionSet
<1>2. /\ in'[Len(in) + 1].kind = "plus" /\ ~in'[Len(in) + 1].slash
      /\ \A i \in 1..Len(in) : in'[i] = in[i]
      /\ \A i \in Len(in) + 2..Len(in') : in'[i] = srv.news[i - Len(in) - 1] /\ i - Len(in) - 1 \in DOMAIN srv.news
  BY DEF BeginsIdle
<1>3. ASSUME NEW i \in DOMAIN in' PROVE in'[i] \in P \/ (in'[i].kind = "plus" /\ in'[i] \in Unmarked)
  <2>1. i \in 1..Len(in) \/ i = Len(in) + 1 \/ i \in Len(in) + 2..Len(in')
    <3>1. PICK n \in Nat : n = Len(in)
      BY <1>1
    <3>2. PICK l \in Nat : l = Len(in')
      <4>1. Len(in') \in Nat
        BY <1>1, LenProperties
      <4> QED  BY <4>1
    <3>3. i \in 1..l
      BY <1>1, <3>2
    <3>4. i \in 1..n \/ i = n + 1 \/ i \in n + 2..l
      BY <3>3
    <3> QED  BY <3>1, <3>2, <3>4
  <2>2. CASE i \in 1..Len(in)
    BY <1>1, <1>2, <2>2 DEF All
  <2>3. CASE i = Len(in) + 1
    <3>1. in'[i] \in ItemSet
      BY <1>1, ElementOfSeq
    <3> QED  BY <1>2, <2>3, <3>1 DEF Unmarked
  <2>4. CASE i \in Len(in) + 2..Len(in')
    BY <1>2, <2>4 DEF All
  <2> QED  BY <2>1, <2>2, <2>3, <2>4
<1> QED  BY <1>3

LEMMA AllAppended ==
  ASSUME NEW s \in Seq(ItemSet), NEW x \in ItemSet, NEW P, All(s, P), x \in P
  PROVE  All(Append(s, x), P)
BY AppendProperties, LenProperties DEF All

-----------------------------------------------------------------------------
(* Flag lists the parser stops at: none is in a refused answer, provided   *)
(* the server refuses nothing half answered and nobody else sets flags.    *)
Plainly == "partial" \notin Faults /\ TRUE \notin FlagSets

LEMMA Unslashed ==
  ASSUME in \in Seq(ItemSet), NoSlash, Clean(in) \/ Prompt(in)
  PROVE  All(in, Unmarked)
<1>1. in # <<>> => Len(in) \in DOMAIN in
  BY LenProperties, EmptySeq
<1>2. Accepted(in) => ~Clean(in) /\ ~Prompt(in)
  BY <1>1, Marks DEF Accepted, Status
<1> QED  BY <1>2 DEF NoSlash

LEMMA NothingSlashed == All(<<>>, Unmarked)
BY DEF All

LEMMA ConsumedSlash ==
  ASSUME in \in Seq(ItemSet), NoSlash, NEW n \in 1..Len(in), Consume(n), srv'.news = srv.news
  PROVE  NoSlash'
<1>1. CASE All(in, Unmarked)
  BY <1>1, AllRead DEF NoSlash
<1>2. CASE Accepted(in)
  <2>1. n \in Nat /\ n <= Len(in) /\ Len(in) \in Nat
    BY LenProperties
  <2>2. /\ in' \in Seq(ItemSet) /\ Len(in') = Len(in) - n
        /\ \A i \in 1..(Len(in) - n) : in'[i] = in[n + i]
    BY <2>1, Rest DEF Consume
  <2>3. CASE n = Len(in)
    <3>1. in' = <<>>
      BY <2>1, <2>2, <2>3, EmptySeq
    <3> QED  BY <3>1, NothingSlashed DEF NoSlash
  <2>4. CASE n # Len(in)
    <3>1. in' # <<>> /\ Len(in') \in 1..(Len(in) - n) /\ n + Len(in') = Len(in)
      BY <2>1, <2>2, <2>4, EmptySeq
    <3>2. in'[Len(in')] = in[Len(in)]
      BY <2>2, <3>1
    <3> QED  BY <1>2, <3>1, <3>2 DEF NoSlash, Accepted
  <2> QED  BY <2>3, <2>4
<1> QED  BY <1>1, <1>2 DEF NoSlash

LEMMA KeptSlash ==
  ASSUME NoSlash, srv'.news = srv.news, in' \in {in, <<>>}
  PROVE  NoSlash'
BY NothingSlashed DEF NoSlash

LEMMA EstablishSlash ==
  ASSUME IInv, NoSlash, Establish
  PROVE  NoSlash'
<1>1. CASE UNCHANGED <<link, srv>>
  BY <1>1, KeptSlash DEF link
<1>2. CASE /\ \E ok \in BOOLEAN : in' = <<[Item("greeting") EXCEPT !.ok = ok]>>
           /\ \E offer \in Offers : srv' = [NoSession EXCEPT !.offer = offer]
  <2>1. srv'.news = <<>>
    BY <1>2 DEF NoSession
  <2>2. PICK x : in' = <<x>> /\ ~x.slash
    BY <1>2 DEF Item
  <2>3. in' \in Seq(ItemSet)
    <3>1. conn = "Disconnected" \/ conn # "Disconnected"
      OBVIOUS
    <3> QED  BY EstablishTypes DEF IInv, Types, LinkTypes
  <2>4. x \in ItemSet
    <3>1. 1 \in DOMAIN in' /\ in'[1] = x
      BY <2>2
    <3> QED  BY <2>3, <3>1, ElementOfSeq, LenProperties
  <2> QED  BY <2>1, <2>2, <2>4, NothingSlashed DEF NoSlash, All, Unmarked
<1>3. CASE UNCHANGED <<in, srv>>
  BY <1>3, KeptSlash
<1> QED  BY <1>1, <1>2, <1>3 DEF Establish

LEMMA ReadSlash ==
  ASSUME IInv, Talk, Waits, NoSlash, ReadAnswer \/ ReadLine \/ ReadXOAuth2 \/ IdleWait \/ ReadDone \/ ReadFails, ~lost'
  PROVE  NoSlash'
<1>1. srv' = srv /\ in \in Seq(ItemSet)
  BY DEF ReadAnswer, ReadLine, ReadXOAuth2, IdleWait, ReadDone, ReadFails, server, IInv, Types, LinkTypes
<1>2. CASE ReadAnswer \/ ReadDone \/ ReadFails
  BY <1>1, <1>2, ReadAnswerTalks, ReadDoneTalks, ReadFailsTalks, KeptSlash
<1>3. CASE ReadLine
  <2>1. Close > 0 /\ Consume(Close)
    BY <1>3 DEF ReadLine
  <2>2. PICK k \in 1..Len(in) : k = Close
    BY <1>1, <2>1, ClosedBy
  <2> QED  BY <1>1, <2>1, <2>2, ConsumedSlash
<1>4. CASE ReadXOAuth2
  <2>1. in # <<>> /\ Consume(1)
    BY <1>4 DEF ReadXOAuth2
  <2>2. PICK k \in 1..Len(in) : k = 1
    BY <1>1, <2>1, LenProperties, EmptySeq
  <2> QED  BY <1>1, <2>1, <2>2, ConsumedSlash
<1>5. CASE IdleWait
  <2> DEFINE notices == {i \in DOMAIN in : in[i].kind \notin {"tagged", "plus"}}
  <2>1. in' = <<>> \/ (notices # {} /\ Consume(Min(notices)))
    BY <1>5 DEF IdleWait
  <2>2. notices \in SUBSET (1..Len(in)) /\ notices \in SUBSET Nat
    BY <1>1, LenProperties
  <2> HIDE DEF notices
  <2>3. CASE notices # {} /\ Consume(Min(notices))
    <3>1. PICK k \in 1..Len(in) : k = Min(notices)
      BY <2>2, <2>3, MinProperties
    <3> QED  BY <1>1, <2>3, <3>1, ConsumedSlash
  <2> QED  BY <1>1, <2>1, <2>3, KeptSlash
<1> QED  BY <1>2, <1>3, <1>4, <1>5

LEMMA LinesUnmarked == Plain \subseteq Unmarked
BY DEF Plain, Unmarked

LEMMA SaidSlash ==
  ASSUME IInv, NoSlash, Clean(in), NEW t, NEW L, NEW ok, Said(t, L, ok), ok \/ L \subseteq Unmarked, srv'.news = <<>>, ok \in BOOLEAN
  PROVE  NoSlash'
<1>1. in \in Seq(ItemSet) /\ ServerTypes
  BY DEF IInv, Types, LinkTypes
<1>2. CASE ok
  <2>1. in' # <<>> /\ Len(in') \in Nat /\ Status(in'[Len(in')]) /\ in'[Len(in')].ok
    <3>1. Len(in) \in Nat /\ Len(srv.news) \in Nat
      BY <1>1, LenProperties DEF ServerTypes, SessionSet
    <3>2. Len(in') \in Nat /\ Len(in') > Len(in) + Len(srv.news) /\ Status(in'[Len(in')]) /\ in'[Len(in')].ok = ok
          /\ in' \in Seq(ItemSet)
      BY DEF Said, Status
    <3>3. in' # <<>>
      BY <3>1, <3>2, EmptySeq
    <3> QED  BY <1>2, <3>2, <3>3
  <2> QED  BY <2>1, NothingSlashed DEF NoSlash, Accepted
<1>3. CASE L \subseteq Unmarked
  <2>1. All(in, Unmarked) /\ All(srv.news, Unmarked)
    BY <1>1, Unslashed DEF NoSlash
  <2>2. PICK P : P = Unmarked
    OBVIOUS
  <2>3. (\A i \in DOMAIN in' \ {Len(in')} : in'[i] \in P) /\ in'[Len(in')] \in Unmarked
    BY <1>1, <1>3, <2>1, <2>2, AllOfSaid
  <2> QED  BY <2>2, <2>3, NothingSlashed DEF NoSlash, All
<1> QED  BY <1>2, <1>3

LEMMA AddedSlash ==
  ASSUME IInv, NoSlash, Clean(in), NEW k, Added(k), srv'.news = srv.news
  PROVE  NoSlash'
<1>1. in \in Seq(ItemSet)
  BY DEF IInv, Types, LinkTypes
<1>2. PICK P : P = Unmarked
  OBVIOUS
<1>3. All(in, P)
  BY <1>1, <1>2, Unslashed
<1>4. (\A i \in DOMAIN in' \ {Len(in')} : in'[i] \in P) /\ in'[Len(in')] \in Unmarked
  BY <1>1, <1>3, AllOfAdded
<1> QED  BY <1>2, <1>4 DEF NoSlash, All

LEMMA BegunSlash ==
  ASSUME IInv, NoSlash, Clean(in), BeginsIdle, srv'.news = <<>>
  PROVE  NoSlash'
<1>1. in \in Seq(ItemSet) /\ ServerTypes
  BY DEF IInv, Types, LinkTypes
<1>2. PICK P : P = Unmarked
  OBVIOUS
<1>3. All(in, P) /\ All(srv.news, P)
  BY <1>1, <1>2, Unslashed DEF NoSlash
<1>4. \A i \in DOMAIN in' : in'[i] \in P \/ (in'[i].kind = "plus" /\ in'[i] \in Unmarked)
  BY <1>1, <1>3, AllOfBegun
<1> QED  BY <1>2, <1>4, NothingSlashed DEF NoSlash, All

LEMMA ServeSlash ==
  ASSUME Plainly, IInv, Talk, Waits, NoSlash, Serve
  PROVE  NoSlash'
<1>1. net = "up" /\ LinkTypes /\ ServerTypes /\ BoundTypes /\ Clean(in)
  BY Served
<1>2. PICK c \in LineSet : c = out[1]
  BY Served
<1> DEFINE Says == \E t, L, ok : /\ Said(t, L, ok) /\ srv'.news = <<>> /\ ok \in BOOLEAN
                                 /\ ok \/ L \subseteq Unmarked
           Adds == \E k : Added(k) /\ srv'.news = srv.news
           Begins == BeginsIdle /\ srv'.news = <<>>
<1>3. Says \/ Adds \/ Begins
  <2>1. CASE ServeContinuation(c)
    <3>1. \/ Said(srv.cont, {}, TRUE) /\ srv'.news = <<>>
          \/ Added("tagged") /\ srv'.news = srv.news
      BY <1>1, <2>1, ServeContinuationServed
    <3> QED  BY <3>1
  <2>2. CASE Refuse(c)
    <3> DEFINE L == IF "partial" \in Faults /\ Legal(c) /\ c.verb = "UIDFETCH" THEN Fetches(srv.box, box[srv.box].validity, {}) ELSE {}
    <3>1. (\E b : Session(b)) /\ Said(c.tag, L, FALSE)
      BY <1>1, <2>2, RefuseServed
    <3>2. L = {}
      BY DEF Plainly
    <3> HIDE DEF L
    <3>3. srv'.news = <<>> /\ L \subseteq Unmarked
      BY <3>1, <3>2 DEF Session
    <3> QED  BY <3>1, <3>3
  <2>3. CASE RefuseXOAuth2(c)
    BY <1>1, <2>3, RefuseXOAuth2Served
  <2>4. CASE ServeSession(c)
    <3>1. \/ Added("plus") /\ srv'.news = srv.news
          \/ BeginsIdle /\ srv'.news = <<>>
          \/ Said(c.tag, Plain, TRUE) /\ Session(srv.box)
      BY <1>1, <2>4, ServeSessionServed
    <3> QED  BY <3>1 DEF Session
  <2>5. CASE Legal(c) /\ (ServeSelect(c) \/ ServeFetch(c) \/ ServeStore(c) \/ ServeRemoval(c))
    <3>1. (\E b : Session(b)) /\ (\E L : Said(c.tag, L, TRUE))
      <4>1. CASE ServeSelect(c)
        BY <1>1, <4>1, ServeSelectServed
      <4>2. CASE ServeFetch(c)
        BY <1>1, <2>5, <4>2, ServeFetchServed
      <4>3. CASE ServeStore(c)
        BY <1>1, <2>5, <4>3, ServeStoreServed
      <4>4. CASE ServeRemoval(c)
        BY <1>1, <2>5, <4>4, ServeRemovalServed
      <4> QED  BY <2>5, <4>1, <4>2, <4>3, <4>4
    <3> QED  BY <3>1 DEF Session
  <2> QED  BY <1>2, <2>1, <2>2, <2>3, <2>4, <2>5, Served
<1> QED  BY <1>1, <1>3, SaidSlash, AddedSlash, BegunSlash

LEMMA OthersSlash ==
  ASSUME Plainly, IInv, Talk, Waits, NoSlash, Others
  PROVE  NoSlash'
<1>1. PICK m \in Mailboxes : \E b, line : Other(m, b, line)
  BY OthersIs
<1>2. PICK b, line : Other(m, b, line)
  BY <1>1
<1>3. b \in BoxSet /\ line \in ItemSet /\ ~line.slash /\ Announce(m, b, line)
  <2>1. \A f \in FlagSets : f = FALSE
    <3>1. FlagSets \subseteq BOOLEAN
      BY ImapAssumption
    <3> QED  BY <3>1, Zenon DEF Plainly
  <2> QED  BY <1>2, <2>1 DEF Other
<1>4. Announced(line) /\ in \in Seq(ItemSet) /\ srv.news \in Seq(ItemSet) /\ line \in Unmarked
  BY <1>3, AnnounceServed DEF IInv, Types, LinkTypes, ServerTypes, SessionSet, Unmarked
<1>5. CASE UNCHANGED <<in, srv>>
  BY <1>5 DEF NoSlash
<1>6. CASE UNCHANGED in /\ srv'.news = Append(srv.news, line)
  <2>1. PICK n \in Seq(ItemSet) : n = srv.news
    BY <1>4
  <2>2. All(Append(n, line), Unmarked)
    <3>1. All(n, Unmarked)
      BY <2>1 DEF NoSlash
    <3>2. PICK P : P = Unmarked
      OBVIOUS
    <3> QED  BY <1>3, <1>4, <3>1, <3>2, AllAppended
  <2> QED  BY <1>6, <2>1, <2>2 DEF NoSlash
<1>7. CASE srv.idle # 0 /\ net = "up" /\ in' = Append(in, line) /\ UNCHANGED srv
  <2>1. Clean(in) \/ Prompt(in)
    BY <1>7 DEF Waits, Idles
  <2>2. PICK P : P = Unmarked
    OBVIOUS
  <2>3. All(Append(in, line), P)
    BY <1>3, <1>4, <2>1, <2>2, Unslashed, AllAppended
  <2> QED  BY <1>7, <2>2, <2>3 DEF NoSlash
<1> QED  BY <1>4, <1>5, <1>6, <1>7 DEF Announced

LEMMA NextSlash ==
  ASSUME Plainly, IInv, Placed, TalkInv, SlashInv, [Next]_vars
  PROVE  SlashInv'
<1> SUFFICES ASSUME ~lost' PROVE NoSlash'
  BY DEF SlashInv
<1>2. ~lost
  BY LostStays
<1>3. Talk /\ Waits /\ NoSlash
  BY <1>2 DEF TalkInv, SlashInv
<1>4. CASE (\E op \in CliOps \ {"clear"} : Type(op)) \/ ClearCache \/ HandlerGivesUp \/ Cut \/ UNCHANGED vars
  BY <1>3, <1>4, KeptSlash DEF Type, ClearCache, HandlerGivesUp, Cut, vars, link, server
<1>5. CASE Establish
  BY <1>3, <1>5, EstablishSlash
<1>6. CASE UpgradeToTLS \/ CloseConnection \/ WriteCommand
  BY <1>3, <1>6, KeptSlash DEF UpgradeToTLS, CloseConnection, WriteCommand, link, server
<1>7. CASE ReadAnswer \/ ReadLine \/ ReadXOAuth2 \/ IdleWait \/ ReadDone \/ ReadFails
  BY <1>3, <1>7, ReadSlash
<1>8. CASE Serve
  BY <1>3, <1>8, ServeSlash
<1>9. CASE Others
  BY <1>3, <1>9, OthersSlash
<1> QED  BY <1>4, <1>5, <1>6, <1>7, <1>8, <1>9 DEF Next, JobStep

(* Which line the parser takes the status from, when it reads an answer.   *)
LEMMA ToldBy ==
  ASSUME IInv, Talk, Close > 0, Awaited = "tagged"
  PROVE  /\ Raw = in /\ Last(Raw) = in[Len(in)] /\ Status(in[Len(in)]) /\ in # <<>> /\ Len(in) \in DOMAIN in
         /\ \E k \in DOMAIN in : Told(Raw) = (in[k].slash \/ in[k].ok) /\ (k = Len(in) \/ in[k].slash)
         /\ \A i \in DOMAIN in : in[i].ok \in BOOLEAN /\ in[i].slash \in BOOLEAN
<1>1. in \in Seq(ItemSet) /\ DOMAIN in = 1..Len(in) /\ Len(in) \in Nat
  BY LenProperties DEF IInv, Types, LinkTypes
<1>2. Answer(in) /\ Close = Len(in) /\ in[Close].kind = "tagged" /\ Close \in DOMAIN in /\ in # <<>>
  BY <1>1, StatusRead, ClosedBy DEF Answer
<1>3. PICK raw \in Seq(ItemSet) : raw = Raw
  <2>1. Raw \in Seq(ItemSet)
    BY <1>1, <1>2, RawIs
  <2> QED  BY <2>1
<1>4. raw = in
  BY <1>1, <1>2, <1>3, SubSeqProperties, SeqEqual DEF Raw
<1>5. Last(Raw) = in[Len(in)]
  BY <1>3, <1>4 DEF Last
<1> DEFINE stops == {i \in DOMAIN in : in[i].kind = "tagged" \/ in[i].slash}
<1>7. stops \in SUBSET Nat /\ stops # {}
  BY <1>1, <1>2
<1>8. PICK k \in stops : k = Min(stops)
  BY <1>7, MinProperties
<1>9. Told(in) = (in[k].slash \/ in[k].ok)
  BY <1>7, <1>8 DEF Told
<1>10. k \in DOMAIN in /\ (k = Len(in) \/ in[k].slash)
  BY <1>2, <1>8 DEF Answer
<1>11. \A i \in DOMAIN in : in[i].ok \in BOOLEAN /\ in[i].slash \in BOOLEAN
  BY <1>1, ElementOfSeq DEF ItemSet
<1> QED  BY <1>2, <1>3, <1>4, <1>5, <1>9, <1>10, <1>11 DEF Status

(* The status read is that of the answer, where the parser gets that far;  *)
(* an accepted answer is told as one wherever it stops.                    *)
LEMMA ToldStatus ==
  ASSUME IInv, Talk, NoSlash, Close > 0, Awaited = "tagged"
  PROVE  Told(Raw) = Last(Raw).ok
<1>1. PICK k \in DOMAIN in : Told(Raw) = (in[k].slash \/ in[k].ok) /\ (k = Len(in) \/ in[k].slash)
  BY ToldBy
<1>2. in[k].slash => Accepted(in)
  BY ToldBy DEF NoSlash, All, Unmarked
<1>3. Last(Raw) = in[Len(in)] /\ in[Len(in)].ok \in BOOLEAN /\ in[k].ok \in BOOLEAN /\ in[k].slash \in BOOLEAN
  BY ToldBy
<1> QED  BY <1>1, <1>2, <1>3 DEF Accepted

LEMMA AcceptedTold ==
  ASSUME IInv, Talk, Close > 0, Awaited = "tagged", in[Len(in)].ok
  PROVE  Told(Raw)
<1>1. PICK k \in DOMAIN in : Told(Raw) = (in[k].slash \/ in[k].ok) /\ (k = Len(in) \/ in[k].slash)
  BY ToldBy
<1>2. CASE k = Len(in)
  BY <1>1, <1>2
<1>3. CASE in[k].slash
  BY <1>1, <1>3
<1> QED  BY <1>1, <1>2, <1>3

LEMMA MisledBy ==
  ASSUME [Next]_vars, misled' # misled
  PROVE  ReadAnswer
BY DEF Next, vars, history, Type, ClearCache, HandlerGivesUp, Cut, JobStep, Establish, UpgradeToTLS, CloseConnection, WriteCommand,
       ReadLine, ReadXOAuth2, IdleWait, ReadDone, ReadFails, Serve, Others, Deliver, Withdraw, Flag, Recreate, Announce

LEMMA NextTold ==
  ASSUME IInv, TalkInv, SlashInv, ToldAsAnswered, [Next]_vars
  PROVE  ToldAsAnswered'
<1>1. lost => lost'
  BY LostStays
<1>2. CASE misled' = misled
  BY <1>1, <1>2 DEF ToldAsAnswered
<1>3. CASE misled' # misled
  <2> SUFFICES ASSUME ~lost PROVE FALSE
    BY <1>1 DEF ToldAsAnswered
  <2>1. ReadAnswer
    BY <1>3, MisledBy
  <2>2. Close > 0 /\ Now \in Validated /\ misled' = (misled \/ Told(Raw) # Last(Raw).ok)
    BY <2>1 DEF ReadAnswer
  <2>3. Awaited = "tagged"
    BY <2>2 DEF Awaited, Validated
  <2>4. Told(Raw) = Last(Raw).ok
    BY <2>2, <2>3, ToldStatus DEF TalkInv, SlashInv
  <2>5. misled \in BOOLEAN
    BY DEF IInv, Types, BoundTypes
  <2> QED  BY <1>3, <2>2, <2>4, <2>5
<1> QED  BY <1>2, <1>3

(* An operation is told the status of its own answer unless an answer was  *)
(* left over, provided no flag list comes in a refused answer: the server  *)
(* refuses nothing half answered and no other client sets the flag.  With  *)
(* either the parser stops early and reports OK.                           *)
THEOREM ToldTheorem ==
  ASSUME "partial" \notin Faults, TRUE \notin FlagSets
  PROVE  Spec => []ToldAsAnswered
<1>1. Plainly
  BY DEF Plainly
<1>2. Init => SlashInv /\ ToldAsAnswered
  <2>1. Init => in = <<>> /\ srv.news = <<>> /\ ~misled
    BY DEF Init, NoSession
  <2> QED  BY <2>1, NothingSlashed DEF SlashInv, NoSlash, ToldAsAnswered
<1>3. IInv /\ Placed /\ TalkInv /\ SlashInv /\ ToldAsAnswered /\ [Next]_vars => SlashInv' /\ ToldAsAnswered'
  BY <1>1, NextSlash, NextTold
<1> QED  BY <1>2, <1>3, TypesInv, TalkInvariant, PTL DEF Spec

-----------------------------------------------------------------------------
(* What is cached came from its mailbox.                                   *)

(* EXAMINE is left out: its handler leaves the cache at the UIDVALIDITY it *)
(* had.                                                                    *)
NeverExamines == job.todo # <<>> => job.todo[1] # "EXAMINE"

LEMMA ExamineNext ==
  ASSUME "examine" \notin CliOps, IInv, NeverExamines, [Next]_vars
  PROVE  NeverExamines'
<1>1. CASE \E op \in CliOps \ {"clear"}, m \in NoneOr, port \in {143, 993} : Typing(op, m, port)
  <2>1. PICK op \in CliOps \ {"clear"}, m \in NoneOr, port \in {143, 993} : job'.todo = Script(op, m, port)
    BY <1>1 DEF Typing
  <2>2. op \in CliCommands \ {"clear"} /\ op # "examine"
    BY ImapAssumption
  <2> QED  BY <2>1, <2>2, ScriptTodos DEF NeverExamines
<1>2. CASE job'.todo = job.todo
  BY <1>2 DEF NeverExamines
<1>3. CASE job.op # "none" /\ Rests
  BY <1>3, NextTodo DEF NeverExamines, Rests, IInv, Types, ClientTypes, Selecting
<1> QED  BY <1>1, <1>2, <1>3, TodoNext

(* Nothing but a body depends on what was asked.                           *)
LEMMA BareLines ==
  ASSUME Belong, ~Choosing, ~(job.at = "reply" /\ Now = "BODY")
  PROVE  All(in, Bare)
BY DEF Belong, Arrived, All, AskedFor

LEMMA SameBare ==
  ASSUME UNCHANGED cli
  PROVE  Bare' = Bare
BY DEF Bare, IsHere, Here2

LEMMA NothingAll == \A P : All(<<>>, P)
BY DEF All

(* The mailbox the server has selected is as it was, or it has none.       *)
SameBoxes == srv.box # "none" => box'[srv.box].validity = box[srv.box].validity

LEMMA KeptNews ==
  ASSUME Belong, SameBoxes, \/ srv'.news = <<>>
                            \/ srv'.news = srv.news /\ srv'.box = srv.box
  PROVE  All(srv'.news, Pending')
BY DEF Belong, SameBoxes, All, Pending, At2

LEMMA KeptSettled ==
  ASSUME Settled, SameBoxes, srv'.box \in {srv.box, "none"}, cli'.box \in {cli.box, "none"},
         cli'.box # "none" => cli'.validity = cli.validity
  PROVE  Settled'
BY DEF Settled, SameBoxes

(* An operation takes its next step, or has ended.                         *)
LEMMA StepBelongs ==
  ASSUME Files', Cli', All(srv'.news, Pending'), All(in', Bare'), job'.at # "reply", out' = <<>>, net' = "up" => Settled'
  PROVE  Belong'
BY DEF Belong, Arrived, Chosen, Choosing, All

LEMMA RestBelongs ==
  ASSUME Belong, UNCHANGED <<cli, cache, srv, box>>, conn' = conn \/ conn' # "Disconnected", All(in', Bare),
         job'.at # "reply", out' = <<>>,
         net' = "up" => net = "up" /\ ~Choosing
  PROVE  Belong'
<1>1. All(in', Bare')
  BY SameBare
<1>2. Files' /\ Cli'
  BY DEF Belong, Files, Cli
<1>3. All(srv'.news, Pending')
  BY KeptNews DEF SameBoxes
<1>4. net' = "up" => Settled'
  BY KeptSettled DEF Belong, SameBoxes
<1> QED  BY <1>1, <1>2, <1>3, <1>4, StepBelongs

(* The steps of the user, and of the operation that read nothing.          *)
LEMMA TypeBelongs ==
  ASSUME IInv, Talk, Belong, NEW op \in CliOps \ {"clear"}, Type(op)
  PROVE  Belong'
<1>1. /\ job.op = "none" /\ UNCHANGED <<client, link, state, server>>
  BY DEF Type, Busy
<1>2. job.at = "step" /\ job.todo = <<>>
  BY <1>1 DEF IInv, Types, ClientTypes, JobSet
<1>3. job'.at = "step"
  BY TypedJob
<1>4. out = <<>>
  BY <1>2 DEF Talk, Asking
<1>5. ~Choosing /\ All(in, Bare)
  BY <1>2, BareLines DEF Choosing
<1> QED  BY <1>1, <1>3, <1>4, <1>5, RestBelongs DEF client, link, state, server

LEMMA PromptBelongs ==
  ASSUME IInv, Talk, Belong, ClearCache \/ HandlerGivesUp
  PROVE  Belong'
<1>1. CASE ClearCache
  <2>1. /\ job.op = "none" /\ UNCHANGED <<client, link, job, cli, server>> /\ cache' = [m \in Mailboxes |-> NoState]
    BY <1>1 DEF ClearCache, Busy, ClearAll
  <2>2. job.at = "step" /\ out = <<>>
    BY <2>1 DEF IInv, Types, ClientTypes, JobSet, Talk, Asking
  <2>3. ~Choosing /\ All(in, Bare)
    BY <2>2, BareLines DEF Choosing
  <2>4. Files' /\ Cli'
    <3>1. NoState.validity = 0
      BY DEF NoState
    <3>2. Files'
      BY <2>1, NoStateType DEF Files, Own
    <3>3. cli.box \in NoneOr
      BY DEF IInv, Types, StateTypes
    <3> QED  BY <2>1, <3>1, <3>2, <3>3 DEF Belong, Cli, NoneOr, client
  <2>5. All(in', Bare') /\ All(srv'.news, Pending') /\ (net' = "up" => Settled')
    BY <2>1, <2>3, SameBare, KeptNews, KeptSettled DEF Belong, SameBoxes, server, link
  <2> QED  BY <2>1, <2>2, <2>4, <2>5, StepBelongs DEF link
<1>2. CASE HandlerGivesUp
  <2>1. UNCHANGED <<client, link, state, server>> /\ job' = [job EXCEPT !.waited = FALSE] /\ job \in JobRecords
    BY <1>2 DEF HandlerGivesUp, IInv, Types, ClientTypes, JobSet
  <2>2. job'.at = job.at /\ job'.todo = job.todo /\ job'.uids = job.uids /\ job'.box = job.box
    BY <2>1 DEF JobRecords
  <2>3. Choosing' = Choosing /\ Now' = Now /\ Bare' = Bare /\ AskedFor' = AskedFor /\ Pending' = Pending
    BY <2>1, <2>2 DEF Choosing, Now, Bare, AskedFor, IsHere, Here2, Pending, At2, state, server
  <2> QED  BY <2>1, <2>2, <2>3 DEF Belong, Files, Cli, Arrived, Chosen, Settled, Of, client, link, state, server
<1> QED  BY <1>1, <1>2

LEMMA EstablishBelongs ==
  ASSUME IInv, Talk, Belong, Establish
  PROVE  Belong'
<1>1. /\ job.op # "none" /\ job.at = "step" /\ UNCHANGED <<state, box>> /\ job.todo[1] = "establish"
  BY NowIs DEF Establish, At, Busy, IInv, Types, ClientTypes
<1>2. out = <<>> /\ ~Choosing /\ All(in, Bare)
  BY <1>1, BareLines DEF Talk, Asking, Choosing
<1>3. CASE Ended /\ UNCHANGED <<client, link, srv>>
  <2>1. job'.at = "step"
    BY <1>1, <1>3, JobAfter
  <2> QED  BY <1>1, <1>2, <1>3, <2>1, RestBelongs DEF state, client, link
<1>4. CASE /\ conn = "Disconnected" /\ conn' = "Connected" /\ net' = "up" /\ out' = <<>>
           /\ \E ok \in BOOLEAN : in' = <<[Item("greeting") EXCEPT !.ok = ok]>>
           /\ \E offer \in Offers : srv' = [NoSession EXCEPT !.offer = offer]
           /\ job' = [job EXCEPT !.todo = Tail(@), !.at = "reply"]
  <2>1. srv'.news = <<>> /\ srv'.box = "none"
    BY <1>4 DEF NoSession
  <2>2. job'.at = "reply" /\ job'.todo # <<>> /\ job'.todo[1] = "greeting"
    <3>1. job \in JobSet /\ job.todo \in Todos
      BY <1>1, NowIs DEF IInv, Types, ClientTypes
    <3>2. job'.at = "reply" /\ job'.todo = Tail(job.todo)
      BY <1>4, <3>1 DEF JobSet, JobRecords
    <3> QED  BY <1>1, <3>1, <3>2, TodoIs
  <2>3. ~Choosing'
    <3>1. job' \in JobSet /\ job'.op # "none"
      BY <2>2, EstablishTypes DEF IInv, Types, ClientTypes, JobSet
    <3>2. Head(job'.todo) = job'.todo[1]
      BY <3>1, JobParts
    <3> QED  BY <2>2, <3>2 DEF Choosing, Now, Selecting
  <2>4. All(in', Bare')
    <3>1. PICK x : in' = <<x>> /\ x.kind = "greeting"
      BY <1>4 DEF Item
    <3>2. in' \in Seq(ItemSet) /\ 1 \in DOMAIN in' /\ in'[1] = x
      BY <3>1, EstablishTypes DEF IInv, Types, LinkTypes
    <3>3. x \in ItemSet
      BY <3>2, ElementOfSeq, LenProperties
    <3>4. x \in Bare'
      BY <3>1, <3>3 DEF Bare
    <3> QED  BY <3>1, <3>4 DEF All
  <2>5. Files' /\ Cli'
    BY <1>1, <1>4 DEF Belong, Files, Cli, state
  <2>6. Settled' /\ All(srv'.news, Pending')
    BY <2>1, NothingAll DEF Settled
  <2> QED  BY <1>4, <2>3, <2>4, <2>5, <2>6 DEF Belong, Arrived, Chosen, All
<1>5. CASE conn' = "Connected" /\ HandshakeFails /\ UNCHANGED <<out, in, srv>>
  BY <1>1, <1>2, <1>5, HandshakeRests, RestBelongs DEF state
<1> QED  BY <1>3, <1>4, <1>5 DEF Establish

LEMMA UpgradeBelongs ==
  ASSUME IInv, Talk, Belong, UpgradeToTLS
  PROVE  Belong'
<1>1. /\ job.op # "none" /\ job.at = "step" /\ UNCHANGED <<conn, out, in, cli, cache, srv, box>>
  BY DEF UpgradeToTLS, At, Busy, client, state, server
<1>2. out = <<>> /\ ~Choosing /\ All(in, Bare)
  BY <1>1, BareLines DEF Talk, Asking, Choosing
<1>3. job'.at # "reply" /\ (net' = "up" => net = "up")
  <2>1. CASE net = "up" /\ HandshakeFails
    BY <1>1, <2>1, HandshakeRests
  <2>2. CASE net = "up" /\ Goes(Tail(job.todo))
    BY <1>1, <2>2, JobAfter
  <2>3. CASE net = "cut" /\ net' = "null" /\ Ended
    BY <1>1, <2>3, JobAfter
  <2> QED  BY <2>1, <2>2, <2>3 DEF UpgradeToTLS
<1> QED  BY <1>1, <1>2, <1>3, RestBelongs

LEMMA CloseConnectionBelongs ==
  ASSUME IInv, Talk, Belong, CloseConnection
  PROVE  Belong'
<1>1. /\ job.op # "none" /\ job.at = "step" /\ Goes(Tail(job.todo)) /\ UNCHANGED <<cache, server>>
      /\ conn' = "Disconnected" /\ net' = "none" /\ out' = <<>> /\ in' = <<>>
      /\ cli' = [cli EXCEPT !.box = "none", !.qresync = FALSE]
  BY DEF CloseConnection, At, Busy
<1>2. job'.at = "step"
  BY <1>1, JobAfter
<1>3. cli'.box = "none"
  BY <1>1 DEF IInv, Types, StateTypes
<1>4. Files' /\ Cli'
  BY <1>1, <1>3 DEF Belong, Files, Cli
<1>5. All(in', Bare') /\ All(srv'.news, Pending')
  BY <1>1, NothingAll, KeptNews DEF SameBoxes, server
<1> QED  BY <1>1, <1>2, <1>4, <1>5, StepBelongs

(* A command is written: SELECT while the server is where the program is.  *)
LEMMA WriteCommandBelongs ==
  ASSUME IInv, Placed, Talk, Belong, WriteCommand
  PROVE  Belong'
<1>1. /\ job.op # "none" /\ job.at = "step" /\ UNCHANGED <<conn, net, in, state, server>>
  BY Written
<1>2. out = <<>> /\ ~Choosing /\ All(in, Bare)
  BY <1>1, BareLines DEF Talk, Asking, Choosing
<1>3. CASE UNCHANGED out /\ Ended
  <2>1. job'.at = "step"
    BY <1>1, <1>3, JobAfter
  <2> QED  BY <1>1, <1>2, <1>3, <2>1, RestBelongs DEF state, server
<1>4. CASE /\ net = "up" /\ job'.uids = job.uids /\ job'.box = job.box
           /\ \E w \in Nat : out' = Append(out, Line(w)) /\ Line(w) \in LineSet /\ Line(w).box = job.box /\ Line(w).uids = job.uids
  <2>1. PICK l \in LineSet : out' = Append(out, l) /\ l.box = job.box /\ l.uids = job.uids
    BY <1>4
  <2>2. out' # <<>> /\ out'[1] = l
    BY <1>2, <2>1
  <2>3. Files' /\ Cli' /\ All(srv'.news, Pending') /\ Bare' = Bare /\ Settled'
    BY <1>1, <1>2, <1>4, SameBare, KeptNews, KeptSettled DEF Belong, SameBoxes, Files, Cli, state, server
  <2>4. All(in', Bare') /\ All(in', Unselected')
    <3>1. All(in', Bare')
      BY <1>1, <1>2, <2>3
    <3> QED  BY <3>1 DEF All, Bare, Unselected
  <2>5. Arrived'
    BY <2>4 DEF Arrived, All
  <2>6. Chosen'
    BY <2>2, <2>3, <2>4 DEF Chosen
  <2> QED  BY <1>4, <2>1, <2>2, <2>3, <2>5, <2>6 DEF Belong
<1>5. CASE UNCHANGED <<out, job>>
  BY <1>1, <1>2, <1>5, RestBelongs DEF state, server
<1> QED  BY <1>3, <1>4, <1>5, Written

(* The reads that only look for a line.                                    *)
LEMMA ReadBelongs ==
  ASSUME IInv, Placed, Talk, Belong, UNCHANGED <<cli, cache, srv, box, conn, net>>, job.at # "reply" \/ Now \notin Selecting \cup {"BODY"},
         (\E n \in 1..Len(in) : Consume(n)) \/ in' = <<>>, job'.at # "reply", out' = <<>>
  PROVE  Belong'
<1>1. ~Choosing /\ All(in, Bare) /\ in \in Seq(ItemSet)
  BY BareLines DEF Choosing, IInv, Types, LinkTypes
<1>2. All(in', Bare)
  <2>1. PICK P : P = Bare
    OBVIOUS
  <2>2. CASE \E n \in 1..Len(in) : Consume(n)
    <3>1. PICK n \in 1..Len(in) : Consume(n)
      BY <2>2
    <3>2. All(in', P)
      BY <1>1, <2>1, <3>1, AllRead
    <3> QED  BY <2>1, <3>2
  <2> QED  BY <2>2, NothingAll
<1> QED  BY <1>1, <1>2, RestBelongs

LEMMA ReadLineBelongs ==
  ASSUME IInv, Placed, Talk, Belong, ReadLine
  PROVE  Belong'
<1>1. /\ job.op # "none" /\ job.at = "reply" /\ Close > 0 /\ Consume(Close) /\ in \in Seq(ItemSet) /\ in # <<>>
      /\ Now \in {"greeting", "IDLE", "APPEND", "CAPABILITY", "CAPABILITY2", "CAPABILITY3"}
      /\ UNCHANGED <<conn, net, out, state, server>> /\ (Ended \/ Goes(Tail(job.todo)) \/ Goes(<<"ENABLE">>))
  <2>1. in \in Seq(ItemSet)
    BY DEF IInv, Types, LinkTypes
  <2>2. Close > 0
    BY DEF ReadLine
  <2>3. in # <<>>
    <3>1. Close \in DOMAIN in
      BY <2>1, <2>2, ClosedBy
    <3> QED  BY <3>1
  <2> QED  BY <2>1, <2>2, <2>3 DEF ReadLine, At, Busy
<1>2. \E n \in 1..Len(in) : Consume(n)
  <2>1. PICK k \in 1..Len(in) : k = Close
    BY <1>1, ClosedBy
  <2> QED  BY <1>1, <2>1
<1>3. job'.at = "step"
  BY <1>1, JobAfter
<1>4. out = <<>>
  <2>1. in[Close].kind = Awaited /\ Close \in DOMAIN in
    BY <1>1, ClosedBy
  <2>2. CASE Now = "greeting"
    BY <1>1, <2>2 DEF Talk
  <2>3. CASE Now # "greeting"
    <3>1. Awaited \in {"tagged", "plus"}
      BY <2>3 DEF Awaited
    <3>2. ~Clean(in)
      BY <2>1, <3>1 DEF Clean
    <3> QED  BY <3>2 DEF Talk
  <2> QED  BY <2>2, <2>3
<1> QED  BY <1>1, <1>2, <1>3, <1>4, ReadBelongs DEF Selecting, state, server

LEMMA IdleWaitBelongs ==
  ASSUME IInv, Placed, Talk, Belong, IdleWait
  PROVE  Belong'
<1>1. /\ job.op # "none" /\ job.at = "step" /\ UNCHANGED <<client, net, out, state, server>> /\ in \in Seq(ItemSet) /\ Goes(Tail(job.todo))
  BY DEF IdleWait, At, Busy, IInv, Types, LinkTypes, AfterWait
<1>2. (\E n \in 1..Len(in) : Consume(n)) \/ in' = <<>>
  <2> DEFINE notices == {i \in DOMAIN in : in[i].kind \notin {"tagged", "plus"}}
  <2>1. in' = <<>> \/ (notices # {} /\ Consume(Min(notices)))
    BY DEF IdleWait
  <2>2. notices \in SUBSET (1..Len(in)) /\ notices \in SUBSET Nat
    BY <1>1, LenProperties
  <2> HIDE DEF notices
  <2>3. CASE notices # {} /\ Consume(Min(notices))
    <3>1. PICK k \in 1..Len(in) : k = Min(notices)
      BY <2>2, <2>3, MinProperties
    <3> QED  BY <2>3, <3>1
  <2> QED  BY <2>1, <2>3
<1>3. job'.at = "step" /\ out = <<>>
  BY <1>1, JobAfter DEF Talk, Asking
<1> QED  BY <1>1, <1>2, <1>3, ReadBelongs DEF client, state, server

(* A line that is read is gone; the empty line goes out after a "+".       *)
LEMMA ReadXOAuth2Belongs ==
  ASSUME IInv, Placed, Talk, Belong, ReadXOAuth2
  PROVE  Belong'
<1>1. /\ job.op # "none" /\ job.at = "reply" /\ Now = "XOAUTH2" /\ in # <<>> /\ in \in Seq(ItemSet) /\ Consume(1)
      /\ UNCHANGED <<client, net, state, server>>
  BY DEF ReadXOAuth2, At, Busy, IInv, Types, LinkTypes
<1>2. ~Choosing /\ All(in, Bare)
  BY <1>1, BareLines DEF Choosing, Selecting
<1>3. All(in', Bare)
  <2>1. PICK P : P = Bare
    OBVIOUS
  <2>2. PICK n \in 1..Len(in) : n = 1
    BY <1>1, LenProperties, EmptySeq
  <2>3. All(in', P)
    BY <1>1, <1>2, <2>1, <2>2, AllRead
  <2> QED  BY <2>1, <2>3
<1>4. CASE Ended /\ UNCHANGED out /\ Head(in).kind \in {"tagged", "plus"}
  <2>1. job'.at = "step"
    BY <1>1, <1>4, JobAfter
  <2>2. out = <<>>
    <3>1. 1 \in DOMAIN in /\ Head(in) = in[1]
      BY <1>1, LenProperties, EmptySeq, HeadTailProperties
    <3>2. ~Clean(in)
      BY <1>4, <3>1 DEF Clean
    <3> QED  BY <3>2 DEF Talk
  <2> QED  BY <1>1, <1>2, <1>3, <1>4, <2>1, <2>2, RestBelongs DEF client, state, server
<1>5. CASE job' = job /\ (UNCHANGED out \/ out' = Append(out, [Line(0) EXCEPT !.verb = "ack"]))
  <2>1. Choosing' = Choosing /\ Now' = Now /\ Bare' = Bare /\ All(in', Bare')
    BY <1>1, <1>3, <1>5 DEF Choosing, Now, Bare, IsHere, Here2, state
  <2>2. Files' /\ Cli' /\ All(srv'.news, Pending') /\ Settled \in BOOLEAN /\ Settled' = Settled
    BY <1>1, KeptNews DEF Belong, SameBoxes, Files, Cli, Settled, client, state, server
  <2>3. out' # <<>> => out'[1].verb \notin Selecting \cup {"BODY", "UIDMOVE"}
    <3>1. CASE UNCHANGED out
      BY <1>1, <3>1 DEF Talk, Selecting
    <3>2. CASE out' = Append(out, [Line(0) EXCEPT !.verb = "ack"])
      <4>1. PICK z \in Nat : z = 0
        OBVIOUS
      <4>2. PICK l \in LineSet : l = [Line(z) EXCEPT !.verb = "ack"]
        BY <1>1, <4>1, LineType DEF IInv
      <4>3. l.verb = "ack"
        BY <1>1, <4>1, <4>2, LineType DEF IInv
      <4>4. CASE out = <<>>
        <5>1. out' = Append(out, l)
          BY <3>2, <4>1, <4>2
        <5>2. out' # <<>> /\ out'[1] = l
          BY <4>4, <5>1
        <5> QED  BY <4>3, <5>2 DEF Selecting
      <4>5. CASE out # <<>>
        <5>1. out \in Seq(LineSet)
          BY DEF IInv, Types, LinkTypes
        <5>2. out'[1] = out[1]
          BY <3>2, <4>1, <4>2, <4>5, <5>1, AppendProperties, LenProperties, EmptySeq
        <5> QED  BY <1>1, <4>5, <5>2 DEF Talk, Selecting
      <4> QED  BY <4>4, <4>5
    <3> QED  BY <1>5, <3>1, <3>2
  <2> QED  BY <1>1, <1>2, <2>1, <2>2, <2>3 DEF Belong, Arrived, Chosen, All
<1> QED  BY <1>4, <1>5 DEF ReadXOAuth2

LEMMA ReadDoneBelongs ==
  ASSUME IInv, Placed, Talk, Waits, Belong, ReadDone, ~lost'
  PROVE  Belong'
<1>1. /\ job.op # "none" /\ job.at = "reply" /\ Now = "DONE" /\ UNCHANGED <<conn, net, out, state, server>> /\ Ended
  BY DEF ReadDone, At, Busy
<1>2. in' = <<>> /\ Talk'
  BY ReadDoneTalks
<1>3. job'.at = "step"
  BY <1>1, JobAfter
<1>4. out' = <<>>
  BY <1>2, <1>3 DEF Talk, Asking
<1> QED  BY <1>1, <1>2, <1>3, <1>4, ReadBelongs DEF Selecting, state, server

(* Nothing is to come; a SELECT that has been served is answered.          *)
LEMMA ReadFailsBelongs ==
  ASSUME IInv, Placed, Talk, Waits, Belong, ReadFails, ~lost'
  PROVE  Belong'
<1>1. /\ job.op # "none" /\ job.at = "reply" /\ Close = 0 /\ UNCHANGED <<conn, net, out, state, server>>
      /\ Ended \/ Goes(Tail(job.todo))
  BY DEF ReadFails, At, Busy
<1>2. in' = <<>> /\ Talk'
  BY ReadFailsTalks
<1>3. job'.at = "step"
  BY <1>1, JobAfter
<1>4. out' = <<>> /\ out = <<>>
  BY <1>1, <1>2, <1>3 DEF Talk, Asking
<1>5. net = "up" => ~Choosing
  BY <1>1, <1>4, SelectReads
<1>6. All(in', Bare)
  BY <1>2, NothingAll
<1> QED  BY <1>1, <1>3, <1>4, <1>5, <1>6, RestBelongs DEF state, server

(* A refused command, whatever it was, changes nothing but what is read.   *)
LEMMA RefusedBelongs ==
  ASSUME IInv, Talk, Waits, Belong, ReadAnswer, ~Told(Raw)
  PROVE  Belong'
<1>1. /\ job.op # "none" /\ job.at = "reply" /\ Close > 0 /\ Now \in Validated
      /\ UNCHANGED <<client, net, out, state, server>> /\ Ended
  BY DEF ReadAnswer, At, Busy
<1>2. in' = <<>> /\ in \in Seq(ItemSet)
  BY ReadAnswerTalks DEF IInv, Types, LinkTypes
<1>3. Awaited = "tagged"
  BY <1>1 DEF Awaited, Validated
<1>4. out = <<>>
  BY <1>1, <1>2, <1>3, StatusRead
<1>5. job'.at = "step"
  BY <1>1, JobAfter
<1>6. net = "up" => Settled
  <2>1. CASE ~Choosing
    BY <2>1 DEF Belong
  <2>2. CASE Choosing
    <3>1. Status(in[Len(in)]) /\ Len(in) \in DOMAIN in /\ ~in[Len(in)].ok
      BY <1>1, <1>3, ToldBy, AcceptedTold
    <3>2. Of(in, "selected") = {}
      BY <1>4, <2>2, <3>1, Zenon DEF Belong, Chosen
    <3>3. net = "up" => srv.box = "none"
      BY <1>4, <2>2, <3>1, <3>2, Zenon DEF Belong, Chosen
    <3> QED  BY <3>3 DEF Settled
  <2> QED  BY <2>1, <2>2
<1>7. Files' /\ Cli' /\ All(srv'.news, Pending') /\ (net' = "up" => Settled')
  BY <1>1, <1>6, KeptNews, KeptSettled DEF Belong, SameBoxes, Files, Cli, client, state, server
<1> QED  BY <1>1, <1>2, <1>4, <1>5, <1>7, NothingAll, StepBelongs

(* An accepted SELECT: the cache is at the UIDVALIDITY the server named.   *)
LEMMA SelectedBelongs ==
  ASSUME IInv, NeverExamines, Talk, Waits, Belong, ReadAnswer, Told(Raw), Choosing
  PROVE  Files' /\ Cli' /\ (net' = "up" => Settled')
<1>1. /\ job.op # "none" /\ job.at = "reply" /\ Close > 0 /\ Now \in Selecting /\ Now \in Validated /\ Awaited = "tagged"
      /\ UNCHANGED <<conn, net, out, server>> /\ cli' = NewCli(Raw) /\ cache' = NewCache(Raw)
  BY DEF ReadAnswer, At, Busy, Choosing, Awaited, Validated, Selecting, client
<1>2. in \in Seq(ItemSet) /\ job \in JobSet /\ StateTypes /\ ServerTypes
  BY DEF IInv, Types, LinkTypes, ClientTypes
<1>3. job.box \in Mailboxes /\ Now \in {"SELECT", "SELECT_QRESYNC"} /\ job.box # "none"
  <2>1. job.todo # <<>> /\ Now = job.todo[1]
    BY <1>1, <1>2, NowIs DEF JobSet
  <2>2. job.box \in Mailboxes
    BY <1>1, <1>2, <2>1 DEF JobSet
  <2> QED  BY <1>1, <2>1, <2>2, Bounds DEF NeverExamines, Selecting
<1>4. out = <<>> /\ Raw = in /\ Status(in[Len(in)]) /\ Len(in) \in DOMAIN in
  BY <1>1, <1>2, StatusRead, ToldBy
<1>5. PICK raw \in Seq(ItemSet) : raw = in
  BY <1>2
<1>6. PICK resp \in SelectData : resp = SelectResponse(raw)
  BY <1>5, SelectResponseType
<1>7. cli'.box = job.box /\ cli'.validity = resp.validity
  BY <1>1, <1>2, <1>3, <1>4, <1>5, <1>6 DEF NewCli, StateTypes
<1>8. \A m \in Mailboxes : Own(cache'[m], m) /\ (m = job.box => cache'[m].validity = resp.validity)
  <2> SUFFICES ASSUME NEW m \in Mailboxes PROVE Own(cache'[m], m) /\ (m = job.box => cache'[m].validity = resp.validity)
    OBVIOUS
  <2>1. cache[m] \in CacheSet /\ Own(cache[m], m)
    BY <1>2 DEF Belong, Files, StateTypes
  <2>2. CASE m # job.box
    BY <1>1, <1>2, <1>3, <1>4, <1>5, <2>1, <2>2, NewCacheType
  <2>3. CASE m = job.box
    <3>1. PICK c \in CacheSet : c = IF Now = "SELECT" THEN cache[m] ELSE RemoveMessages(cache[m], ExpungedUids(raw))
      <4>1. PICK c \in CacheSet : c = cache[m]
        BY <2>1
      <4>2. RemoveMessages(c, ExpungedUids(raw)) \in CacheSet
        BY RemoveMessagesType
      <4> QED  BY <4>1, <4>2
    <3>2. Own(c, m)
      <4>1. PICK d \in CacheSet : d = cache[m]
        BY <2>1
      <4>2. PICK S : S = ExpungedUids(raw)
        OBVIOUS
      <4>3. Own(RemoveMessages(d, S), m)
        BY <2>1, <4>1, RemoveMessagesType
      <4> QED  BY <2>1, <3>1, <4>1, <4>2, <4>3
    <3>3. cache'[m] = Selected(c, raw)
      BY <1>1, <1>3, <1>4, <1>5, <2>3, <3>1, <1>2 DEF NewCache, StateTypes
    <3>4. Selected(c, raw).validity = resp.validity /\ Own(Selected(c, raw), m)
      BY <1>6, <3>2, SelectedType
    <3> QED  BY <3>3, <3>4
  <2> QED  BY <2>2, <2>3
<1>9. Files' /\ Cli'
  <2>1. conn # "Disconnected" /\ conn' = conn
    BY <1>1 DEF Talk
  <2> QED  BY <1>3, <1>7, <1>8, <2>1 DEF Files, Cli
<1>10. ASSUME net' = "up"
       PROVE  Settled'
  <2>1. net = "up" /\ UNCHANGED <<srv, box>>
    BY <1>1, <1>10 DEF server
  <2>2. CASE Of(in, "selected") = {}
    <3>1. srv.box = "none"
      BY <1>4, <2>1, <2>2, Zenon DEF Belong, Chosen
    <3> QED  BY <2>1, <3>1 DEF Settled
  <2>3. CASE Of(in, "selected") # {}
    <3>1. \A k \in Of(in, "selected") : srv.box = job.box /\ in[k].data.validity = box[job.box].validity
      BY <1>4, <2>1, <2>3, Zenon DEF Belong, Chosen
    <3>2. PICK k \in Of(in, "selected") : resp = in[k].data
      <4>1. Of(in, "selected") \in SUBSET Nat /\ Len(in) \in Nat /\ Of(in, "selected") \in SUBSET (1..Len(in))
        BY <1>2, OfIs
      <4>2. Max(Of(in, "selected")) \in Of(in, "selected")
        <5>1. PICK n \in Nat : n = Len(in)
          BY <4>1
        <5>2. PICK S \in SUBSET Nat : S = Of(in, "selected")
          BY <4>1
        <5>3. \A k \in S : k <= n
          BY <4>1, <5>1, <5>2
        <5> QED  BY <2>3, <5>2, <5>3, MaxProperties
      <4> QED  BY <1>5, <1>6, <2>3, <4>2, SelectResponseType
    <3> QED  BY <1>7, <2>1, <3>1, <3>2 DEF Settled
  <2> QED  BY <2>2, <2>3
<1> QED  BY <1>9, <1>10

(* Any other accepted command files what it was told of the mailbox the    *)
(* program is in.                                                          *)
LEMMA FiledBelongs ==
  ASSUME IInv, Talk, Waits, Belong, ReadAnswer, Told(Raw), ~Choosing
  PROVE  Files' /\ Cli' /\ (net' = "up" => Settled')
<1>1. /\ job.op # "none" /\ job.at = "reply" /\ Close > 0 /\ Now \notin Selecting /\ Now \in Validated /\ Awaited = "tagged"
      /\ UNCHANGED <<conn, net, out, server>> /\ cli' = NewCli(Raw) /\ cache' = NewCache(Raw)
  BY DEF ReadAnswer, At, Busy, Choosing, Awaited, Validated, client
<1>2. in \in Seq(ItemSet) /\ job \in JobSet /\ StateTypes /\ ServerTypes
  BY DEF IInv, Types, LinkTypes, ClientTypes
<1>3. PICK raw \in Seq(ItemSet) : raw = in /\ Raw = raw
  BY <1>1, <1>2, ToldBy
<1>4. \A i \in Of(raw, "FETCH") : raw[i] \in ItemSet /\ raw[i].kind = "FETCH" /\ i \in DOMAIN in
  <2>1. Of(raw, "FETCH") \subseteq DOMAIN in
    BY <1>3 DEF Of
  <2> QED  BY <1>3, <2>1, OfIs
<1>5. All(in, Bare \cup AskedFor)
  BY DEF Belong, Arrived
<1>6. cli'.box \in {cli.box, "none"} /\ (cli'.box # "none" => cli'.validity = cli.validity)
  <2>1. cli \in [box : NoneOr, validity : Nat, modseq : Nat, qresync : BOOLEAN]
    BY <1>2 DEF StateTypes
  <2> QED  BY <1>1, <2>1 DEF NewCli, Selecting
<1>7. cli.box # "none" => FromHere(raw, cli.box)
  <2> SUFFICES ASSUME cli.box # "none", NEW i \in Of(raw, "FETCH")
               PROVE  /\ cli.validity # 0 /\ raw[i].data.of = <<cli.box, cli.validity>>
                      /\ raw[i].data.body \in {<<>>, <<cli.box, cli.validity, raw[i].data.uid>>}
                      /\ Now = "BODY" /\ raw[i].data.body # <<>> => raw[i].data.uid \in job.uids
    BY DEF FromHere
  <2>1. raw[i] \in Bare \cup AskedFor /\ raw[i].kind = "FETCH"
    BY <1>3, <1>4, <1>5 DEF All
  <2> QED  BY <2>1 DEF Bare, AskedFor, IsHere, Here2
<1>8. \A m \in Mailboxes : /\ Own(cache'[m], m)
                           /\ m = cli.box /\ cli.validity # 0 => cache'[m].validity \in {0, cli.validity}
  <2> SUFFICES ASSUME NEW m \in Mailboxes
               PROVE  Own(cache'[m], m) /\ (m = cli.box /\ cli.validity # 0 => cache'[m].validity \in {0, cli.validity})
    OBVIOUS
  <2>1. cache[m] \in CacheSet /\ Own(cache[m], m)
    BY <1>2 DEF Belong, Files, StateTypes
  <2>2. m = cli.box /\ cli.validity # 0 => cache[m].validity \in {0, cli.validity}
    BY Bounds DEF Belong, Cli
  <2>3. CASE cache'[m] = cache[m]
    BY <2>1, <2>2, <2>3
  <2>4. CASE m = cli.box /\ cache'[m] = Filed(cache[m], raw)
    <3>1. PICK c \in CacheSet : c = cache[m]
      BY <2>1
    <3>2. FromHere(raw, m)
      BY <1>7, <2>4, Bounds
    <3>3. Own(Filed(c, raw), m) /\ (cli.validity # 0 => Filed(c, raw).validity \in {0, cli.validity})
      BY <1>1, <1>2, <2>1, <2>2, <2>4, <3>1, <3>2, FiledType
    <3> QED  BY <2>4, <3>1, <3>3
  <2>5. cache'[m] = cache[m] \/ (m = cli.box /\ cache'[m] = Filed(cache[m], raw))
    BY <1>1, <1>2, <1>3, NewCacheType DEF Selecting
  <2> QED  BY <2>3, <2>4, <2>5
<1>9. Files' /\ Cli'
  <2>1. conn # "Disconnected" /\ conn' = conn
    BY <1>1 DEF Talk
  <2>2. cli.box \in NoneOr
    BY <1>2 DEF StateTypes
  <2> QED  BY <1>6, <1>8, <2>1, <2>2 DEF Files, Cli, NoneOr
<1>10. net' = "up" => Settled'
  <2>1. net' = "up" => Settled
    BY <1>1 DEF Belong, Choosing
  <2> QED  BY <1>1, <1>6, <2>1, KeptSettled DEF SameBoxes, server
<1> QED  BY <1>9, <1>10

LEMMA ReadAnswerBelongs ==
  ASSUME IInv, NeverExamines, Talk, Waits, Belong, ReadAnswer
  PROVE  Belong'
<1>1. CASE ~Told(Raw)
  BY <1>1, RefusedBelongs
<1>2. CASE Told(Raw)
  <2>1. Files' /\ Cli' /\ (net' = "up" => Settled')
    BY <1>2, SelectedBelongs, FiledBelongs
  <2>2. job.op # "none" /\ job.at = "reply" /\ Close > 0 /\ Awaited = "tagged" /\ UNCHANGED <<out, server>> /\ Goes(Tail(job.todo))
    BY <1>2 DEF ReadAnswer, At, Busy, Awaited, Validated
  <2>3. in' = <<>> /\ in \in Seq(ItemSet)
    BY ReadAnswerTalks DEF IInv, Types, LinkTypes
  <2>4. job'.at = "step" /\ out' = <<>>
    BY <2>2, <2>3, JobAfter, StatusRead
  <2>5. All(srv'.news, Pending')
    BY <2>2, KeptNews DEF SameBoxes, server
  <2> QED  BY <2>1, <2>3, <2>4, <2>5, NothingAll, StepBelongs
<1> QED  BY <1>1, <1>2

(* The socket is cut: what was being asked is asked of nobody.             *)
LEMMA CutBelongs ==
  ASSUME IInv, Talk, Waits, Belong, Cut
  PROVE  Belong'
<1>1. /\ net = "up" /\ net' = "cut" /\ out' = <<>> /\ in' \in {in, <<>>} /\ UNCHANGED <<client, job, state, server>>
  BY DEF Cut
<1>2. Choosing' = Choosing /\ Now' = Now /\ Bare' = Bare /\ AskedFor' = AskedFor /\ Pending' = Pending
  BY <1>1 DEF Choosing, Now, Bare, AskedFor, IsHere, Here2, Pending, At2, state, server
<1>3. Files' /\ Cli' /\ All(srv'.news, Pending')
  BY <1>1, <1>2 DEF Belong, Files, Cli, client, state, server
<1>4. Arrived'
  BY <1>1, <1>2, NothingAll DEF Belong, Arrived
<1>5. Chosen'
  <2>1. CASE in' = <<>>
    BY <1>1, <2>1 DEF Chosen
  <2>2. CASE in' = in /\ out # <<>>
    <3>1. Clean(in)
      BY <2>2 DEF Talk
    <3> QED  BY <1>1, <2>2, <3>1 DEF Chosen, Clean, Status
  <2>3. CASE in' = in /\ out = <<>>
    <3>1. ASSUME Choosing', NEW i \in DOMAIN in, Status(in[i]), NEW k \in Of(in, "selected")
          PROVE  in[k].data.validity # 0 /\ in[i].ok
      BY <1>2, <2>3, <3>1, Zenon DEF Belong, Chosen
    <3>2. ASSUME NEW i \in DOMAIN in', Status(in'[i]), Choosing'
          PROVE  /\ Of(in', "selected") = {} /\ net' = "up" => srv'.box = "none"
                 /\ \A k \in Of(in', "selected") :
                      /\ in'[k].data.validity # 0 /\ in'[i].ok
                      /\ net' = "up" => srv'.box = job'.box /\ in'[k].data.validity = box'[job'.box].validity
      <4>1. net' # "up"
        BY <1>1
      <4>2. \A k \in Of(in', "selected") : in'[k].data.validity # 0 /\ in'[i].ok
        BY <2>3, <3>1, <3>2
      <4> QED  BY <4>1, <4>2, Zenon
    <3> QED  BY <1>1, <3>2, Zenon DEF Chosen, Of, Status
  <2> QED  BY <1>1, <2>1, <2>2, <2>3
<1> QED  BY <1>1, <1>3, <1>4, <1>5 DEF Belong

(* While the server waits for a line nothing else is under way.            *)
LEMMA WaitsUnchosen ==
  ASSUME IInv, Talk, Waits, net = "up", ~InCommand
  PROVE  ~Choosing
<1>1. job.todo \in {Idling, <<"wait", "DONE">>, <<"DONE">>, <<"APPEND", "literal">>, <<"literal">>, <<"XOAUTH2">>}
  BY DEF Waits, Idles, Literal, Sasl, InCommand
<1>2. /\ <<"wait", "DONE">>[1] = "wait" /\ <<"DONE">>[1] = "DONE" /\ Idling[1] = "IDLE" /\ Idling # <<>>
      /\ <<"APPEND", "literal">>[1] = "APPEND" /\ <<"literal">>[1] = "literal" /\ <<"XOAUTH2">>[1] = "XOAUTH2"
  BY DEF Idling
<1>3. job.todo # <<>> /\ job \in JobSet
  <2>1. job.todo # <<>>
    BY <1>1 DEF Idling
  <2> QED  BY <2>1 DEF IInv, Types, ClientTypes
<1>4. Now = job.todo[1]
  BY <1>3, NowIs DEF JobSet
<1> QED  BY <1>1, <1>2, <1>4 DEF Choosing, Selecting

(* The mailbox of a SELECT under way is one.                               *)
LEMMA ChoosingBox ==
  ASSUME IInv, Choosing
  PROVE  job.box \in Mailboxes
<1>1. job \in JobSet /\ job.op # "none"
  BY DEF Choosing, IInv, Types, ClientTypes, JobSet
<1>2. Now = job.todo[1] /\ job.todo # <<>>
  BY <1>1, NowIs, JobParts
<1> QED  BY <1>1, <1>2 DEF Choosing, JobSet

LEMMA OthersBelongs ==
  ASSUME IInv, Talk, Waits, Belong, Others
  PROVE  Belong'
<1>1. PICK m \in Mailboxes : \E b, line : Other(m, b, line)
  BY OthersIs
<1>2. PICK b, line : Other(m, b, line)
  BY <1>1
<1>3. /\ b \in BoxSet /\ line \in ItemSet /\ Announce(m, b, line) /\ (b.validity = box[m].validity \/ srv.box # m)
      /\ line.kind # "selected"
      /\ line.kind = "FETCH" => line.data.of = <<m, box[m].validity>> /\ line.data.body = <<>>
  BY <1>2 DEF Other, Fetches
<1>4. /\ box' = [box EXCEPT ![m] = b] /\ Announced(line) /\ (srv.box # m => UNCHANGED <<in, srv>>)
      /\ UNCHANGED <<client, net, out, job, state>>
  BY <1>3, AnnounceServed
<1>5. box \in [Mailboxes -> BoxSet] /\ srv.box \in NoneOr /\ in \in Seq(ItemSet) /\ srv.news \in Seq(ItemSet)
  BY DEF IInv, Types, ServerTypes, SessionSet, LinkTypes
<1>6. SameBoxes
  BY <1>3, <1>4, <1>5 DEF SameBoxes, NoneOr
<1>7. Files' /\ Cli' /\ Bare' = Bare /\ AskedFor' = AskedFor /\ Choosing' = Choosing /\ Now' = Now
  BY <1>4 DEF Belong, Files, Cli, Bare, AskedFor, IsHere, Here2, Choosing, Now, client, state
<1>8. srv'.box = srv.box
  BY <1>4 DEF Announced
<1>9. net' = "up" /\ ~Choosing' => Settled'
  BY <1>4, <1>6, <1>7, <1>8, KeptSettled DEF Belong, state
<1>10. out' # <<>> => (out'[1].verb \in {"BODY", "UIDMOVE"} => out'[1].uids = job'.uids) /\ (out'[1].verb \in Selecting => out'[1].box = job'.box)
  BY <1>4 DEF Belong
<1>11. CASE UNCHANGED in
  <2>1. Arrived'
    BY <1>7, <1>11 DEF Belong, Arrived
  <2>2. Chosen'
    <3>1. CASE ~Choosing
      BY <1>7, <3>1 DEF Chosen
    <3>2. CASE Choosing /\ out # <<>>
      <4>1. Settled /\ All(in, Unselected) /\ Unselected' = Unselected
        BY <3>2 DEF Belong, Chosen, Unselected
      <4>2. Settled'
        BY <1>4, <1>6, <1>8, <4>1, KeptSettled DEF state
      <4> QED  BY <1>4, <1>7, <1>11, <3>2, <4>1, <4>2 DEF Chosen
    <3>3. CASE Choosing /\ out = <<>>
      <4>1. job.box # "none"
        BY <3>3, ChoosingBox, Bounds
      <4>2. srv.box = job.box => box'[job.box].validity = box[job.box].validity
        BY <4>1, <1>6 DEF SameBoxes
      <4>3. ASSUME NEW i \in DOMAIN in', Status(in'[i])
            PROVE  /\ Of(in', "selected") = {} /\ net' = "up" => srv'.box = "none"
                   /\ \A k \in Of(in', "selected") :
                        /\ in'[k].data.validity # 0 /\ in'[i].ok
                        /\ net' = "up" => srv'.box = job'.box /\ in'[k].data.validity = box'[job'.box].validity
        <5>1. i \in DOMAIN in /\ Status(in[i]) /\ in' = in /\ net' = net /\ job' = job
          BY <1>4, <1>11, <4>3
        <5>2. /\ Of(in, "selected") = {} /\ net = "up" => srv.box = "none"
              /\ \A k \in Of(in, "selected") :
                   /\ in[k].data.validity # 0 /\ in[i].ok
                   /\ net = "up" => srv.box = job.box /\ in[k].data.validity = box[job.box].validity
          BY <3>3, <5>1, Zenon DEF Belong, Chosen
        <5> QED  BY <1>8, <4>2, <5>1, <5>2
      <4>4. out' = <<>>
        BY <1>4, <3>3
      <4> QED  BY <4>3, <4>4, Zenon DEF Chosen, Of, Status
    <3> QED  BY <3>1, <3>2, <3>3
  <2>3. All(srv'.news, Pending')
    <3>1. CASE UNCHANGED srv
      BY <1>6, <3>1, KeptNews
    <3>2. CASE srv'.news = Append(srv.news, line) /\ ~UNCHANGED srv
      <4>1. srv.box = m /\ m # "none"
        BY <1>4, <3>2, Bounds
      <4>2. Pending' = Pending
        BY <1>6, <1>8 DEF Pending, At2, SameBoxes
      <4>3. line \in Pending
        BY <1>3, <4>1 DEF Pending, At2
      <4>4. PICK P : P = Pending
        OBVIOUS
      <4>5. PICK n \in Seq(ItemSet) : n = srv.news
        BY <1>5
      <4>6. All(Append(n, line), P)
        BY <1>3, <4>3, <4>4, <4>5, AllAppended DEF Belong
      <4> QED  BY <3>2, <4>2, <4>4, <4>5, <4>6
    <3> QED  BY <1>4, <1>11, <3>1, <3>2 DEF Announced
  <2> QED  BY <1>7, <1>9, <1>10, <2>1, <2>2, <2>3 DEF Belong
<1>12. CASE srv.idle # 0 /\ net = "up" /\ in' = Append(in, line) /\ UNCHANGED srv /\ ~UNCHANGED in
  <2>1. ~Choosing /\ Settled /\ srv.box = m /\ m # "none"
    <3>1. ~Choosing
      BY <1>12, WaitsUnchosen DEF InCommand
    <3> QED  BY <1>4, <1>12, <3>1, Bounds DEF Belong
  <2>2. line \in Bare
    <3>1. box[m].validity # 0
      BY <1>5 DEF BoxSet
    <3> QED  BY <1>3, <2>1, <3>1 DEF Settled, Bare, IsHere, Here2
  <2>3. All(in', Bare \cup AskedFor)
    <3>1. PICK P : P = Bare \cup AskedFor
      OBVIOUS
    <3>2. All(in, P) /\ line \in P
      BY <2>1, <2>2, <3>1 DEF Belong, Arrived
    <3>3. All(Append(in, line), P)
      BY <1>3, <1>5, <3>2, AllAppended
    <3> QED  BY <1>12, <3>1, <3>3
  <2>4. Arrived' /\ Chosen'
    BY <1>7, <2>1, <2>3 DEF Arrived, Chosen
  <2>5. All(srv'.news, Pending')
    BY <1>6, <1>12, KeptNews
  <2> QED  BY <1>7, <1>9, <1>10, <2>4, <2>5 DEF Belong
<1> QED  BY <1>4, <1>11, <1>12 DEF Announced

(* What the server says of the mailbox it has selected is about the        *)
(* mailbox the program is in.                                              *)
LEMMA SelectedHere ==
  ASSUME IInv, Settled
  PROVE  /\ Pending \subseteq Bare /\ Plain \subseteq Bare
         /\ srv.box # "none" => Fetches(srv.box, box[srv.box].validity, {}) \subseteq Bare
<1>1. box \in [Mailboxes -> BoxSet] /\ srv.box \in NoneOr
  BY DEF IInv, Types, ServerTypes, SessionSet
<1>2. srv.box # "none" => box[srv.box].validity # 0
  BY <1>1 DEF BoxSet, NoneOr
<1>3. Pending \subseteq Bare
  BY <1>2 DEF Settled, Pending, Bare, IsHere, Here2, At2
<1>4. Plain \subseteq Bare
  BY DEF Plain, Bare
<1>5. srv.box # "none" => Fetches(srv.box, box[srv.box].validity, {}) \subseteq Bare
  BY <1>2 DEF Settled, Fetches, Bare, IsHere, Here2
<1> QED  BY <1>3, <1>4, <1>5

(* The body that is sent is that of the message that was asked for.        *)
LEMMA BodiesAsked ==
  ASSUME IInv, Settled, job.at = "reply", job.op # "none", NEW c \in LineSet, c.verb = Now, c.verb = "BODY", c.uids = job.uids, srv.box # "none"
  PROVE  Fetches(srv.box, box[srv.box].validity, Meant(c)) \subseteq Bare \cup AskedFor
<1>1. box \in [Mailboxes -> BoxSet] /\ srv.box \in NoneOr /\ job \in JobSet /\ ServerTypes
  BY DEF IInv, Types, ServerTypes, SessionSet, ClientTypes
<1>2. box[srv.box].validity # 0
  BY <1>1 DEF BoxSet, NoneOr
<1>3. job.uids # {}
  <2>1. job.todo \in Todos /\ job.todo[1] = "BODY"
    BY <1>1, NowIs
  <2>2. job.todo = <<"BODY">>
    BY <2>1, BodyTodo
  <2> QED  BY <1>1, <2>2 DEF JobSet
<1>4. Meant(c) \subseteq job.uids
  BY <1>1, <1>3, MeantIs
<1>5. ASSUME NEW x \in Fetches(srv.box, box[srv.box].validity, Meant(c))
      PROVE  x \in Bare \cup AskedFor
  <2>1. /\ x \in ItemSet /\ x.kind = "FETCH" /\ x.data.of = <<srv.box, box[srv.box].validity>>
        /\ x.data.body # <<>> => x.data.uid \in job.uids /\ x.data.body = <<srv.box, box[srv.box].validity, x.data.uid>>
    BY <1>4, <1>5 DEF Fetches
  <2>2. IsHere(x)
    BY <1>2, <2>1 DEF Settled, IsHere, Here2
  <2>3. CASE x.data.body = <<>>
    BY <2>1, <2>2, <2>3 DEF Bare
  <2>4. CASE x.data.body # <<>>
    BY <2>1, <2>2, <2>4 DEF AskedFor, Settled
  <2> QED  BY <2>3, <2>4
<1> QED  BY <1>5

(* Lines of a set, and a line that is not about a message, have come.      *)
LEMMA SaidBare ==
  ASSUME IInv, Settled, All(in, Bare \cup AskedFor), All(srv.news, Pending), NEW t, NEW L, NEW ok, Said(t, L, ok),
         L \subseteq Bare \cup AskedFor
  PROVE  All(in', Bare \cup AskedFor)
<1>1. PICK P : P = Bare \cup AskedFor
  OBVIOUS
<1>2. in \in Seq(ItemSet) /\ ServerTypes
  BY DEF IInv, Types, LinkTypes
<1>3. All(in, P) /\ All(srv.news, P) /\ L \subseteq P
  BY <1>1, SelectedHere DEF All
<1>4. (\A i \in DOMAIN in' \ {Len(in')} : in'[i] \in P) /\ in'[Len(in')] \in Unmarked /\ Status(in'[Len(in')])
  BY <1>2, <1>3, AllOfSaid
<1>5. in'[Len(in')] \in Bare
  BY <1>4 DEF Bare, Unmarked, Status
<1> QED  BY <1>1, <1>4, <1>5 DEF All

LEMMA AddedBare ==
  ASSUME IInv, All(in, Bare \cup AskedFor), NEW k \in {"plus", "tagged"}, Added(k)
  PROVE  All(in', Bare \cup AskedFor)
<1>1. PICK P : P = Bare \cup AskedFor
  OBVIOUS
<1>2. in \in Seq(ItemSet) /\ All(in, P)
  BY <1>1 DEF IInv, Types, LinkTypes
<1>3. (\A i \in DOMAIN in' \ {Len(in')} : in'[i] \in P) /\ in'[Len(in')] \in Unmarked /\ in'[Len(in')].kind = k
  BY <1>2, AllOfAdded
<1>4. in'[Len(in')] \in Bare
  BY <1>3 DEF Bare, Unmarked
<1> QED  BY <1>1, <1>3, <1>4 DEF All

LEMMA BegunBare ==
  ASSUME IInv, Settled, All(in, Bare \cup AskedFor), All(srv.news, Pending), BeginsIdle
  PROVE  All(in', Bare \cup AskedFor)
<1>1. PICK P : P = Bare \cup AskedFor
  OBVIOUS
<1>2. in \in Seq(ItemSet) /\ ServerTypes
  BY DEF IInv, Types, LinkTypes
<1>3. All(in, P) /\ All(srv.news, P)
  BY <1>1, SelectedHere DEF All
<1>4. \A i \in DOMAIN in' : in'[i] \in P \/ (in'[i].kind = "plus" /\ in'[i] \in Unmarked)
  BY <1>2, <1>3, AllOfBegun
<1>5. \A i \in DOMAIN in' : in'[i].kind = "plus" /\ in'[i] \in Unmarked => in'[i] \in Bare
  BY DEF Bare, Unmarked
<1> QED  BY <1>1, <1>4, <1>5 DEF All

(* What a command other than SELECT is answered with.                      *)
LEMMA ServedBare ==
  ASSUME IInv, Talk, Waits, Belong, Serve, ~Choosing
  PROVE  /\ All(in', Bare \cup AskedFor) /\ SameBoxes /\ srv'.box \in {srv.box, "none"}
         /\ srv'.news = <<>> \/ (srv'.news = srv.news /\ srv'.box = srv.box)
<1>1. /\ net = "up" /\ LinkTypes /\ ServerTypes /\ BoundTypes /\ job.at = "reply" /\ job.todo # <<>> /\ out # <<>>
      /\ out[1].verb = Now \/ (Now = "XOAUTH2" /\ out[1].verb = "ack")
      /\ srv.box \in NoneOr /\ job \in JobSet
  <2>1. job.todo \in Todos /\ job \in JobSet
    BY Served DEF IInv, Types, ClientTypes
  <2>2. job.todo # <<>>
    BY <2>1, TodoSteps
  <2> QED  BY <2>1, <2>2, Served DEF ServerTypes, SessionSet
<1>2. PICK c \in LineSet : c = out[1]
  BY Served
<1>3. Settled /\ All(in, Bare \cup AskedFor) /\ All(srv.news, Pending)
  BY <1>1 DEF Belong, Arrived
<1>4. c.verb \notin Selecting /\ (c.verb = "BODY" => c.verb = Now /\ c.uids = job.uids)
  BY <1>1, <1>2 DEF Choosing, Selecting, Belong
<1> DEFINE Says == \E t, L, ok : /\ Said(t, L, ok) /\ srv'.news = <<>> /\ srv'.box \in {srv.box, "none"}
                                 /\ L \subseteq Bare \cup AskedFor
           Adds == \E k \in {"plus", "tagged"} : Added(k) /\ srv'.news = srv.news /\ srv'.box = srv.box
           Begins == BeginsIdle /\ srv'.news = <<>> /\ srv'.box = srv.box
<1>5. SameBoxes /\ (Says \/ Adds \/ Begins)
  <2>0. (box' = box \/ Boxes) => SameBoxes
    BY <1>1 DEF Boxes, SameBoxes, NoneOr
  <2>1. CASE ServeContinuation(c)
    <3>1. /\ Boxes /\ srv'.box = srv.box
          /\ \/ Said(srv.cont, {}, TRUE) /\ srv'.news = <<>>
             \/ Added("tagged") /\ srv'.news = srv.news
      BY <1>1, <2>1, ServeContinuationServed
    <3>2. CASE Said(srv.cont, {}, TRUE) /\ srv'.news = <<>>
      <4>1. PICK L : L = {}
        OBVIOUS
      <4>2. Said(srv.cont, L, TRUE) /\ L \subseteq Bare
        BY <3>2, <4>1
      <4> QED  BY <2>0, <3>1, <3>2, <4>2
    <3>3. CASE Added("tagged") /\ srv'.news = srv.news
      <4>1. PICK k \in {"plus", "tagged"} : k = "tagged"
        OBVIOUS
      <4> QED  BY <2>0, <3>1, <3>3, <4>1
    <3> QED  BY <3>1, <3>2, <3>3
  <2>2. CASE Refuse(c)
    <3> DEFINE L == IF "partial" \in Faults /\ Legal(c) /\ c.verb = "UIDFETCH" THEN Fetches(srv.box, box[srv.box].validity, {}) ELSE {}
    <3>1. box' = box /\ Session(srv.box) /\ Said(c.tag, L, FALSE)
      BY <1>1, <1>4, <2>2, RefuseServed
    <3>2. L \subseteq Bare
      <4>1. Legal(c) /\ c.verb = "UIDFETCH" => srv.box # "none"
        BY DEF Legal, InMailbox, AnyTime
      <4> QED  BY <1>3, <4>1, SelectedHere
    <3> HIDE DEF L
    <3> QED  BY <2>0, <3>1, <3>2 DEF Session
  <2>3. CASE RefuseXOAuth2(c)
    <3>1. box' = box /\ Added("plus") /\ srv'.news = srv.news /\ srv'.box = srv.box
      BY <1>1, <2>3, RefuseXOAuth2Served
    <3> QED  BY <2>0, <3>1
  <2>4. CASE ServeSession(c)
    <3>1. /\ box' = box /\ srv'.box = srv.box
          /\ \/ Added("plus") /\ srv'.news = srv.news
             \/ BeginsIdle /\ srv'.news = <<>>
             \/ Said(c.tag, Plain, TRUE) /\ Session(srv.box)
      BY <1>1, <2>4, ServeSessionServed
    <3>2. Plain \subseteq Bare
      BY <1>3, SelectedHere
    <3>3. PICK L : L = Plain
      OBVIOUS
    <3>4. Said(c.tag, Plain, TRUE) /\ Session(srv.box) => Says
      <4>1. Said(c.tag, Plain, TRUE) => Said(c.tag, L, TRUE)
        BY <3>3
      <4> QED  BY <3>2, <3>3, <4>1 DEF Session
    <3> QED  BY <2>0, <3>1, <3>4
  <2>5. CASE Legal(c) /\ ServeFetch(c)
    <3>1. PICK L : L = Fetches(srv.box, box[srv.box].validity, IF c.verb = "BODY" THEN Meant(c) ELSE {})
      OBVIOUS
    <3>2. srv.box # "none" /\ Boxes /\ Session(srv.box) /\ Said(c.tag, L, TRUE)
      BY <1>1, <2>5, <3>1, ServeFetchServed, Bounds
    <3>3. L \subseteq Bare \cup AskedFor
      <4>1. CASE c.verb = "BODY"
        BY <1>1, <1>3, <1>4, <3>1, <3>2, <4>1, BodiesAsked DEF JobSet
      <4>2. CASE c.verb # "BODY"
        BY <1>3, <3>1, <3>2, <4>2, SelectedHere
      <4> QED  BY <4>1, <4>2
    <3> QED  BY <2>0, <3>2, <3>3 DEF Session
  <2>6. CASE Legal(c) /\ ServeStore(c)
    <3>1. PICK L : L = Fetches(srv.box, box[srv.box].validity, {})
      OBVIOUS
    <3>2. srv.box # "none" /\ Boxes /\ Session(srv.box) /\ Said(c.tag, L, TRUE)
      BY <1>1, <2>6, <3>1, ServeStoreServed, Bounds
    <3>3. L \subseteq Bare
      BY <1>3, <3>1, <3>2, SelectedHere
    <3> QED  BY <2>0, <3>2, <3>3 DEF Session
  <2>7. CASE Legal(c) /\ ServeRemoval(c)
    <3>1. PICK L : L = Plain
      OBVIOUS
    <3>2. Boxes /\ Session(IF c.verb = "CLOSE" THEN "none" ELSE srv.box) /\ Said(c.tag, L, TRUE)
      BY <1>1, <2>7, <3>1, ServeRemovalServed
    <3>3. L \subseteq Bare
      BY <1>3, <3>1, SelectedHere
    <3> QED  BY <2>0, <3>2, <3>3 DEF Session
  <2>8. ~ServeSelect(c)
    BY <1>1, <1>4, ServeSelectServed
  <2> QED  BY <1>2, <2>1, <2>2, <2>3, <2>4, <2>5, <2>6, <2>7, <2>8, Served
<1>6. CASE Says
  BY <1>3, <1>5, <1>6, SaidBare
<1>7. CASE Adds
  BY <1>3, <1>5, <1>7, AddedBare
<1>8. CASE Begins
  BY <1>3, <1>5, <1>8, BegunBare
<1> QED  BY <1>5, <1>6, <1>7, <1>8

(* SELECT is served: the answer says where the server now is, or that it   *)
(* is nowhere.                                                             *)
LEMMA ServeChooses ==
  ASSUME IInv, Talk, Waits, Belong, Serve, Choosing
  PROVE  Chosen' /\ srv'.news = <<>>
<1>1. /\ net = "up" /\ LinkTypes /\ ServerTypes /\ BoundTypes /\ job.at = "reply" /\ out # <<>> /\ out' = <<>>
      /\ Clean(in) /\ Clean(srv.news) /\ in \in Seq(ItemSet) /\ UNCHANGED <<client, job, state>>
      /\ out[1].verb = Now \/ (Now = "XOAUTH2" /\ out[1].verb = "ack")
  BY Served
<1>2. PICK c \in LineSet : c = out[1]
  BY Served
<1>3. c.verb \in Selecting /\ c.box = job.box /\ job.box \in Mailboxes
  BY <1>1, <1>2, ChoosingBox DEF Choosing, Selecting, Belong
<1>4. All(in, Unselected) /\ All(srv.news, Unselected)
  <2>1. All(in, Unselected) /\ All(srv.news, Pending)
    BY <1>1 DEF Belong, Chosen
  <2> QED  BY <2>1 DEF All, Pending, Unselected
<1>5. InCommand
  BY <1>1, WaitsUnchosen
<1> DEFINE From(v) == {x \in ItemSet : x.kind # "tagged" /\ (x.kind = "selected" => x.data.validity = v)}
<1>6. \A v : All(in, From(v)) /\ All(srv.news, From(v))
  BY <1>1, <1>4 DEF All, Clean, Unselected
<1> HIDE DEF From
<1>7. CASE Refuse(c)
  <2>1. Session("none") /\ Said(c.tag, {}, FALSE)
    BY <1>1, <1>3, <1>7, RefuseServed DEF Selecting
  <2>2. srv'.box = "none" /\ srv'.news = <<>>
    BY <2>1 DEF Session
  <2>3. Of(in', "selected") = {}
    <3>1. PICK P, L, t, ok : P = Unselected /\ L = {} /\ t = c.tag /\ ok = FALSE
      OBVIOUS
    <3>2. Said(t, L, ok) /\ All(in, P) /\ All(srv.news, P) /\ L \subseteq P
      BY <1>4, <2>1, <3>1
    <3>3. (\A i \in DOMAIN in' \ {Len(in')} : in'[i] \in P) /\ Status(in'[Len(in')])
      BY <1>1, <3>2, AllOfSaid
    <3> QED  BY <3>1, <3>3 DEF Of, Unselected, Status
  <2>4. Chosen'
    BY <1>1, <2>2, <2>3, Zenon DEF Chosen, Of, Status
  <2> QED  BY <2>2, <2>4
<1>8. CASE Legal(c) /\ ServeSelect(c)
  <2> DEFINE v == box[c.box].validity
  <2>1. /\ box' = box /\ Session(c.box) /\ Said(c.tag, Picked(v) \cup Plain \cup Fetches(c.box, v, {}), TRUE)
        /\ \E i \in 1..Len(in') : i > Len(in) + Len(srv.news) /\ in'[i].kind = "selected"
    BY <1>1, <1>8, ServeSelectServed
  <2>2. v # 0
    BY <1>1, <1>3 DEF ServerTypes, BoxSet
  <2>3. srv'.box = job.box /\ srv'.news = <<>>
    BY <1>3, <2>1 DEF Session
  <2>4. /\ \A i \in DOMAIN in' \ {Len(in')} : in'[i].kind # "tagged" /\ (in'[i].kind = "selected" => in'[i].data.validity = v)
        /\ in'[Len(in')].kind = "tagged" /\ in'[Len(in')].ok = TRUE /\ DOMAIN in' = 1..Len(in')
    <3>1. PICK L, t, ok : L = Picked(v) \cup Plain \cup Fetches(c.box, v, {}) /\ t = c.tag /\ ok = TRUE
      OBVIOUS
    <3>2. PICK P : P = From(v)
      OBVIOUS
    <3>3. L \subseteq P
      BY <3>1, <3>2 DEF Picked, Plain, Fetches, From
    <3>4. Said(t, L, ok) /\ All(in, P) /\ All(srv.news, P)
      BY <1>6, <2>1, <3>1, <3>2
    <3>5. (\A i \in DOMAIN in' \ {Len(in')} : in'[i] \in P) /\ Status(in'[Len(in')]) /\ in'[Len(in')].ok = ok /\ in' \in Seq(ItemSet)
      BY <1>1, <3>3, <3>4, AllOfSaid
    <3> QED  BY <3>1, <3>2, <3>5, LenProperties DEF From, Status
  <2>5. Of(in', "selected") # {}
    BY <2>1, <2>4 DEF Of
  <2>6. \A k \in Of(in', "selected") : in'[k].data.validity = v
    BY <2>4 DEF Of
  <2>7. \A i \in DOMAIN in' : Status(in'[i]) => in'[i].ok
    BY <2>4 DEF Status
  <2>8. box'[job'.box].validity = v /\ job' = job
    BY <1>1, <1>3, <2>1
  <2> HIDE DEF v
  <2>9. \A k \in Of(in', "selected") : in'[k].data.validity # 0 /\ in'[k].data.validity = box'[job'.box].validity /\ srv'.box = job'.box
    BY <2>2, <2>3, <2>6, <2>8
  <2>10. Chosen'
    BY <1>1, <2>5, <2>7, <2>9, Zenon DEF Chosen, Of, Status
  <2> QED  BY <2>3, <2>10
<1>9. ~RefuseXOAuth2(c) /\ ~ServeFetch(c) /\ ~ServeStore(c) /\ ~ServeRemoval(c) /\ ~ServeSession(c)
  BY <1>3, Zenon DEF RefuseXOAuth2, ServeFetch, ServeStore, ServeRemoval, ServeSession, AnyTime, Selecting
<1> QED  BY <1>2, <1>5, <1>7, <1>8, <1>9, Served

LEMMA ServeBelongs ==
  ASSUME IInv, Talk, Waits, Belong, Serve
  PROVE  Belong'
<1>1. /\ net = "up" /\ out' = <<>> /\ UNCHANGED <<client, job, state>>
  BY Served
<1>2. Choosing' = Choosing /\ Bare' = Bare /\ AskedFor' = AskedFor /\ Files' /\ Cli'
  BY <1>1 DEF Choosing, Now, Bare, AskedFor, IsHere, Here2, Belong, Files, Cli, client, state
<1>3. CASE ~Choosing
  <2>1. /\ All(in', Bare \cup AskedFor) /\ SameBoxes /\ srv'.box \in {srv.box, "none"}
        /\ srv'.news = <<>> \/ (srv'.news = srv.news /\ srv'.box = srv.box)
    BY <1>3, ServedBare
  <2>2. Arrived' /\ Chosen'
    BY <1>2, <1>3, <2>1 DEF Arrived, Chosen
  <2>3. Settled'
    <3>1. Settled
      BY <1>1, <1>3 DEF Belong
    <3> QED  BY <1>1, <2>1, <3>1, KeptSettled DEF state
  <2>4. All(srv'.news, Pending')
    BY <2>1, KeptNews
  <2> QED  BY <1>1, <1>2, <2>2, <2>3, <2>4 DEF Belong
<1>4. CASE Choosing
  <2>1. Chosen' /\ srv'.news = <<>>
    BY <1>4, ServeChooses
  <2>2. All(srv'.news, Pending') /\ Arrived'
    BY <1>2, <1>4, <2>1, NothingAll DEF Arrived
  <2> QED  BY <1>1, <1>2, <1>4, <2>1, <2>2 DEF Belong
<1> QED  BY <1>3, <1>4

LEMMA NextBelongs ==
  ASSUME IInv, Placed, NeverExamines, TalkInv, BelongInv, [Next]_vars
  PROVE  BelongInv'
<1> SUFFICES ASSUME ~lost' PROVE Belong'
  BY DEF BelongInv
<1>1. ~lost
  BY LostStays
<1>2. Talk /\ Waits /\ Belong
  BY <1>1 DEF TalkInv, BelongInv
<1>3. CASE (\E op \in CliOps \ {"clear"} : Type(op)) \/ ClearCache \/ HandlerGivesUp
  BY <1>2, <1>3, TypeBelongs, PromptBelongs
<1>4. CASE JobStep
  BY <1>2, <1>4, EstablishBelongs, UpgradeBelongs, CloseConnectionBelongs, WriteCommandBelongs, ReadAnswerBelongs, ReadLineBelongs,
     ReadXOAuth2Belongs, IdleWaitBelongs, ReadDoneBelongs, ReadFailsBelongs DEF JobStep
<1>5. CASE Serve \/ Cut \/ Others
  BY <1>2, <1>5, ServeBelongs, CutBelongs, OthersBelongs
<1>6. CASE UNCHANGED vars
  <2>1. UNCHANGED <<conn, net, out, in, job, cli, cache, srv, box>>
    BY <1>6 DEF vars, client, link, state, server
  <2> QED  BY <1>2, <2>1 DEF Belong, Files, Cli, Pending, At2, Arrived, Bare, AskedFor, IsHere, Here2, Choosing, Now, Chosen,
                             Settled, Unselected, Of
<1> QED  BY <1>3, <1>4, <1>5, <1>6 DEF Next

LEMMA InitBelongs == Init => BelongInv /\ NeverExamines
<1> SUFFICES ASSUME Init PROVE Belong /\ NeverExamines
  BY DEF BelongInv
<1>1. PICK start \in Starts : TRUE
  BY DEF Init
<1>2. /\ out = <<>> /\ in = <<>> /\ job = NoJob /\ srv.news = <<>>
      /\ \/ cli.box = "none"
         \/ cli.box = Home /\ cli.validity = 1 /\ srv.box = Home /\ conn = "Connected"
  BY DEF Init, NoSession, NoMailbox
<1>3. job.at = "step" /\ job.todo = <<>>
  BY <1>2 DEF NoJob
<1>4. \A m \in Mailboxes : box[m].validity = 1 /\ Own(cache[m], m) /\ cache[m].validity \in {0, 1}
  BY InitState, UsedType
<1>5. Files /\ Cli /\ Settled
  BY <1>2, <1>4, ImapAssumption DEF Files, Cli, Settled
<1> QED  BY <1>2, <1>3, <1>5, NothingAll DEF Belong, NeverExamines, Arrived, Chosen, Choosing

(* What is cached of a mailbox came from it under the UIDVALIDITY the      *)
(* cache names, body and all, unless an answer was left over: a SELECT     *)
(* with another UIDVALIDITY empties the cache before anything is filed.    *)
(* EXAMINE does not: its handler never sets the UIDVALIDITY of the cache.  *)
THEOREM EntriesTheorem ==
  ASSUME "examine" \notin CliOps
  PROVE  Spec => []EntriesBelong
<1>1. BelongInv => EntriesBelong
  BY Zenon DEF BelongInv, Belong, Files, Own, EntriesBelong
<1>2. IInv /\ Placed /\ TalkInv /\ BelongInv /\ NeverExamines /\ [Next]_vars => BelongInv' /\ NeverExamines'
  BY NextBelongs, ExamineNext
<1> QED  BY <1>1, <1>2, InitBelongs, TypesInv, TalkInvariant, PTL DEF Spec

-----------------------------------------------------------------------------
(* A message that is gone stays away from the cache. It is known where it  *)
(* was: a UID the mailbox has given under a UIDVALIDITY it has had. It is  *)
(* dead there when no message has that UID any more, which stays so.       *)
Known(m, v, u)  == v < box[m].validity \/ (v = box[m].validity /\ u < box[m].next)
Dead(m, v, u)   == Known(m, v, u) /\ (v = box[m].validity => u \notin DOMAIN box[m].msgs)
Buried(m, v, u) == <<"select", m, v, u>> \in gone \/ <<"move", m, v, u>> \in gone

(* A line about a message is about a known one that is not buried; one     *)
(* that says which are gone names dead ones.                               *)
Honest == {x \in ItemSet :
             /\ x.kind = "FETCH" => Known(x.data.of[1], x.data.of[2], x.data.uid) /\ ~Buried(x.data.of[1], x.data.of[2], x.data.uid)
             /\ x.kind = "VANISHED" => \A u \in x.uids : Dead(x.data[1], x.data[2], u)}

(* What is pending is not about a message whose end is under way.          *)
Ends(y, x) == y.kind = "VANISHED" /\ y.data = x.data.of /\ x.data.uid \in y.uids
Fresh      == {x \in ItemSet : x.kind = "FETCH" => \A i \in DOMAIN in : ~Ends(in[i], x)}

Notices == {"notice"} \X Mailboxes \X Nat \X Uids
Graves  == {"select", "move", "notice"} \X Mailboxes \X Nat \X Uids

(* What is cached is known and not buried.                                 *)
Stock == \A m \in Mailboxes : \A u \in DOMAIN cache[m].msgs : Known(m, cache[m].validity, u) /\ ~Buried(m, cache[m].validity, u)
Laid  == \A m \in Mailboxes, v \in Nat, u \in Uids : Buried(m, v, u) => Dead(m, v, u)

(* When MOVE has been accepted, what it names of the cache is dead.        *)
Moving == job.at = "reply" /\ Now = "UIDMOVE"
Moved  == Moving /\ Accepted(in) /\ cli.box # "none" =>
            \A u \in job.uids \cap DOMAIN cache[cli.box].msgs :
              /\ Dead(cli.box, cli.validity, u)
              /\ \A k \in DOMAIN srv.news : srv.news[k].kind = "FETCH" /\ srv.news[k].data.of = Here2 => srv.news[k].data.uid # u

Rises == /\ gone \subseteq Graves /\ Laid /\ Stock /\ Moved
         /\ \A m \in Mailboxes : Sound(box[m])
         /\ All(in, Honest) /\ All(srv.news, Honest) /\ All(srv.news, Fresh)
         /\ srv.idle # 0 => srv.news = <<>>
GoneInv == ~lost => Rises

(* The mailboxes have grown older, and nothing more is buried.             *)
Older == box' \in [Mailboxes -> BoxSet] /\ \A m \in Mailboxes : Ages(box[m], box'[m])
Still == gone' \subseteq gone \cup Notices

LEMMA BuriedStill ==
  ASSUME Still, NEW m, NEW v, NEW u, Buried(m, v, u)'
  PROVE  Buried(m, v, u)
<1>1. <<"select", m, v, u>> \notin Notices /\ <<"move", m, v, u>> \notin Notices
  BY DEF Notices
<1> QED  BY <1>1 DEF Buried, Still

LEMMA KnownAges ==
  ASSUME ServerTypes, Older, NEW m \in Mailboxes, NEW v \in Nat, NEW u \in Nat
  PROVE  /\ Known(m, v, u) => Known(m, v, u)'
         /\ Dead(m, v, u) => Dead(m, v, u)'
<1>1. PICK b \in BoxSet : b = box[m]
  BY DEF ServerTypes
<1>2. PICK c \in BoxSet : c = box'[m]
  BY DEF Older
<1>3. b.validity \in Nat /\ b.next \in Nat /\ c.validity \in Nat /\ c.next \in Nat
  BY DEF BoxSet
<1>4. \/ b.validity < c.validity
      \/ /\ b.validity = c.validity /\ b.next <= c.next
         /\ \A w \in DOMAIN c.msgs : w \in DOMAIN b.msgs \/ w >= b.next
  BY <1>1, <1>2 DEF Older, Ages
<1>5. Known(m, v, u) => Known(m, v, u)'
  BY <1>1, <1>2, <1>3, <1>4 DEF Known
<1>6. ASSUME Dead(m, v, u) PROVE v = c.validity => u \notin DOMAIN c.msgs
  <2>1. v < b.validity \/ (v = b.validity /\ u < b.next /\ u \notin DOMAIN b.msgs)
    BY <1>1, <1>6 DEF Dead, Known
  <2> QED  BY <1>3, <1>4, <2>1
<1> QED  BY <1>2, <1>5, <1>6 DEF Dead

LEMMA HonestAges ==
  ASSUME ServerTypes, Older, Still
  PROVE  Honest \subseteq Honest'
<1> SUFFICES ASSUME NEW x \in Honest PROVE x \in Honest'
  OBVIOUS
<1>1. x \in ItemSet
  BY DEF Honest
<1>2. ASSUME x.kind = "FETCH"
      PROVE  Known(x.data.of[1], x.data.of[2], x.data.uid)' /\ ~Buried(x.data.of[1], x.data.of[2], x.data.uid)'
  <2>1. PICK m \in Mailboxes, v \in Nat, u \in Uids : m = x.data.of[1] /\ v = x.data.of[2] /\ u = x.data.uid
    BY <1>1, <1>2, ItemFields DEF FetchData, Place
  <2>2. Known(m, v, u) /\ ~Buried(m, v, u)
    BY <1>2, <2>1 DEF Honest
  <2>3. u \in Nat
    BY Bounds
  <2>4. Known(m, v, u)' /\ ~Buried(m, v, u)'
    BY <2>2, <2>3, KnownAges, BuriedStill
  <2> QED  BY <2>1, <2>4
<1>3. ASSUME x.kind = "VANISHED", NEW u \in x.uids
      PROVE  Dead(x.data[1], x.data[2], u)'
  <2>1. PICK m \in Mailboxes, v \in Nat : m = x.data[1] /\ v = x.data[2]
    BY <1>1, <1>3, ItemFields DEF Place
  <2>2. Dead(m, v, u)
    BY <1>3, <2>1 DEF Honest
  <2>3. u \in Nat
    BY <1>1, <1>3, ItemFields, Bounds
  <2>4. Dead(m, v, u)'
    BY <2>2, <2>3, KnownAges
  <2> QED  BY <2>1, <2>4
<1> QED  BY <1>1, <1>2, <1>3, Zenon DEF Honest

LEMMA LaidAges ==
  ASSUME ServerTypes, Older, Still, Laid, \A m \in Mailboxes : Sound(box[m])
  PROVE  Laid' /\ \A m \in Mailboxes : Sound(box'[m])
<1>1. ASSUME NEW m \in Mailboxes, NEW v \in Nat, NEW u \in Uids, Buried(m, v, u)' PROVE Dead(m, v, u)'
  <2>1. Dead(m, v, u)
    BY <1>1, BuriedStill DEF Laid
  <2>2. u \in Nat
    BY Bounds
  <2> QED  BY <2>1, <2>2, KnownAges
<1>2. Laid'
  BY <1>1 DEF Laid
<1>3. \A m \in Mailboxes : Sound(box'[m])
  BY DEF Older, Ages
<1> QED  BY <1>2, <1>3

LEMMA StockAges ==
  ASSUME IInv, Older, Still, Stock, UNCHANGED cache
  PROVE  Stock'
<1> SUFFICES ASSUME NEW m \in Mailboxes, NEW u \in DOMAIN cache[m].msgs
             PROVE  Known(m, cache[m].validity, u)' /\ ~Buried(m, cache[m].validity, u)'
  BY DEF Stock
<1>1. cache[m] \in CacheSet /\ ServerTypes
  BY DEF IInv, Types, StateTypes
<1>2. PICK v \in Nat : v = cache[m].validity /\ u \in Nat
  BY <1>1, CacheMsgs, Bounds
<1>3. Known(m, v, u) /\ ~Buried(m, v, u)
  BY <1>2 DEF Stock
<1>4. Known(m, v, u)' /\ ~Buried(m, v, u)'
  BY <1>1, <1>2, <1>3, KnownAges, BuriedStill
<1>5. v = cache'[m].validity
  BY <1>2
<1> QED  BY <1>4, <1>5

LEMMA Risen ==
  ASSUME IInv, Rises, Older, Still, UNCHANGED cache, Moved',
         All(in', Honest'), All(srv'.news, Honest'), All(srv'.news, Fresh'), srv'.idle # 0 => srv'.news = <<>>
  PROVE  Rises'
<1>1. ServerTypes
  BY DEF IInv, Types
<1>2. Notices \subseteq Graves
  BY DEF Notices, Graves
<1>3. gone' \subseteq Graves
  BY <1>2 DEF Rises, Still
<1> QED  BY <1>1, <1>3, LaidAges, StockAges DEF Rises

(* What raw reports.                                                       *)
LEMMA ReportedIs ==
  ASSUME NEW raw \in Seq(ItemSet), NEW accepted \in BOOLEAN, NEW g \in Reported(raw, accepted)
  PROVE  \/ g \in Notices
         \/ /\ accepted /\ Now = "SELECT_QRESYNC"
            /\ \E i \in Of(raw, "VANISHED") : \E u \in raw[i].uids :
                 g = <<"select", job.box, raw[i].data[2], u>> /\ raw[i].data[1] = job.box
<1>1. PICK i \in Of(raw, "VANISHED") :
        g \in {<<IF accepted /\ Now = "SELECT_QRESYNC" /\ raw[i].data[1] = job.box THEN "select" ELSE "notice",
                 raw[i].data[1], raw[i].data[2], u>> : u \in raw[i].uids}
  BY DEF Reported
<1>2. raw[i] \in ItemSet /\ raw[i].kind = "VANISHED"
  BY OfIs
<1>3. PICK m \in Mailboxes, v \in Nat : m = raw[i].data[1] /\ v = raw[i].data[2]
  BY <1>2, ItemFields DEF Place
<1>4. PICK u \in raw[i].uids : g = <<IF accepted /\ Now = "SELECT_QRESYNC" /\ m = job.box THEN "select" ELSE "notice", m, v, u>>
  BY <1>1, <1>3
<1>5. u \in Uids
  BY <1>2, <1>4, ItemFields
<1>6. CASE accepted /\ Now = "SELECT_QRESYNC" /\ m = job.box
  BY <1>3, <1>4, <1>6
<1>7. CASE ~(accepted /\ Now = "SELECT_QRESYNC" /\ m = job.box)
  <2>1. g = <<"notice", m, v, u>>
    BY <1>4, <1>7
  <2> QED  BY <1>5, <2>1 DEF Notices
<1> QED  BY <1>6, <1>7

LEMMA ReportedStill ==
  ASSUME NEW raw \in Seq(ItemSet), NEW accepted \in BOOLEAN, ~accepted \/ Now # "SELECT_QRESYNC"
  PROVE  Reported(raw, accepted) \subseteq Notices
BY ReportedIs

(* Lines that are about no message.                                        *)
Mute  == {x \in ItemSet : x.kind \notin {"FETCH", "VANISHED"}}
Heard == {in[i] : i \in DOMAIN in}

LEMMA AllHeard == All(in, Heard)
BY DEF All, Heard

LEMMA MuteIsHonest == Mute \subseteq Honest /\ Mute \subseteq Fresh
BY DEF Mute, Honest, Fresh

(* A step of the client that reads, writes or does neither.                *)
LEMMA ClientRises ==
  ASSUME IInv, Rises, UNCHANGED <<box, cache>>, Still, All(in', Heard \cup Mute),
         srv'.news = <<>> \/ (srv'.news = srv.news /\ srv'.idle = srv.idle), Moved'
  PROVE  Rises'
<1>1. ServerTypes
  BY DEF IInv, Types
<1>2. Older
  BY <1>1, StaysAges DEF Older, ServerTypes
<1>3. Honest \subseteq Honest'
  BY <1>1, <1>2, HonestAges
<1>4. All(in', Honest')
  <2>1. Heard \subseteq Honest
    BY DEF Heard, Rises, All
  <2> QED  BY <1>3, <2>1, MuteIsHonest DEF All
<1>5. All(srv'.news, Honest')
  BY <1>3, NothingAll DEF Rises, All
<1>6. All(srv'.news, Fresh')
  <2>1. CASE srv'.news = <<>>
    BY <2>1, NothingAll
  <2>2. CASE srv'.news = srv.news
    <3> SUFFICES ASSUME NEW k \in DOMAIN srv.news, srv.news[k].kind = "FETCH", NEW i \in DOMAIN in'
                 PROVE  ~Ends(in'[i], srv.news[k])
      <4>1. All(srv.news, ItemSet)
        BY DEF Rises, All, Fresh
      <4> QED  BY <2>2, <4>1 DEF All, Fresh
    <3>1. \A j \in DOMAIN in : ~Ends(in[j], srv.news[k])
      BY DEF Rises, All, Fresh
    <3>2. in'[i] \in Mute \/ \E j \in DOMAIN in : in'[i] = in[j]
      BY DEF All, Heard
    <3>3. in'[i] \in Mute => ~Ends(in'[i], srv.news[k])
      BY DEF Mute, Ends
    <3> QED  BY <3>1, <3>2, <3>3
  <2> QED  BY <2>1, <2>2
<1>7. srv'.idle # 0 => srv'.news = <<>>
  BY DEF Rises
<1> QED  BY <1>2, <1>4, <1>5, <1>6, <1>7, Risen

LEMMA NothingMoving ==
  ASSUME ~Moving'
  PROVE  Moved'
BY DEF Moved

LEMMA NothingAccepted == ~Accepted(<<>>)
BY DEF Accepted

LEMMA CleanAccepts ==
  ASSUME in \in Seq(ItemSet), Clean(in) \/ Prompt(in)
  PROVE  ~Accepted(in)
<1> SUFFICES ASSUME Accepted(in) PROVE FALSE
  OBVIOUS
<1>1. in # <<>> /\ in[Len(in)].kind = "tagged"
  BY DEF Accepted, Status
<1>2. Len(in) \in DOMAIN in
  BY <1>1, LenProperties, EmptySeq
<1> QED  BY <1>1, <1>2, Marks

(* What moves stays so when nothing but what is read changes.              *)
LEMMA MovedStays ==
  ASSUME IInv, Rises, UNCHANGED <<box, cache, cli, srv>>, in' = in \/ in' = <<>>,
         job'.todo = job.todo, job'.at = job.at, job'.uids = job.uids
  PROVE  Moved'
<1>1. CASE in' = <<>>
  BY <1>1, NothingAccepted DEF Moved
<1>2. CASE in' = in
  <2>1. Moving' = Moving /\ Moved
    BY DEF Moving, Now, Rises
  <2> QED  BY <1>2, <2>1 DEF Moved, Dead, Known, Here2
<1> QED  BY <1>1, <1>2

LEMMA SilentRises ==
  ASSUME IInv, Rises, (\E op \in CliOps \ {"clear"} : Type(op)) \/ HandlerGivesUp \/ Cut
  PROVE  Rises'
<1>1. /\ UNCHANGED <<box, cache, cli, srv, gone>> /\ (in' = in \/ in' = <<>>)
      /\ \/ job'.at = "step"
         \/ job'.todo = job.todo /\ job'.at = job.at /\ job'.uids = job.uids
  <2>1. CASE \E op \in CliOps \ {"clear"} : Type(op)
    BY <2>1, TypedJob DEF Type, link, state, server, history, IInv, Types, ClientTypes
  <2>2. CASE HandlerGivesUp
    <3>1. job' = [job EXCEPT !.waited = FALSE] /\ job \in JobRecords
      BY <2>2 DEF HandlerGivesUp, IInv, Types, ClientTypes, JobSet
    <3>2. job'.todo = job.todo /\ job'.at = job.at /\ job'.uids = job.uids
      BY <3>1 DEF JobRecords
    <3> QED  BY <2>2, <3>2 DEF HandlerGivesUp, link, state, server, history
  <2>3. CASE Cut
    BY <2>3 DEF Cut, state, server, history
  <2> QED  BY <2>1, <2>2, <2>3
<1>2. Still
  BY <1>1 DEF Still
<1>3. All(in', Heard \cup Mute)
  BY <1>1, AllHeard, NothingAll DEF All
<1>4. Moved'
  BY <1>1, MovedStays, NothingMoving DEF Moving
<1> QED  BY <1>1, <1>2, <1>3, <1>4, ClientRises

LEMMA ClearCacheRises ==
  ASSUME IInv, Rises, ClearCache
  PROVE  Rises'
<1>1. /\ UNCHANGED <<in, job, cli, srv, box, gone>> /\ job.op = "none"
      /\ cache' = [m \in Mailboxes |-> ClearAll(cache[m])]
  BY DEF ClearCache, Busy, link, server, history
<1>2. \A m \in Mailboxes : DOMAIN cache'[m].msgs = {}
  BY <1>1, NoStateType DEF ClearAll
<1>3. Stock'
  BY <1>2 DEF Stock
<1>4. ~Moving'
  <2>1. job.at = "step"
    BY <1>1, JobParts DEF IInv, Types, ClientTypes
  <2> QED  BY <1>1, <2>1 DEF Moving
<1>5. ServerTypes /\ Older /\ Still
  BY <1>1, StaysAges DEF Older, ServerTypes, Still, IInv, Types
<1>6. Laid' /\ (\A m \in Mailboxes : Sound(box'[m])) /\ Honest \subseteq Honest' /\ Fresh' = Fresh
  BY <1>1, <1>5, LaidAges, HonestAges DEF Rises, Fresh, Ends
<1> QED  BY <1>1, <1>3, <1>4, <1>6, NothingMoving DEF Rises, All

(* A step that reads lines, reads all of them or reads nothing.            *)
LEMMA ReadRises ==
  ASSUME IInv, Rises, UNCHANGED <<box, cache, srv>>, (\E n \in 1..Len(in) : Consume(n)) \/ in' = <<>> \/ in' = in, Still, Moved'
  PROVE  Rises'
<1>1. PICK P : P = Heard \cup Mute
  OBVIOUS
<1>2. All(in, P) /\ in \in Seq(ItemSet)
  BY <1>1, AllHeard DEF All, IInv, Types, LinkTypes
<1>3. All(in', P)
  BY <1>2, AllRead, NothingAll
<1> QED  BY <1>1, <1>3, ClientRises

LEMMA EstablishRises ==
  ASSUME IInv, Rises, Establish
  PROVE  Rises'
<1>1. /\ job.op # "none" /\ job.at = "step" /\ UNCHANGED <<cache, box, gone>> /\ job.todo[1] = "establish" /\ Still
  BY NowIs DEF Establish, At, Busy, IInv, Types, ClientTypes, state, history, Still
<1>2. CASE Ended /\ UNCHANGED <<client, link, srv>>
  <2>1. ~Moving'
    BY <1>1, <1>2, JobAfter DEF Moving
  <2> QED  BY <1>1, <1>2, <2>1, NothingMoving, ReadRises DEF link
<1>3. CASE /\ \E ok \in BOOLEAN : in' = <<[Item("greeting") EXCEPT !.ok = ok]>>
           /\ \E offer \in Offers : srv' = [NoSession EXCEPT !.offer = offer]
           /\ job' = [job EXCEPT !.todo = Tail(@), !.at = "reply"]
  <2>1. srv'.news = <<>>
    BY <1>3 DEF NoSession
  <2>2. job'.at = "reply" /\ job'.todo # <<>> /\ job'.todo[1] = "greeting"
    <3>1. job \in JobSet /\ job.todo \in Todos
      BY <1>1, NowIs DEF IInv, Types, ClientTypes
    <3>2. job'.at = "reply" /\ job'.todo = Tail(job.todo)
      BY <1>3, <3>1 DEF JobSet, JobRecords
    <3> QED  BY <1>1, <3>1, <3>2, TodoIs
  <2>3. ~Moving'
    <3>1. job' \in JobSet /\ job'.op # "none"
      BY <2>2, EstablishTypes DEF IInv, Types, ClientTypes, JobSet
    <3>2. Head(job'.todo) = job'.todo[1]
      BY <3>1, JobParts
    <3> QED  BY <2>2, <3>2 DEF Moving, Now
  <2>4. All(in', Heard \cup Mute)
    <3>1. PICK x : in' = <<x>> /\ x.kind = "greeting"
      BY <1>3 DEF Item
    <3>2. in' \in Seq(ItemSet) /\ 1 \in DOMAIN in' /\ in'[1] = x
      BY <3>1, EstablishTypes DEF IInv, Types, LinkTypes
    <3>3. x \in ItemSet
      BY <3>2, ElementOfSeq, LenProperties
    <3>4. x \in Mute
      BY <3>1, <3>3 DEF Mute
    <3> QED  BY <3>1, <3>4 DEF All
  <2> QED  BY <1>1, <2>1, <2>3, <2>4, NothingMoving, ClientRises
<1>4. CASE conn' = "Connected" /\ HandshakeFails /\ UNCHANGED <<out, in, srv>>
  <2>1. ~Moving'
    BY <1>1, <1>4, HandshakeRests DEF Moving
  <2> QED  BY <1>1, <1>4, <2>1, NothingMoving, ReadRises
<1> QED  BY <1>2, <1>3, <1>4 DEF Establish

LEMMA UpgradeRises ==
  ASSUME IInv, Rises, UpgradeToTLS
  PROVE  Rises'
<1>1. /\ job.op # "none" /\ job.at = "step" /\ UNCHANGED <<cache, box, srv, gone, in>> /\ Still
  BY DEF UpgradeToTLS, At, Busy, state, server, history, Still
<1>2. ~Moving'
  <2>1. CASE HandshakeFails
    BY <1>1, <2>1, HandshakeRests DEF Moving
  <2>2. CASE ~HandshakeFails
    BY <1>1, <2>2, JobAfter DEF UpgradeToTLS, Moving
  <2> QED  BY <2>1, <2>2
<1> QED  BY <1>1, <1>2, NothingMoving, ReadRises

LEMMA CloseConnectionRises ==
  ASSUME IInv, Rises, CloseConnection
  PROVE  Rises'
<1>1. /\ job.op # "none" /\ UNCHANGED <<cache, box, srv, gone>> /\ in' = <<>> /\ Goes(Tail(job.todo)) /\ Still
  BY DEF CloseConnection, At, Busy, server, history, Still
<1>2. ~Moving'
  BY <1>1, JobAfter DEF Moving
<1> QED  BY <1>1, <1>2, NothingMoving, ReadRises

LEMMA WriteCommandRises ==
  ASSUME IInv, Placed, Talk, Rises, WriteCommand
  PROVE  Rises'
<1>1. job.at = "step" /\ UNCHANGED <<in, cache, box, srv, gone>> /\ Still /\ in \in Seq(ItemSet)
  BY Written DEF state, server, history, Still, IInv, Types, LinkTypes
<1>2. ~Accepted(in)
  BY <1>1, CleanAccepts DEF Talk
<1>3. Moved'
  BY <1>1, <1>2 DEF Moved, Accepted
<1> QED  BY <1>1, <1>3, ReadRises

LEMMA ReadLineRises ==
  ASSUME IInv, Rises, ReadLine
  PROVE  Rises'
<1>1. /\ job.op # "none" /\ Close > 0 /\ Consume(Close) /\ in \in Seq(ItemSet)
      /\ UNCHANGED <<cache, box, srv>> /\ (Ended \/ Goes(Tail(job.todo)) \/ Goes(<<"ENABLE">>))
      /\ gone' = gone \cup Reported(Raw, FALSE)
  BY DEF ReadLine, At, Busy, IInv, Types, LinkTypes, state, server
<1>2. \E n \in 1..Len(in) : Consume(n)
  <2>1. PICK k \in 1..Len(in) : k = Close
    BY <1>1, ClosedBy
  <2> QED  BY <1>1, <2>1
<1>3. Still
  <2>1. PICK raw \in Seq(ItemSet) : raw = Raw
    BY <1>1, RawIs
  <2>2. PICK accepted \in BOOLEAN : accepted = FALSE
    OBVIOUS
  <2>3. Reported(raw, accepted) \subseteq Notices
    BY <2>2, ReportedStill
  <2> QED  BY <1>1, <2>1, <2>2, <2>3 DEF Still
<1>4. ~Moving'
  BY <1>1, JobAfter DEF Moving
<1> QED  BY <1>1, <1>2, <1>3, <1>4, NothingMoving, ReadRises

LEMMA ReadXOAuth2Rises ==
  ASSUME IInv, Rises, ReadXOAuth2
  PROVE  Rises'
<1>1. /\ job.op # "none" /\ Now = "XOAUTH2" /\ in # <<>> /\ in \in Seq(ItemSet) /\ Consume(1)
      /\ UNCHANGED <<cache, box, srv, gone>> /\ (Ended \/ job' = job) /\ Still
  BY DEF ReadXOAuth2, At, Busy, IInv, Types, LinkTypes, state, server, history, Still
<1>2. PICK n \in 1..Len(in) : n = 1
  BY <1>1, LenProperties, EmptySeq
<1>3. ~Moving'
  BY <1>1, JobAfter DEF Moving, Now
<1> QED  BY <1>1, <1>2, <1>3, NothingMoving, ReadRises

LEMMA IdleWaitRises ==
  ASSUME IInv, Rises, IdleWait
  PROVE  Rises'
<1>1. /\ job.op # "none" /\ UNCHANGED <<cache, box, srv>> /\ in \in Seq(ItemSet) /\ Goes(Tail(job.todo))
  BY DEF IdleWait, At, Busy, IInv, Types, LinkTypes, AfterWait, state, server
<1>2. ((\E n \in 1..Len(in) : Consume(n)) \/ in' = <<>>) /\ Still
  <2> DEFINE notices == {i \in DOMAIN in : in[i].kind \notin {"tagged", "plus"}}
  <2>1. \/ in' = <<>> /\ gone' = gone
        \/ notices # {} /\ Consume(Min(notices)) /\ gone' = gone \cup Reported(SubSeq(in, 1, Min(notices)), FALSE)
    BY DEF IdleWait
  <2>2. notices \in SUBSET (1..Len(in)) /\ notices \in SUBSET Nat /\ Len(in) \in Nat
    BY <1>1, LenProperties
  <2> HIDE DEF notices
  <2>3. CASE notices # {} /\ Consume(Min(notices)) /\ gone' = gone \cup Reported(SubSeq(in, 1, Min(notices)), FALSE)
    <3>1. PICK k \in 1..Len(in) : k = Min(notices)
      BY <2>2, <2>3, MinProperties
    <3>5. k \in Nat /\ k <= Len(in)
      BY <2>2
    <3>2. PICK raw \in Seq(ItemSet) : raw = SubSeq(in, 1, k)
      BY <1>1, <3>5, FirstLines
    <3>3. PICK accepted \in BOOLEAN : accepted = FALSE
      OBVIOUS
    <3>4. Reported(raw, accepted) \subseteq Notices
      BY <3>3, ReportedStill
    <3> QED  BY <2>3, <3>1, <3>2, <3>3, <3>4 DEF Still
  <2> QED  BY <2>1, <2>3 DEF Still
<1>3. ~Moving'
  BY <1>1, JobAfter DEF Moving
<1> QED  BY <1>1, <1>2, <1>3, NothingMoving, ReadRises

LEMMA ReadDoneRises ==
  ASSUME IInv, Talk, Waits, Rises, ReadDone, ~lost'
  PROVE  Rises'
<1> DEFINE n == IF Close > 0 /\ Close < DoneLines THEN Close ELSE DoneLines
<1>1. /\ job.op # "none" /\ (Close > 0 \/ Len(in) >= DoneLines) /\ gone' = gone \cup Reported(SubSeq(in, 1, n), FALSE) /\ Ended
      /\ UNCHANGED <<cache, box, srv>> /\ in \in Seq(ItemSet)
  BY DEF ReadDone, At, Busy, server, state, IInv, Types, LinkTypes
<1>2. n \in Nat /\ n <= Len(in)
  <2>1. PICK k, d, l \in Nat : k = Close /\ d = DoneLines /\ l = Len(in) /\ k <= l
    BY <1>1, CloseIs, Bounds
  <2>2. n = IF k > 0 /\ k < d THEN k ELSE d
    BY <2>1
  <2> HIDE DEF n
  <2>3. k > 0 \/ l >= d
    BY <1>1, <2>1
  <2>4. n \in Nat /\ n <= l
    BY <2>1, <2>2, <2>3
  <2> QED  BY <2>1, <2>4
<1> HIDE DEF n
<1>3. Still
  <2>1. PICK raw \in Seq(ItemSet) : raw = SubSeq(in, 1, n)
    BY <1>1, <1>2, FirstLines
  <2>2. PICK accepted \in BOOLEAN : accepted = FALSE
    OBVIOUS
  <2>3. Reported(raw, accepted) \subseteq Notices
    BY <2>2, ReportedStill
  <2> QED  BY <1>1, <2>1, <2>2, <2>3 DEF Still
<1>4. in' = <<>>
  BY ReadDoneTalks
<1>5. ~Moving'
  BY <1>1, JobAfter DEF Moving
<1> QED  BY <1>1, <1>3, <1>4, <1>5, NothingMoving, ReadRises

LEMMA ReadFailsRises ==
  ASSUME IInv, Rises, ReadFails
  PROVE  Rises'
<1>1. /\ job.op # "none" /\ UNCHANGED <<cache, box, srv, gone>> /\ (Ended \/ Goes(Tail(job.todo))) /\ in' = <<>> /\ Still
  BY DEF ReadFails, At, Busy, state, server, Still
<1>2. ~Moving'
  BY <1>1, JobAfter DEF Moving
<1> QED  BY <1>1, <1>2, NothingMoving, ReadRises

(* A mailbox of the cache that keeps what it has, or less of it.           *)
Keeps(c, d) == \A u \in DOMAIN d.msgs : u \in DOMAIN c.msgs /\ d.validity = c.validity

LEMMA RemoveKeeps ==
  ASSUME NEW c \in CacheSet, NEW S
  PROVE  Keeps(c, RemoveMessages(c, S)) /\ \A u \in DOMAIN RemoveMessages(c, S).msgs : u \notin S
<1> DEFINE g == Restrict(c.msgs, DOMAIN c.msgs \ S)
<1>1. DOMAIN g = DOMAIN c.msgs \ S
  BY DEF Restrict
<1>2. RemoveMessages(c, S) = [c EXCEPT !.msgs = g]
  BY Zenon DEF RemoveMessages, g
<1> HIDE DEF g
<1>3. RemoveMessages(c, S).msgs = g /\ RemoveMessages(c, S).validity = c.validity
  BY <1>2 DEF CacheSet
<1> QED  BY <1>1, <1>3 DEF Keeps

LEMMA UpdateKeeps ==
  ASSUME NEW c \in CacheSet, NEW S, NEW f \in BOOLEAN
  PROVE  Keeps(c, UpdateFlags(c, S, f))
<1> DEFINE g == [u \in DOMAIN c.msgs |-> IF u \in S THEN [c.msgs[u] EXCEPT !.seen = f] ELSE c.msgs[u]]
<1>1. DOMAIN g = DOMAIN c.msgs
  OBVIOUS
<1>2. UpdateFlags(c, S, f) = [c EXCEPT !.msgs = g]
  BY Zenon DEF UpdateFlags, g
<1> HIDE DEF g
<1>3. UpdateFlags(c, S, f).msgs = g /\ UpdateFlags(c, S, f).validity = c.validity
  BY <1>2 DEF CacheSet
<1> QED  BY <1>1, <1>3 DEF Keeps

LEMMA BodyKeeps ==
  ASSUME NEW c \in CacheSet, NEW u, NEW body \in Bodies
  PROVE  Keeps(c, SetMessageBody(c, u, body))
<1>1. CASE u \notin DOMAIN c.msgs
  BY <1>1 DEF SetMessageBody, Keeps
<1>2. CASE u \in DOMAIN c.msgs
  <2> DEFINE g == [c.msgs EXCEPT ![u] = [c.msgs[u] EXCEPT !.body = body]]
  <2>1. DOMAIN g = DOMAIN c.msgs
    OBVIOUS
  <2>2. SetMessageBody(c, u, body) = [c EXCEPT !.msgs = g]
    BY <1>2 DEF SetMessageBody
  <2> HIDE DEF g
  <2>3. SetMessageBody(c, u, body).msgs = g /\ SetMessageBody(c, u, body).validity = c.validity
    BY <2>2 DEF CacheSet
  <2> QED  BY <2>1, <2>3 DEF Keeps
<1> QED  BY <1>1, <1>2

(* Another UIDVALIDITY than the known one empties a mailbox of the cache.  *)
LEMMA StateKeeps ==
  ASSUME NEW c \in CacheSet, NEW v \in Nat, NEW q \in Nat, c.validity = 0 => DOMAIN c.msgs = {}
  PROVE  Keeps(c, SetMailboxState(c, v, q))
<1> DEFINE kept == IF c.validity # 0 /\ c.validity # v THEN NoState ELSE c
<1>1. kept \in CacheSet /\ (DOMAIN kept.msgs # {} => c.validity = v /\ kept = c)
  BY NoStateType
<1>2. SetMailboxState(c, v, q) = [kept EXCEPT !.validity = v, !.modseq = q]
  BY Zenon DEF SetMailboxState, kept
<1> HIDE DEF kept
<1>3. SetMailboxState(c, v, q).msgs = kept.msgs /\ SetMailboxState(c, v, q).validity = v
  BY <1>1, <1>2 DEF CacheSet
<1> QED  BY <1>1, <1>3 DEF Keeps

LEMMA SelectedKeeps ==
  ASSUME NEW c \in CacheSet, NEW raw \in Seq(ItemSet), c.validity = 0 => DOMAIN c.msgs = {}
  PROVE  Keeps(c, Selected(c, raw))
<1>1. SelectResponse(raw) \in SelectData
  BY SelectResponseType
<1>2. PICK v \in Nat, q \in Nat, x \in Nat : v = SelectResponse(raw).validity /\ q = SelectResponse(raw).modseq /\ x = SelectResponse(raw).next
  BY <1>1 DEF SelectData
<1>3. PICK k \in CacheSet : k = SetMailboxState(c, v, q) /\ Keeps(c, k)
  BY SetMailboxStateType, StateKeeps
<1>4. Selected(c, raw) = SetUidNext(k, x)
  BY <1>2, <1>3 DEF Selected
<1>5. SetUidNext(k, x).msgs = k.msgs /\ SetUidNext(k, x).validity = k.validity
  BY DEF SetUidNext, CacheSet
<1> QED  BY <1>3, <1>4, <1>5 DEF Keeps

(* What is stored was there, or it was fetched in the mailbox the program  *)
(* is in.                                                                  *)
Fetch(raw, u) == \E i \in Of(raw, "FETCH") : raw[i].data.uid = u

LEMMA StoredKeeps ==
  ASSUME StateTypes, NEW c \in CacheSet, NEW raw \in Seq(ItemSet), c.validity = 0 => DOMAIN c.msgs = {},
         Of(raw, "FETCH") # {} => cli.validity # 0 /\ c.validity \in {0, cli.validity},
         NEW u \in DOMAIN Stored(c, raw).msgs
  PROVE  \/ u \in DOMAIN c.msgs /\ Stored(c, raw).validity = c.validity
         \/ Fetch(raw, u) /\ Stored(c, raw).validity = cli.validity
<1>1. CASE Of(raw, "FETCH") = {}
  BY <1>1 DEF Stored
<1>2. CASE Of(raw, "FETCH") # {}
  <2> DEFINE k == IF c.validity = 0 /\ cli.validity > 0 THEN SetMailboxState(c, cli.validity, cli.modseq) ELSE c
  <2>1. cli.validity \in Nat /\ cli.modseq \in Nat /\ c.validity \in Nat
    BY CacheMsgs DEF StateTypes
  <2>2. PICK v \in Nat, q \in Nat : v = cli.validity /\ q = cli.modseq
    BY <2>1
  <2>3. k \in CacheSet /\ Keeps(c, k) /\ k.validity = v
    <3>1. CASE c.validity = 0 /\ cli.validity > 0
      <4>1. k = SetMailboxState(c, v, q)
        BY <2>2, <3>1
      <4> HIDE DEF k
      <4> QED  BY <4>1, SetMailboxStateType, StateKeeps
    <3>2. CASE ~(c.validity = 0 /\ cli.validity > 0)
      <4>1. k = c
        BY <3>2
      <4> HIDE DEF k
      <4> QED  BY <1>2, <2>1, <2>2, <3>2, <4>1 DEF Keeps
    <3> QED  BY <3>1, <3>2
  <2>4. Stored(c, raw) = AddMessages(k, Fetched(raw))
    BY <1>2, Zenon DEF Stored, k
  <2> HIDE DEF k
  <2>5. PICK b \in CacheSet : b = k
    BY <2>3
  <2> DEFINE D == {raw[i].data.uid : i \in Of(raw, "FETCH")}
  <2>6. D \in SUBSET Uids /\ Fetched(raw) \in [D -> EntrySet] /\ \A w \in D : Fetch(raw, w)
    BY FetchedIs DEF Fetch
  <2> HIDE DEF D
  <2>7. PICK f \in [D -> EntrySet] : f = Fetched(raw)
    BY <2>6
  <2>8. AddMessages(b, f).validity = b.validity /\ DOMAIN AddMessages(b, f).msgs = DOMAIN b.msgs \cup D
    <3>1. D \in SUBSET Uids
      BY <2>6
    <3>2. /\ AddMessages(b, f) \in CacheSet /\ AddMessages(b, f).validity = b.validity
          /\ DOMAIN AddMessages(b, f).msgs = DOMAIN b.msgs \cup D
          /\ \A w \in DOMAIN b.msgs \cup D : AddMessages(b, f).msgs[w] = IF w \in D THEN f[w] ELSE b.msgs[w]
      BY <3>1, AddMessagesType
    <3> QED  BY <3>2
  <2> QED  BY <2>2, <2>3, <2>4, <2>5, <2>6, <2>7, <2>8 DEF Keeps
<1> QED  BY <1>1, <1>2

(* The step that buries: what it buries is dead, and nothing is pending    *)
(* about it.                                                               *)
LEMMA BuriesRises ==
  ASSUME IInv, Rises, UNCHANGED <<box, srv>>, in' = <<>>, ~Moving', Stock',
         NEW N \in SUBSET Graves, gone' \subseteq gone \cup Notices \cup N,
         \A g \in N : /\ Dead(g[2], g[3], g[4])
                      /\ \A k \in DOMAIN srv.news : srv.news[k].kind = "FETCH" /\ srv.news[k].data.of = <<g[2], g[3]>>
                                                      => srv.news[k].data.uid # g[4]
  PROVE  Rises'
<1>1. ASSUME NEW m, NEW v, NEW u, Buried(m, v, u)', ~Buried(m, v, u)
      PROVE  \E g \in N : g[2] = m /\ g[3] = v /\ g[4] = u
  <2>1. <<"select", m, v, u>> \notin Notices /\ <<"move", m, v, u>> \notin Notices
    BY DEF Notices
  <2>2. <<"select", m, v, u>> \in N \/ <<"move", m, v, u>> \in N
    BY <1>1, <2>1 DEF Buried
  <2> QED  BY <2>2
<1>2. Laid'
  <2> SUFFICES ASSUME NEW m \in Mailboxes, NEW v \in Nat, NEW u \in Uids, Buried(m, v, u)' PROVE Dead(m, v, u)'
    BY DEF Laid
  <2>1. Dead(m, v, u)
    <3>1. CASE Buried(m, v, u)
      BY <3>1 DEF Rises, Laid
    <3>2. CASE ~Buried(m, v, u)
      BY <1>1, <3>2
    <3> QED  BY <3>1, <3>2
  <2> QED  BY <2>1 DEF Dead, Known
<1>3. All(srv'.news, Honest')
  <2> SUFFICES ASSUME NEW k \in DOMAIN srv.news PROVE srv.news[k] \in Honest'
    BY DEF All
  <2>1. PICK x \in Honest : x = srv.news[k]
    BY DEF Rises, All
  <2>2. x \in ItemSet
    BY DEF Honest
  <2>3. ASSUME x.kind = "FETCH"
        PROVE  Known(x.data.of[1], x.data.of[2], x.data.uid)' /\ ~Buried(x.data.of[1], x.data.of[2], x.data.uid)'
    <3>1. PICK m \in Mailboxes, v \in Nat, u \in Uids : x.data.of = <<m, v>> /\ u = x.data.uid
      BY <2>2, <2>3, ItemFields DEF FetchData, Place
    <3>2. x.data.of[1] = m /\ x.data.of[2] = v
      BY <3>1
    <3>3. Known(m, v, u) /\ ~Buried(m, v, u)
      BY <2>3, <3>1, <3>2 DEF Honest
    <3>4. Known(m, v, u)'
      BY <3>3 DEF Known
    <3>5. ~Buried(m, v, u)'
      BY <1>1, <2>1, <2>3, <3>1, <3>3
    <3> QED  BY <3>1, <3>2, <3>4, <3>5
  <2>4. ASSUME x.kind = "VANISHED", NEW u \in x.uids
        PROVE  Dead(x.data[1], x.data[2], u)'
    BY <2>4 DEF Honest, Dead, Known
  <2> QED  BY <2>1, <2>2, <2>3, <2>4, Zenon DEF Honest
<1>4. All(srv'.news, Fresh')
  <2>1. DOMAIN in' = {}
    BY EmptySeq
  <2> QED  BY <2>1 DEF Rises, All, Fresh
<1>5. gone' \subseteq Graves
  BY DEF Rises, Notices, Graves
<1> QED  BY <1>2, <1>3, <1>4, <1>5, NothingMoving, NothingAll DEF Rises

(* What a mailbox of the cache keeps stays known.                          *)
LEMMA KeptStock ==
  ASSUME IInv, Rises, UNCHANGED box, NEW m \in Mailboxes, NEW d, Keeps(cache[m], d), NEW u \in DOMAIN d.msgs
  PROVE  Known(m, d.validity, u) /\ ~Buried(m, d.validity, u) /\ u \in DOMAIN cache[m].msgs /\ d.validity = cache[m].validity
BY DEF Keeps, Rises, Stock

(* Stock after the step, a mailbox at a time.                              *)
LEMMA StockBy ==
  ASSUME UNCHANGED box, \A m \in Mailboxes : \A u \in DOMAIN cache'[m].msgs :
           Known(m, cache'[m].validity, u) /\ ~(<<"select", m, cache'[m].validity, u>> \in gone' \/ <<"move", m, cache'[m].validity, u>> \in gone')
  PROVE  Stock'
BY DEF Stock, Known, Buried

(* An accepted answer: what there is to know of it.                        *)
Accepts == /\ job.op # "none" /\ job.at = "reply" /\ Close > 0 /\ Now \in Validated /\ Awaited = "tagged"
           /\ cli' = NewCli(in) /\ cache' = NewCache(in) /\ gone' = gone \cup Reported(in, TRUE) \cup MovedAway
           /\ UNCHANGED <<box, srv>> /\ in' = <<>> /\ in \in Seq(ItemSet) /\ job \in JobSet /\ StateTypes
           /\ ~Moving' /\ Accepted(in)
           /\ \A m \in Mailboxes : cache[m] \in CacheSet /\ Own(cache[m], m)

LEMMA AnswerAccepts ==
  ASSUME IInv, Talk, Waits, NoSlash, Belong, ReadAnswer, Told(Raw)
  PROVE  Accepts
<1>1. /\ job.op # "none" /\ job.at = "reply" /\ Close > 0 /\ Now \in Validated /\ Awaited = "tagged"
      /\ cli' = NewCli(Raw) /\ cache' = NewCache(Raw) /\ gone' = gone \cup Reported(Raw, TRUE) \cup MovedAway
      /\ UNCHANGED <<box, srv>> /\ Goes(Tail(job.todo))
  BY DEF ReadAnswer, At, Busy, Awaited, Validated, server
<1>2. in \in Seq(ItemSet) /\ job \in JobSet /\ StateTypes
  BY DEF IInv, Types, LinkTypes, ClientTypes
<1>3. Raw = in /\ in # <<>> /\ Status(in[Len(in)]) /\ Last(Raw) = in[Len(in)]
  BY <1>1, ToldBy
<1>4. in[Len(in)].ok
  BY <1>1, <1>3, ToldStatus
<1>5. Accepted(in)
  BY <1>3, <1>4 DEF Accepted
<1>6. in' = <<>>
  BY ReadAnswerTalks
<1>7. ~Moving'
  BY <1>1, JobAfter DEF Moving
<1>8. \A m \in Mailboxes : cache[m] \in CacheSet /\ Own(cache[m], m)
  BY <1>2 DEF Belong, Files, StateTypes
<1> QED  BY <1>1, <1>2, <1>3, <1>5, <1>6, <1>7, <1>8 DEF Accepts

(* SELECT with QRESYNC: what the server says is gone has been removed.     *)
LEMMA SelectQresyncRises ==
  ASSUME IInv, Rises, Accepts, Now = "SELECT_QRESYNC"
  PROVE  Rises'
<1>1. PICK raw \in Seq(ItemSet) : raw = in
  BY DEF Accepts
<1>2. job.box \in Mailboxes
  <2>1. job.todo # <<>> /\ job.todo[1] \in Selecting
    BY NowIs, JobParts DEF Accepts, Selecting
  <2> QED  BY <2>1, JobParts DEF Accepts
<1>3. MovedAway = {}
  BY DEF MovedAway
<1> DEFINE N == {g \in Reported(in, TRUE) : g \notin Notices}
<1>4. ASSUME NEW g \in N
      PROVE  \E i \in Of(raw, "VANISHED") : \E u \in raw[i].uids :
               g = <<"select", job.box, raw[i].data[2], u>> /\ raw[i].data[1] = job.box
  <2>1. PICK accepted \in BOOLEAN : accepted = TRUE
    OBVIOUS
  <2>2. g \in Reported(raw, accepted) /\ g \notin Notices
    BY <1>1, <2>1
  <2> QED  BY <2>2, ReportedIs
<1>5. gone' \subseteq gone \cup Notices \cup N
  BY <1>3 DEF Accepts
<1> HIDE DEF N
<1>6. ASSUME NEW g \in N
      PROVE  /\ g \in Graves /\ g[2] = job.box /\ g[4] \in ExpungedUids(raw) /\ Dead(g[2], g[3], g[4])
             /\ \A k \in DOMAIN srv.news : srv.news[k].kind = "FETCH" /\ srv.news[k].data.of = <<g[2], g[3]>>
                                             => srv.news[k].data.uid # g[4]
  <2>1. PICK i \in Of(raw, "VANISHED") : \E u \in raw[i].uids :
               g = <<"select", job.box, raw[i].data[2], u>> /\ raw[i].data[1] = job.box
    BY <1>4
  <2>2. PICK u \in raw[i].uids : g = <<"select", job.box, raw[i].data[2], u>> /\ raw[i].data[1] = job.box
    BY <2>1
  <2>3. raw[i] \in ItemSet /\ raw[i].kind = "VANISHED" /\ i \in DOMAIN raw
    BY OfIs DEF Of
  <2>4. PICK m \in Mailboxes, v \in Nat : raw[i].data = <<m, v>>
    BY <2>3, ItemFields DEF Place
  <2>5. u \in Uids
    BY <2>3, ItemFields
  <2>6. m = job.box /\ raw[i].data[1] = m /\ raw[i].data[2] = v /\ g = <<"select", m, v, u>>
    BY <2>2, <2>4
  <2>7. g[2] = m /\ g[3] = v /\ g[4] = u
    BY <2>6
  <2>8. Dead(m, v, u)
    <3>1. raw[i] \in Honest
      BY <1>1, <2>3 DEF Rises, All
    <3> QED  BY <2>3, <2>6, <3>1 DEF Honest
  <2>9. ASSUME NEW k \in DOMAIN srv.news, srv.news[k].kind = "FETCH", srv.news[k].data.of = <<m, v>>, srv.news[k].data.uid = u
        PROVE  FALSE
    <3>1. srv.news[k] \in Fresh
      BY DEF Rises, All
    <3>2. ~Ends(raw[i], srv.news[k])
      BY <1>1, <2>3, <2>9, <3>1 DEF Fresh
    <3> QED  BY <2>3, <2>4, <2>9, <3>2 DEF Ends
  <2>10. u \in ExpungedUids(raw)
    BY DEF ExpungedUids
  <2>11. g \in Graves
    BY <2>5, <2>6 DEF Graves
  <2> QED  BY <2>6, <2>7, <2>8, <2>9, <2>10, <2>11
<1>7. N \in SUBSET Graves
  BY <1>6
<1>8. ASSUME NEW m \in Mailboxes, NEW u \in DOMAIN cache'[m].msgs
      PROVE  /\ Known(m, cache'[m].validity, u)
             /\ ~(<<"select", m, cache'[m].validity, u>> \in gone' \/ <<"move", m, cache'[m].validity, u>> \in gone')
  <2>1. PICK c \in CacheSet : c = cache[m] /\ Own(c, m)
    BY DEF Accepts
  <2>2. PICK d : d = cache'[m]
    OBVIOUS
  <2>3. Keeps(c, d) /\ (m = job.box => u \notin ExpungedUids(raw))
    <3>1. CASE m # job.box
      <4>1. d = c
        <5>1. NewCache(raw)[m] = cache[m]
          BY <3>1, NewCacheType, <1>1 DEF Accepts
        <5> QED  BY <1>1, <2>1, <2>2, <5>1 DEF Accepts
      <4> QED  BY <3>1, <4>1 DEF Keeps
    <3>2. CASE m = job.box
      <4>1. PICK S : S = ExpungedUids(raw)
        OBVIOUS
      <4>2. PICK e \in CacheSet : e = RemoveMessages(c, S) /\ Keeps(c, e) /\ (\A w \in DOMAIN e.msgs : w \notin S) /\ e.validity = c.validity
        BY RemoveMessagesType, RemoveKeeps
      <4>3. d = Selected(e, raw)
        <5>1. cache' = [cache EXCEPT ![job.box] = Selected(RemoveMessages(cache[job.box], S), raw)]
          BY <1>1, <4>1 DEF Accepts, NewCache
        <5>2. cache'[m] = Selected(RemoveMessages(cache[m], S), raw)
          BY <3>2, <5>1 DEF Accepts, StateTypes
        <5> QED  BY <2>1, <2>2, <4>2, <5>2
      <4>4. e.validity = 0 => DOMAIN e.msgs = {}
        BY <2>1, <4>2 DEF Own, Keeps
      <4>5. Keeps(e, d)
        BY <4>3, <4>4, SelectedKeeps
      <4>6. Keeps(c, d) /\ u \in DOMAIN e.msgs
        BY <2>2, <4>2, <4>5 DEF Keeps
      <4> QED  BY <4>1, <4>2, <4>6
    <3> QED  BY <3>1, <3>2
  <2>4. Known(m, d.validity, u) /\ ~Buried(m, d.validity, u)
    BY <2>1, <2>2, <2>3, KeptStock DEF Accepts
  <2>5. <<"select", m, d.validity, u>> \notin N /\ <<"move", m, d.validity, u>> \notin N
    BY <1>6, <2>3
  <2>6. <<"select", m, d.validity, u>> \notin Notices /\ <<"move", m, d.validity, u>> \notin Notices
    BY DEF Notices
  <2> QED  BY <1>5, <2>2, <2>4, <2>5, <2>6 DEF Buried
<1>9. Stock'
  BY <1>8, StockBy DEF Accepts
<1> QED  BY <1>5, <1>6, <1>7, <1>9, BuriesRises DEF Accepts

(* MOVE: what was asked for is removed, and nothing is pending about it.   *)
LEMMA MoveRises ==
  ASSUME IInv, Rises, Accepts, Now = "UIDMOVE", job.uids # {}
  PROVE  Rises'
<1>1. PICK raw \in Seq(ItemSet) : raw = in
  BY DEF Accepts
<1>2. Reported(in, TRUE) \subseteq Notices
  <2>1. PICK accepted \in BOOLEAN : accepted = TRUE
    OBVIOUS
  <2>2. Reported(raw, accepted) \subseteq Notices
    BY ReportedStill
  <2> QED  BY <1>1, <2>1, <2>2
<1>3. CASE cli.box = "none"
  <2>1. cache' = cache
    BY <1>3 DEF Accepts, NewCache
  <2>2. Still
    BY <1>2, <1>3 DEF Accepts, MovedAway, Still
  <2> QED  BY <2>1, <2>2, NothingMoving, ReadRises DEF Accepts
<1>4. CASE cli.box # "none"
  <2>1. PICK b \in Mailboxes : b = cli.box
    BY <1>4 DEF Accepts, StateTypes, NoneOr
  <2>2. PICK v \in Nat : v = cli.validity
    BY DEF Accepts, StateTypes
  <2> DEFINE N == {<<"move", b, v, u>> : u \in DOMAIN cache[b].msgs \cap job.uids}
  <2>3. MovedAway = N
    BY <1>4, <2>1, <2>2 DEF MovedAway
  <2>4. gone' \subseteq gone \cup Notices \cup N
    BY <1>2, <2>3 DEF Accepts
  <2>5. DOMAIN cache[b].msgs \subseteq Uids
    BY CacheMsgs DEF Accepts
  <2>6. ASSUME NEW u \in DOMAIN cache[b].msgs \cap job.uids
        PROVE  /\ Dead(b, v, u)
               /\ \A k \in DOMAIN srv.news : srv.news[k].kind = "FETCH" /\ srv.news[k].data.of = <<b, v>> => srv.news[k].data.uid # u
    <3>1. Moving /\ Accepted(in) /\ Moved
      BY DEF Accepts, Moving, Rises
    <3> QED  BY <1>4, <2>1, <2>2, <3>1 DEF Moved, Here2
  <2>7. \A g \in N : \E u \in DOMAIN cache[b].msgs \cap job.uids : g = <<"move", b, v, u>> /\ g[2] = b /\ g[3] = v /\ g[4] = u
    OBVIOUS
  <2> HIDE DEF N
  <2>8. N \in SUBSET Graves
    BY <2>5, <2>7 DEF Graves
  <2>9. \A g \in N : /\ Dead(g[2], g[3], g[4])
                     /\ \A k \in DOMAIN srv.news : srv.news[k].kind = "FETCH" /\ srv.news[k].data.of = <<g[2], g[3]>>
                                                     => srv.news[k].data.uid # g[4]
    BY <2>6, <2>7
  <2>10. ASSUME NEW m \in Mailboxes, NEW u \in DOMAIN cache'[m].msgs
         PROVE  /\ Known(m, cache'[m].validity, u)
                /\ ~(<<"select", m, cache'[m].validity, u>> \in gone' \/ <<"move", m, cache'[m].validity, u>> \in gone')
    <3>1. PICK c \in CacheSet : c = cache[m]
      BY DEF Accepts
    <3>2. PICK d : d = cache'[m]
      OBVIOUS
    <3>3. cache' = [cache EXCEPT ![b] = RemoveMessages(cache[b], job.uids)]
      BY <1>4, <2>1 DEF Accepts, NewCache, Filed
    <3>4. Keeps(c, d) /\ (m = b => u \notin job.uids)
      <4>1. CASE m # b
        BY <3>1, <3>2, <3>3, <4>1 DEF Accepts, StateTypes, Keeps
      <4>2. CASE m = b
        <5>1. PICK S : S = job.uids
          OBVIOUS
        <5>2. d = RemoveMessages(c, S)
          BY <3>1, <3>2, <3>3, <4>2, <5>1 DEF Accepts, StateTypes
        <5> QED  BY <3>2, <5>1, <5>2, RemoveKeeps
      <4> QED  BY <4>1, <4>2
    <3>5. Known(m, d.validity, u) /\ ~Buried(m, d.validity, u)
      BY <3>1, <3>2, <3>4, KeptStock DEF Accepts
    <3>6. <<"select", m, d.validity, u>> \notin N /\ <<"move", m, d.validity, u>> \notin N
      BY <2>7, <3>4
    <3>7. <<"select", m, d.validity, u>> \notin Notices /\ <<"move", m, d.validity, u>> \notin Notices
      BY DEF Notices
    <3> QED  BY <2>4, <3>2, <3>5, <3>6, <3>7 DEF Buried
  <2>11. Stock'
    BY <2>10, StockBy DEF Accepts
  <2> QED  BY <2>4, <2>8, <2>9, <2>11, BuriesRises DEF Accepts
<1> QED  BY <1>3, <1>4

(* What any other command files: what was there, or what it has fetched.   *)
LEMMA FiledKeeps ==
  ASSUME IInv, Belong, Accepts, Now \notin {"SELECT_QRESYNC", "UIDMOVE", "SELECT"}, NEW raw \in Seq(ItemSet), raw = in,
         NEW c \in CacheSet, c = cache[cli.box], cli.box \in Mailboxes, NEW d, d = Filed(c, raw), NEW u \in DOMAIN d.msgs
  PROVE  \/ u \in DOMAIN c.msgs /\ d.validity = c.validity
         \/ d.validity = cli.validity /\ \E i \in Of(raw, "FETCH") : raw[i].data.uid = u /\ raw[i].data.of = Here2
<1>1. c.validity = 0 => DOMAIN c.msgs = {}
  BY DEF Accepts, Own
<1>2. CASE d = c
  BY <1>2
<1>3. CASE d = Flagged(c, job.uids)
  <2>1. PICK S, f : S = job.uids /\ f \in BOOLEAN /\ f = TRUE
    OBVIOUS
  <2>2. Keeps(c, UpdateFlags(c, S, f))
    BY <2>1, UpdateKeeps
  <2> QED  BY <1>3, <2>1, <2>2 DEF Flagged, Keeps
<1>4. CASE Now = "BODY"
  <2>1. PICK w : d = SetMessageBody(c, w, Body(raw))
    BY <1>4 DEF Filed
  <2>2. PICK body \in Bodies : body = Body(raw)
    BY BodyIs
  <2>3. Keeps(c, SetMessageBody(c, w, body))
    BY BodyKeeps
  <2> QED  BY <2>1, <2>2, <2>3 DEF Keeps
<1>5. CASE Now \in {"UIDFETCH", "CHANGEDSINCE", "UIDSTORE"} /\ d = Stored(c, raw)
  <2>1. ~Choosing /\ All(in, Bare)
    BY <1>5, BareLines DEF Choosing, Selecting
  <2>2. \A i \in Of(raw, "FETCH") : cli.validity # 0 /\ raw[i].data.of = Here2
    <3> SUFFICES ASSUME NEW i \in Of(raw, "FETCH") PROVE cli.validity # 0 /\ raw[i].data.of = Here2
      OBVIOUS
    <3>1. raw[i] \in Bare /\ raw[i].kind = "FETCH"
      BY <2>1 DEF Of, All
    <3> QED  BY <3>1, Bounds DEF Bare, IsHere
  <2>3. cli.validity # 0 => c.validity \in {0, cli.validity}
    BY Bounds DEF Belong, Cli
  <2>4. \/ u \in DOMAIN c.msgs /\ Stored(c, raw).validity = c.validity
        \/ Fetch(raw, u) /\ Stored(c, raw).validity = cli.validity
    BY <1>1, <1>5, <2>2, <2>3, StoredKeeps DEF Accepts
  <2> QED  BY <1>5, <2>2, <2>4 DEF Fetch
<1>6. \/ d = c
      \/ d = Flagged(c, job.uids)
      \/ Now = "BODY"
      \/ Now \in {"UIDFETCH", "CHANGEDSINCE", "UIDSTORE"} /\ d = Stored(c, raw)
  BY DEF Filed
<1> QED  BY <1>2, <1>3, <1>4, <1>5, <1>6

LEMMA FileRises ==
  ASSUME IInv, Belong, Rises, Accepts, Now \notin {"SELECT_QRESYNC", "UIDMOVE"}
  PROVE  Rises'
<1>1. PICK raw \in Seq(ItemSet) : raw = in
  BY DEF Accepts
<1>2. PICK N : N = {}
  OBVIOUS
<1>3. gone' \subseteq gone \cup Notices
  <2>1. PICK accepted \in BOOLEAN : accepted = TRUE
    OBVIOUS
  <2>2. Reported(raw, accepted) \subseteq Notices
    BY ReportedStill
  <2> QED  BY <1>1, <2>1, <2>2 DEF Accepts, MovedAway
<1>4. ASSUME NEW m \in Mailboxes, NEW u \in DOMAIN cache'[m].msgs
      PROVE  Known(m, cache'[m].validity, u) /\ ~Buried(m, cache'[m].validity, u)
  <2>1. PICK c \in CacheSet : c = cache[m] /\ Own(c, m)
    BY DEF Accepts
  <2>2. PICK d : d = cache'[m]
    OBVIOUS
  <2>3. Keeps(c, d) => Known(m, d.validity, u) /\ ~Buried(m, d.validity, u)
    BY <2>1, <2>2, KeptStock DEF Accepts
  <2>4. CASE d = c
    BY <2>2, <2>3, <2>4 DEF Keeps
  <2>5. CASE d = Selected(c, raw)
    BY <2>1, <2>2, <2>3, <2>5, SelectedKeeps DEF Own
  <2>6. CASE Now # "SELECT" /\ m = cli.box /\ d = Filed(c, raw)
    <3>1. \/ u \in DOMAIN c.msgs /\ d.validity = c.validity
          \/ d.validity = cli.validity /\ \E i \in Of(raw, "FETCH") : raw[i].data.uid = u /\ raw[i].data.of = Here2
      BY <1>1, <2>1, <2>2, <2>6, FiledKeeps
    <3>2. CASE u \in DOMAIN c.msgs /\ d.validity = c.validity
      BY <2>1, <2>2, <3>2 DEF Rises, Stock
    <3>3. CASE d.validity = cli.validity /\ \E i \in Of(raw, "FETCH") : raw[i].data.uid = u /\ raw[i].data.of = Here2
      <4>1. PICK i \in Of(raw, "FETCH") : raw[i].data.uid = u /\ raw[i].data.of = <<m, cli.validity>>
        BY <2>6, <3>3 DEF Here2
      <4>2. raw[i] \in Honest /\ raw[i].kind = "FETCH"
        BY <1>1 DEF Rises, All, Of
      <4>3. raw[i].data.of[1] = m /\ raw[i].data.of[2] = cli.validity
        BY <4>1
      <4> QED  BY <2>2, <3>3, <4>1, <4>2, <4>3 DEF Honest
    <3> QED  BY <3>1, <3>2, <3>3
  <2>7. d = c \/ d = Selected(c, raw) \/ (Now # "SELECT" /\ m = cli.box /\ d = Filed(c, raw))
    <3>1. d = NewCache(raw)[m]
      BY <1>1, <2>2 DEF Accepts
    <3> QED  BY <2>1, <3>1, NewCacheType DEF Accepts
  <2> QED  BY <2>2, <2>4, <2>5, <2>6, <2>7
<1>5. Stock'
  <2>1. \A m, v, u : <<"select", m, v, u>> \notin Notices /\ <<"move", m, v, u>> \notin Notices
    BY DEF Notices
  <2>2. UNCHANGED box
    BY DEF Accepts
  <2> QED  BY <1>3, <1>4, <2>1, <2>2, StockBy DEF Buried
<1>6. N \in SUBSET Graves /\ gone' \subseteq gone \cup Notices \cup N /\ \A g \in N : FALSE
  BY <1>2, <1>3
<1> QED  BY <1>5, <1>6, BuriesRises DEF Accepts

LEMMA ReadAnswerRises ==
  ASSUME IInv, Talk, Waits, NoSlash, Belong, Rises, ReadAnswer, Now = "UIDMOVE" => job.uids # {}
  PROVE  Rises'
<1>1. CASE ~Told(Raw)
  <2>1. /\ job.op # "none" /\ Close > 0 /\ UNCHANGED <<box, srv, cache>> /\ Ended /\ in \in Seq(ItemSet)
        /\ gone' = gone \cup Reported(Raw, FALSE)
    BY <1>1 DEF ReadAnswer, At, Busy, server, state, IInv, Types, LinkTypes
  <2>2. in' = <<>>
    BY ReadAnswerTalks
  <2>3. Still
    <3>1. PICK raw \in Seq(ItemSet) : raw = Raw
      BY <2>1, RawIs
    <3>2. PICK accepted \in BOOLEAN : accepted = FALSE
      OBVIOUS
    <3>3. Reported(raw, accepted) \subseteq Notices
      BY <3>2, ReportedStill
    <3> QED  BY <2>1, <3>1, <3>2, <3>3 DEF Still
  <2>4. ~Moving'
    BY <2>1, JobAfter DEF Moving
  <2> QED  BY <2>1, <2>2, <2>3, <2>4, NothingMoving, ReadRises
<1>2. CASE Told(Raw)
  BY <1>2, AnswerAccepts, SelectQresyncRises, MoveRises, FileRises
<1> QED  BY <1>1, <1>2

-----------------------------------------------------------------------------
(* The server's lines. One that says which messages are gone names those   *)
(* the mailbox has put away; one about a message is about one it holds.    *)
LEMMA PlainHonest ==
  ASSUME \A m \in Mailboxes : Sound(box'[m])
  PROVE  Plain \subseteq Honest'
<1> SUFFICES ASSUME NEW x \in Plain PROVE x \in Honest'
  OBVIOUS
<1>1. x \in ItemSet /\ x.kind # "FETCH"
  BY DEF Plain
<1>2. ASSUME x.kind = "VANISHED", NEW u \in x.uids
      PROVE  Dead(x.data[1], x.data[2], u)'
  <2>1. PICK m \in Mailboxes, v \in Nat : m = x.data[1] /\ v = x.data[2]
    BY <1>1, <1>2, ItemFields DEF Place
  <2>2. box'[m].validity = v /\ u \in DOMAIN box'[m].gone
    BY <1>2, <2>1 DEF Plain, Vanishes
  <2>3. u < box'[m].next /\ u \notin DOMAIN box'[m].msgs
    BY <2>2 DEF Sound
  <2>4. Dead(m, v, u)'
    BY <2>2, <2>3 DEF Dead, Known
  <2> QED  BY <2>1, <2>4
<1> QED  BY <1>1, <1>2, Zenon DEF Honest

LEMMA FetchesHonest ==
  ASSUME Laid, \A m \in Mailboxes : Sound(box[m]), ServerTypes, NEW m \in Mailboxes, NEW B
  PROVE  Fetches(m, box[m].validity, B) \subseteq Honest
<1> SUFFICES ASSUME NEW x \in Fetches(m, box[m].validity, B) PROVE x \in Honest
  OBVIOUS
<1>1. x \in ItemSet /\ x.kind = "FETCH" /\ x.data.of = <<m, box[m].validity>> /\ x.data.uid \in DOMAIN box[m].msgs
  BY DEF Fetches
<1>2. PICK u \in Uids : u = x.data.uid
  BY <1>1, ItemFields DEF FetchData
<1>3. PICK v \in Nat : v = box[m].validity
  BY DEF ServerTypes, BoxSet
<1>4. x.data.of[1] = m /\ x.data.of[2] = v
  BY <1>1, <1>3
<1>5. Known(m, v, u)
  BY <1>1, <1>2, <1>3 DEF Sound, Known
<1>6. ~Buried(m, v, u)
  BY <1>1, <1>2, <1>3 DEF Laid, Dead
<1> QED  BY <1>1, <1>2, <1>4, <1>5, <1>6 DEF Honest

LEMMA PickedHonest ==
  ASSUME NEW v
  PROVE  Picked(v) \subseteq Honest
BY MuteIsHonest DEF Picked, Mute

(* A status or a "+" is about no message.                                  *)
LEMMA StatusMute ==
  ASSUME NEW x \in Unmarked, x.kind \in {"plus", "tagged"}
  PROVE  x \in Mute
BY DEF Unmarked, Mute

(* Lines of one set have come in one of the three ways.                    *)
LEMMA SaidAll ==
  ASSUME IInv, NEW P, Mute \subseteq P, All(in, P), All(srv.news, P), NEW t, NEW L, NEW ok, Said(t, L, ok), L \subseteq P
  PROVE  All(in', P)
<1>1. in \in Seq(ItemSet) /\ ServerTypes
  BY DEF IInv, Types, LinkTypes
<1>2. (\A i \in DOMAIN in' \ {Len(in')} : in'[i] \in P) /\ in'[Len(in')] \in Unmarked /\ Status(in'[Len(in')])
  BY <1>1, AllOfSaid
<1>3. in'[Len(in')] \in P
  BY <1>2, StatusMute DEF Status
<1> QED  BY <1>2, <1>3 DEF All

LEMMA AddedAll ==
  ASSUME IInv, NEW P, Mute \subseteq P, All(in, P), NEW k \in {"plus", "tagged"}, Added(k)
  PROVE  All(in', P)
<1>1. in \in Seq(ItemSet)
  BY DEF IInv, Types, LinkTypes
<1>2. (\A i \in DOMAIN in' \ {Len(in')} : in'[i] \in P) /\ in'[Len(in')] \in Unmarked /\ in'[Len(in')].kind = k
  BY <1>1, AllOfAdded
<1>3. in'[Len(in')] \in P
  BY <1>2, StatusMute
<1> QED  BY <1>2, <1>3 DEF All

LEMMA BegunAll ==
  ASSUME IInv, NEW P, Mute \subseteq P, All(in, P), All(srv.news, P), BeginsIdle
  PROVE  All(in', P)
<1>1. in \in Seq(ItemSet) /\ ServerTypes
  BY DEF IInv, Types, LinkTypes
<1>2. \A i \in DOMAIN in' : in'[i] \in P \/ (in'[i].kind = "plus" /\ in'[i] \in Unmarked)
  BY <1>1, AllOfBegun
<1> QED  BY <1>2, StatusMute DEF All

(* What serving does to the mailboxes and what it says.                    *)
Says   == \E t, L, ok : Said(t, L, ok) /\ srv'.news = <<>> /\ L \subseteq Honest'
Adds   == \E k \in {"plus", "tagged"} : Added(k) /\ srv'.news = srv.news /\ (srv'.idle # 0 => srv.idle # 0)
Begins == BeginsIdle /\ srv'.news = <<>>

LEMMA ServedLines ==
  ASSUME IInv, Talk, Waits, Rises, Serve
  PROVE  Older /\ Still /\ (Says \/ Adds \/ Begins)
<1>1. LinkTypes /\ ServerTypes /\ BoundTypes /\ net = "up" /\ UNCHANGED <<job, state, history>>
  BY Served
<1>2. PICK c \in LineSet : c = out[1]
  BY Served
<1>3. Still
  BY <1>1 DEF Still, history
<1>4. Boxes => Older /\ Plain \subseteq Honest' /\ Honest \subseteq Honest'
  <2> SUFFICES ASSUME Boxes PROVE Older /\ Plain \subseteq Honest' /\ Honest \subseteq Honest'
    OBVIOUS
  <2>1. Older
    BY DEF Boxes, Older
  <2>2. \A m \in Mailboxes : Sound(box'[m])
    BY <1>1, <1>3, <2>1, LaidAges DEF Rises
  <2> QED  BY <1>1, <1>3, <2>1, <2>2, PlainHonest, HonestAges
<1>5. box' = box => Boxes
  BY <1>1, SameBoxesAge
<1>6. \A m \in Mailboxes : \A B : Fetches(m, box[m].validity, B) \subseteq Honest
  BY <1>1, FetchesHonest DEF Rises
<1>7. CASE ServeContinuation(c)
  <2>1. /\ Boxes
        /\ \/ Said(srv.cont, {}, TRUE) /\ srv'.news = <<>>
           \/ Added("tagged") /\ srv'.news = srv.news /\ (srv'.idle = srv.idle \/ srv'.idle = 0)
    BY <1>1, <1>7, ServeContinuationServed
  <2>2. ASSUME Said(srv.cont, {}, TRUE) /\ srv'.news = <<>> PROVE Says
    <3>1. PICK t, L, ok : t = srv.cont /\ L = {} /\ ok = TRUE
      OBVIOUS
    <3>2. Said(t, L, ok) /\ L \subseteq Honest'
      BY <2>2, <3>1
    <3> QED  BY <2>2, <3>2 DEF Says
  <2>3. ASSUME Added("tagged"), srv'.news = srv.news, srv'.idle = srv.idle \/ srv'.idle = 0 PROVE Adds
    <3>1. PICK k \in {"plus", "tagged"} : k = "tagged"
      OBVIOUS
    <3> QED  BY <2>3, <3>1 DEF Adds
  <2> QED  BY <1>3, <1>4, <2>1, <2>2, <2>3
<1>8. CASE Refuse(c)
  <2> DEFINE K == IF "partial" \in Faults /\ Legal(c) /\ c.verb = "UIDFETCH" THEN Fetches(srv.box, box[srv.box].validity, {}) ELSE {}
  <2>1. box' = box /\ Session(IF c.verb \in Selecting THEN "none" ELSE srv.box) /\ Said(c.tag, K, FALSE)
    BY <1>1, <1>8, RefuseServed
  <2>2. K \subseteq Honest
    <3>1. Legal(c) /\ c.verb = "UIDFETCH" => srv.box \in Mailboxes
      BY <1>1 DEF Legal, InMailbox, AnyTime, ServerTypes, SessionSet, NoneOr
    <3> QED  BY <1>6, <3>1
  <2> HIDE DEF K
  <2>3. PICK t, L, ok : t = c.tag /\ L = K /\ ok = FALSE
    OBVIOUS
  <2>4. Said(t, L, ok) /\ L \subseteq Honest'
    BY <1>4, <1>5, <2>1, <2>2, <2>3
  <2> QED  BY <1>3, <1>4, <1>5, <2>1, <2>4 DEF Says, Session
<1>9. CASE RefuseXOAuth2(c)
  <2>1. box' = box /\ Added("plus") /\ srv'.news = srv.news /\ srv'.idle = srv.idle
    BY <1>1, <1>9, RefuseXOAuth2Served
  <2>2. PICK k \in {"plus", "tagged"} : k = "plus"
    OBVIOUS
  <2> QED  BY <1>3, <1>4, <1>5, <2>1, <2>2 DEF Adds
<1>10. CASE ServeSession(c)
  <2>1. /\ box' = box
        /\ \/ Added("plus") /\ srv'.news = srv.news /\ srv'.idle = srv.idle
           \/ BeginsIdle /\ srv'.news = <<>>
           \/ Said(c.tag, Plain, TRUE) /\ Session(srv.box)
    BY <1>1, <1>10, ServeSessionServed
  <2>2. ASSUME Said(c.tag, Plain, TRUE), Session(srv.box) PROVE Says
    <3>1. PICK t, L, ok : t = c.tag /\ L = Plain /\ ok = TRUE
      OBVIOUS
    <3>2. Said(t, L, ok) /\ L \subseteq Honest'
      BY <1>4, <1>5, <2>1, <2>2, <3>1
    <3> QED  BY <2>2, <3>2 DEF Says, Session
  <2>3. ASSUME Added("plus"), srv'.news = srv.news, srv'.idle = srv.idle PROVE Adds
    <3>1. PICK k \in {"plus", "tagged"} : k = "plus"
      OBVIOUS
    <3> QED  BY <2>3, <3>1 DEF Adds
  <2> QED  BY <1>3, <1>4, <1>5, <2>1, <2>2, <2>3 DEF Begins
<1>11. CASE ServeSelect(c)
  <2>1. /\ box' = box /\ Session(c.box) /\ c.box \in Mailboxes
        /\ Said(c.tag, Picked(box[c.box].validity) \cup Plain \cup Fetches(c.box, box[c.box].validity, {}), TRUE)
    BY <1>1, <1>11, ServeSelectServed
  <2>2. PICK v : v = box[c.box].validity
    OBVIOUS
  <2>3. PICK t, L, ok : t = c.tag /\ L = Picked(v) \cup Plain \cup Fetches(c.box, v, {}) /\ ok = TRUE
    OBVIOUS
  <2>4. Said(t, L, ok)
    BY <2>1, <2>2, <2>3
  <2>5. Picked(v) \subseteq Honest /\ Plain \subseteq Honest' /\ Fetches(c.box, v, {}) \subseteq Honest /\ Honest \subseteq Honest'
    BY <1>4, <1>5, <1>6, <2>1, <2>2, PickedHonest
  <2>6. L \subseteq Honest'
    BY <2>3, <2>5
  <2> QED  BY <1>3, <1>4, <1>5, <2>1, <2>4, <2>6 DEF Says, Session
<1>12. CASE Legal(c) /\ ServeFetch(c)
  <2>1. PICK L : L = Fetches(srv.box, box[srv.box].validity, IF c.verb = "BODY" THEN Meant(c) ELSE {})
    OBVIOUS
  <2>2. srv.box \in Mailboxes /\ Boxes /\ Session(srv.box) /\ Said(c.tag, L, TRUE)
    BY <1>1, <1>12, <2>1, ServeFetchServed
  <2>3. PICK t, ok : t = c.tag /\ ok = TRUE
    OBVIOUS
  <2>4. Said(t, L, ok) /\ L \subseteq Honest'
    BY <1>4, <1>6, <2>1, <2>2, <2>3
  <2> QED  BY <1>3, <1>4, <2>2, <2>4 DEF Says, Session
<1>13. CASE Legal(c) /\ ServeStore(c)
  <2>1. PICK L : L = Fetches(srv.box, box[srv.box].validity, {})
    OBVIOUS
  <2>2. srv.box \in Mailboxes /\ Boxes /\ Session(srv.box) /\ Said(c.tag, L, TRUE)
    BY <1>1, <1>13, <2>1, ServeStoreServed
  <2>3. PICK t, ok : t = c.tag /\ ok = TRUE
    OBVIOUS
  <2>4. Said(t, L, ok) /\ L \subseteq Honest'
    BY <1>4, <1>6, <2>1, <2>2, <2>3
  <2> QED  BY <1>3, <1>4, <2>2, <2>4 DEF Says, Session
<1>14. CASE Legal(c) /\ ServeRemoval(c)
  <2>1. PICK L : L = Plain
    OBVIOUS
  <2>2. Boxes /\ Session(IF c.verb = "CLOSE" THEN "none" ELSE srv.box) /\ Said(c.tag, L, TRUE)
    BY <1>1, <1>14, <2>1, ServeRemovalServed
  <2>3. PICK t, ok : t = c.tag /\ ok = TRUE
    OBVIOUS
  <2>4. Said(t, L, ok) /\ L \subseteq Honest'
    BY <1>4, <2>1, <2>2, <2>3
  <2> QED  BY <1>3, <1>4, <2>2, <2>4 DEF Says, Session
<1> QED  BY <1>2, <1>7, <1>8, <1>9, <1>10, <1>11, <1>12, <1>13, <1>14, Served

(* A server that has said "+" is not asked for MOVE.                       *)
LEMMA WaitsUnmoved ==
  ASSUME IInv, Talk, Waits, net = "up", ~InCommand
  PROVE  ~Moving
<1>1. job.todo \in {Idling, <<"wait", "DONE">>, <<"DONE">>, <<"APPEND", "literal">>, <<"literal">>, <<"XOAUTH2">>}
  BY DEF Waits, Idles, Literal, Sasl, InCommand
<1>2. /\ <<"wait", "DONE">>[1] = "wait" /\ <<"DONE">>[1] = "DONE" /\ Idling[1] = "IDLE" /\ Idling # <<>>
      /\ <<"APPEND", "literal">>[1] = "APPEND" /\ <<"literal">>[1] = "literal" /\ <<"XOAUTH2">>[1] = "XOAUTH2"
  BY DEF Idling
<1>3. job.todo # <<>> /\ job \in JobSet
  <2>1. job.todo # <<>>
    BY <1>1 DEF Idling
  <2> QED  BY <2>1 DEF IInv, Types, ClientTypes
<1>4. Now = job.todo[1]
  BY <1>3, NowIs DEF JobSet
<1> QED  BY <1>1, <1>2, <1>4 DEF Moving

(* MOVE is served: what it names of the cache is dead.                     *)
LEMMA ServeMoves ==
  ASSUME IInv, Talk, Waits, Belong, Rises, Serve, Older, Moving, Accepted(in'), cli.box # "none",
         NEW u \in job.uids \cap DOMAIN cache[cli.box].msgs
  PROVE  Dead(cli.box, cli.validity, u)' /\ srv'.news = <<>>
<1>1. /\ net = "up" /\ LinkTypes /\ ServerTypes /\ BoundTypes /\ out # <<>> /\ in \in Seq(ItemSet)
      /\ out[1].verb = "UIDMOVE" /\ UNCHANGED <<job, state>>
  BY Served DEF Moving
<1>2. PICK c \in LineSet : c = out[1] /\ c.verb = "UIDMOVE" /\ c.uids = job.uids
  BY <1>1, Served DEF Belong
<1>3. InCommand
  BY <1>1, WaitsUnmoved
<1>4. ~Refuse(c)
  <2> SUFFICES ASSUME Refuse(c) PROVE FALSE
    OBVIOUS
  <2>1. Said(c.tag, {}, FALSE)
    BY <1>1, <1>2, RefuseServed
  <2>2. Len(in') > 0 /\ in'[Len(in')].ok = FALSE
    BY <2>1 DEF Said
  <2> QED  BY <2>2 DEF Accepted
<1>5. Legal(c) /\ ServeRemoval(c)
  <2>1. ~RefuseXOAuth2(c) /\ ~ServeSession(c) /\ ~ServeSelect(c) /\ ~ServeFetch(c) /\ ~ServeStore(c)
    BY <1>2, Zenon DEF RefuseXOAuth2, ServeSession, ServeSelect, ServeFetch, ServeStore, AnyTime
  <2> QED  BY <1>2, <1>3, <1>4, <2>1, Served
<1>6. srv.box \in Mailboxes /\ c.uids \cap DOMAIN box'[srv.box].msgs = {} /\ srv'.news = <<>>
  BY <1>1, <1>2, <1>5, ServeRemovalServed DEF Session
<1>7. srv.box = cli.box /\ cli.validity = box[srv.box].validity
  <2>1. Now = "UIDMOVE"
    BY DEF Moving
  <2>2. Settled
    BY <1>1, <2>1 DEF Belong, Choosing, Selecting
  <2> QED  BY <1>6, <2>2, Bounds DEF Settled
<1>8. PICK m \in Mailboxes, v \in Nat : m = cli.box /\ v = cli.validity /\ v = box[m].validity /\ v # 0
  BY <1>1, <1>6, <1>7 DEF ServerTypes, BoxSet
<1>9. cache[m].validity = v
  <2>1. cache[m].validity \in {0, v} /\ (cache[m].validity = 0 => DOMAIN cache[m].msgs = {})
    BY <1>8 DEF Belong, Cli, Files, Own
  <2> QED  BY <1>8, <2>1
<1>10. u \in Nat
  BY <1>8, CacheMsgs, Bounds DEF IInv, Types, StateTypes
<1>11. Known(m, v, u)'
  <2>1. Known(m, v, u)
    BY <1>8, <1>9 DEF Rises, Stock
  <2> QED  BY <1>1, <1>8, <1>10, <2>1, KnownAges
<1>12. Dead(m, v, u)'
  BY <1>2, <1>6, <1>7, <1>8, <1>11 DEF Dead
<1>13. m = cli'.box /\ v = cli'.validity
  BY <1>1, <1>8 DEF state
<1> QED  BY <1>6, <1>12, <1>13

LEMMA ServeRises ==
  ASSUME IInv, Talk, Waits, Belong, Rises, Serve
  PROVE  Rises'
<1>1. UNCHANGED <<job, state, history>> /\ ServerTypes /\ in \in Seq(ItemSet)
  BY Served
<1>2. Older /\ Still /\ (Says \/ Adds \/ Begins)
  BY ServedLines
<1>3. PICK P : P = Honest'
  OBVIOUS
<1>4. Mute \subseteq P /\ All(in, P) /\ All(srv.news, P)
  BY <1>1, <1>2, <1>3, HonestAges, MuteIsHonest DEF Rises, All
<1>5. All(in', P)
  <2>1. CASE Says
    <3>1. PICK t, L, ok : Said(t, L, ok) /\ L \subseteq P
      BY <1>3, <2>1 DEF Says
    <3> QED  BY <1>4, <3>1, SaidAll
  <2>2. CASE Adds
    <3>1. PICK k \in {"plus", "tagged"} : Added(k)
      BY <2>2 DEF Adds
    <3> QED  BY <1>4, <3>1, AddedAll
  <2>3. CASE Begins
    BY <1>4, <2>3, BegunAll DEF Begins
  <2> QED  BY <1>2, <2>1, <2>2, <2>3
<1>6. srv'.news = <<>> \/ (Adds /\ srv'.news = srv.news /\ (srv'.idle # 0 => srv.idle # 0))
  BY <1>2 DEF Says, Adds, Begins
<1>7. All(srv'.news, Honest')
  BY <1>3, <1>4, <1>6, NothingAll
<1>8. All(srv'.news, Fresh')
  <2>1. CASE srv'.news = <<>>
    BY <2>1, NothingAll
  <2>2. CASE Adds /\ srv'.news = srv.news
    <3>1. PICK k \in {"plus", "tagged"} : Added(k)
      BY <2>2 DEF Adds
    <3> SUFFICES ASSUME NEW n \in DOMAIN srv.news, srv.news[n].kind = "FETCH", NEW i \in DOMAIN in'
                 PROVE  ~Ends(in'[i], srv.news[n])
      <4>1. All(srv.news, ItemSet)
        BY DEF Rises, All, Fresh
      <4> QED  BY <2>2, <4>1 DEF All, Fresh
    <3>2. \A j \in DOMAIN in : ~Ends(in[j], srv.news[n])
      BY DEF Rises, All, Fresh
    <3>3. (i \in DOMAIN in /\ in'[i] = in[i]) \/ in'[i].kind = k
      <4>1. DOMAIN in' = 1..Len(in') /\ DOMAIN in = 1..Len(in) /\ Len(in) \in Nat /\ Len(in') = Len(in) + 1
        BY <1>1, <3>1, LenProperties DEF Added
      <4>2. i \in 1..Len(in) \/ i = Len(in) + 1
        BY <4>1
      <4> QED  BY <3>1, <4>1, <4>2 DEF Added
    <3> QED  BY <3>2, <3>3 DEF Ends
  <2> QED  BY <1>6, <2>1, <2>2
<1>9. srv'.idle # 0 => srv'.news = <<>>
  BY <1>6 DEF Rises
<1>10. Moved'
  <2>1. Moving' = Moving /\ cli' = cli /\ cache' = cache /\ job' = job
    BY <1>1 DEF Moving, Now, state
  <2> SUFFICES ASSUME Moving, Accepted(in'), cli.box # "none", NEW u \in job.uids \cap DOMAIN cache[cli.box].msgs
               PROVE  Dead(cli.box, cli.validity, u)' /\ srv'.news = <<>>
    <3>1. PICK D : D = job.uids \cap DOMAIN cache[cli.box].msgs
      OBVIOUS
    <3>2. D = job'.uids \cap DOMAIN cache'[cli'.box].msgs
      BY <2>1, <3>1
    <3>3. \A k \in DOMAIN <<>> : FALSE
      OBVIOUS
    <3> QED  BY <2>1, <3>1, <3>2, <3>3 DEF Moved
  <2> QED  BY <1>2, ServeMoves
<1> QED  BY <1>1, <1>2, <1>3, <1>5, <1>7, <1>8, <1>9, <1>10, Risen DEF state

-----------------------------------------------------------------------------
(* Other clients.                                                          *)
LEMMA OtherLine ==
  ASSUME IInv, Rises, Older, Still, NEW m \in Mailboxes, NEW b, NEW line, Other(m, b, line), box'[m] = b
  PROVE  /\ line \in Honest' /\ line \in ItemSet /\ line.kind \notin {"tagged", "plus"}
         /\ line.kind = "FETCH" => line \in Honest /\ line.data.of = <<m, box[m].validity>> /\ line.data.uid \in DOMAIN box[m].msgs
<1>1. ServerTypes /\ line \in ItemSet
  BY DEF IInv, Types, Other
<1>2. CASE line.kind \in {"EXISTS", "VANISHED", "EXPUNGE"} /\ (line.kind = "VANISHED" => Gone(m, b, line))
  <2>1. ASSUME line.kind = "VANISHED", NEW u \in line.uids
        PROVE  Dead(line.data[1], line.data[2], u)'
    <3>1. PICK v \in Nat : v = line.data[2] /\ line.data[1] = m
      BY <1>1, <1>2, <2>1, ItemFields DEF Place, Gone
    <3>2. box'[m].validity = v /\ u \in DOMAIN box'[m].gone /\ Sound(box'[m])
      <4>1. Sound(box'[m])
        BY <1>1, LaidAges DEF Rises
      <4> QED  BY <1>2, <2>1, <3>1, <4>1 DEF Gone
    <3>3. Dead(m, v, u)'
      BY <3>2 DEF Dead, Known, Sound
    <3> QED  BY <3>1, <3>3
  <2>2. line \in Honest'
    BY <1>1, <1>2, <2>1, Zenon DEF Honest
  <2> QED  BY <1>1, <1>2, <2>2
<1>3. CASE line \in Fetches(m, box[m].validity, {})
  <2>1. line \in Honest
    BY <1>1, <1>3, FetchesHonest DEF Rises
  <2>2. line \in Honest'
    BY <1>1, <2>1, HonestAges
  <2> QED  BY <1>1, <1>3, <2>1, <2>2 DEF Fetches
<1> QED  BY <1>2, <1>3 DEF Other

(* A message that is alive is not one that is dead.                        *)
LEMMA AliveIsNot ==
  ASSUME IInv, NEW m \in Mailboxes, NEW x \in ItemSet, x.kind = "FETCH",
         x.data.of = <<m, box[m].validity>>, x.data.uid \in DOMAIN box[m].msgs
  PROVE  /\ \A y \in Honest : ~Ends(y, x)
         /\ \A a, v : \A u : x.data.of = <<a, v>> /\ Dead(a, v, u) => x.data.uid # u
<1>1. PICK v \in Nat : v = box[m].validity
  BY DEF IInv, Types, ServerTypes, BoxSet
<1>2. x.data.of[1] = m /\ x.data.of[2] = v
  BY <1>1
<1>3. ASSUME NEW y \in Honest, Ends(y, x) PROVE FALSE
  <2>1. Dead(y.data[1], y.data[2], x.data.uid)
    BY <1>3 DEF Honest, Ends
  <2>2. Dead(m, v, x.data.uid)
    BY <1>2, <1>3, <2>1 DEF Ends
  <2> QED  BY <1>1, <2>2 DEF Dead
<1>4. ASSUME NEW a, NEW w, NEW u, x.data.of = <<a, w>>, Dead(a, w, u), x.data.uid = u PROVE FALSE
  <2>1. a = m /\ w = v
    BY <1>1, <1>4
  <2> QED  BY <1>1, <1>4, <2>1 DEF Dead
<1> QED  BY <1>3, <1>4

LEMMA OthersRises ==
  ASSUME IInv, Talk, Waits, Rises, Others
  PROVE  Rises'
<1>1. PICK m \in Mailboxes : \E b, line : Other(m, b, line)
  BY OthersIs
<1>2. PICK b, line : Other(m, b, line)
  BY <1>1
<1>3. b \in BoxSet /\ line \in ItemSet /\ Announce(m, b, line) /\ Ages(box[m], b)
  BY <1>2 DEF Other
<1>4. /\ IInv' /\ box' = [box EXCEPT ![m] = b] /\ Announced(line)
      /\ UNCHANGED <<client, net, out, job, state, history>>
  BY <1>3, AnnounceServed
<1>5. box \in [Mailboxes -> BoxSet] /\ in \in Seq(ItemSet) /\ srv.news \in Seq(ItemSet) /\ ServerTypes
  BY DEF IInv, Types, ServerTypes, SessionSet, LinkTypes
<1>6. Older /\ Still /\ box'[m] = b
  <2>1. \A k \in Mailboxes : box'[k] = IF k = m THEN b ELSE box[k]
    BY <1>4, <1>5
  <2>2. \A k \in Mailboxes : Ages(box[k], box'[k])
    BY <1>3, <1>5, <2>1, StaysAges
  <2> QED  BY <1>3, <1>4, <1>5, <2>1, <2>2 DEF Older, Still, history
<1>7. /\ line \in Honest' /\ line.kind \notin {"tagged", "plus"}
      /\ line.kind = "FETCH" => line \in Honest /\ line.data.of = <<m, box[m].validity>> /\ line.data.uid \in DOMAIN box[m].msgs
  BY <1>2, <1>6, OtherLine
<1>8. Honest \subseteq Honest'
  BY <1>5, <1>6, HonestAges
<1>9. PICK P : P = Honest'
  OBVIOUS
<1>10. All(in, P) /\ All(srv.news, P) /\ line \in P
  BY <1>7, <1>8, <1>9 DEF Rises, All
<1>11. Moving' = Moving /\ cli' = cli /\ cache' = cache /\ job' = job /\ Here2' = Here2
  BY <1>4 DEF Moving, Now, state, Here2
<1>12. PICK D : D = job.uids \cap DOMAIN cache[cli.box].msgs /\ D = job'.uids \cap DOMAIN cache'[cli'.box].msgs
  BY <1>11
<1>13. Moving /\ cli.box # "none" => cli.box \in Mailboxes /\ cli.validity \in Nat /\ D \subseteq Nat
  <2>1. cli.box # "none" => cli.box \in Mailboxes
    BY DEF IInv, Types, StateTypes, NoneOr
  <2>2. cli.box \in Mailboxes => DOMAIN cache[cli.box].msgs \subseteq Nat
    BY CacheMsgs, Bounds DEF IInv, Types, StateTypes
  <2> QED  BY <1>12, <2>1, <2>2 DEF IInv, Types, StateTypes
<1>14. CASE UNCHANGED <<in, srv>>
  <2>1. All(in', Honest') /\ All(srv'.news, Honest') /\ (srv'.idle # 0 => srv'.news = <<>>)
    BY <1>9, <1>10, <1>14 DEF Rises
  <2>2. All(srv'.news, Fresh')
    BY <1>14 DEF Rises, Fresh, Ends, All
  <2>3. Moved'
    <3> SUFFICES ASSUME Moving, Accepted(in), cli.box # "none", NEW u \in D
                 PROVE  /\ Dead(cli.box, cli.validity, u)'
                        /\ \A k \in DOMAIN srv.news : srv.news[k].kind = "FETCH" /\ srv.news[k].data.of = Here2 => srv.news[k].data.uid # u
      BY <1>11, <1>12, <1>14 DEF Moved
    <3>1. /\ Dead(cli.box, cli.validity, u)
          /\ \A k \in DOMAIN srv.news : srv.news[k].kind = "FETCH" /\ srv.news[k].data.of = Here2 => srv.news[k].data.uid # u
      BY <1>12 DEF Rises, Moved
    <3>2. PICK a \in Mailboxes, v \in Nat : a = cli.box /\ v = cli.validity /\ u \in Nat
      BY <1>13
    <3>3. Dead(a, v, u)'
      BY <1>5, <1>6, <3>1, <3>2, KnownAges
    <3>4. a = cli'.box /\ v = cli'.validity
      BY <1>11, <3>2
    <3> QED  BY <3>1, <3>3, <3>4
  <2> QED  BY <1>6, <1>11, <2>1, <2>2, <2>3, Risen
<1>15. CASE srv.idle # 0 /\ net = "up" /\ in' = Append(in, line) /\ UNCHANGED srv
  <2>1. srv'.news = <<>>
    BY <1>15 DEF Rises
  <2>2. All(Append(in, line), P)
    BY <1>3, <1>5, <1>10, AllAppended
  <2>3. Moved'
    <3>1. ~InCommand
      BY <1>15 DEF InCommand
    <3> QED  BY <1>11, <1>15, <3>1, WaitsUnmoved, NothingMoving
  <2> QED  BY <1>6, <1>9, <1>11, <1>15, <2>1, <2>2, <2>3, NothingAll, Risen
<1>16. CASE /\ srv.idle = 0 /\ srv'.news = Append(srv.news, line) /\ UNCHANGED in /\ srv'.idle = srv.idle
  <2>1. PICK n \in Seq(ItemSet) : n = srv.news
    BY <1>5
  <2>2. All(Append(n, line), P)
    BY <1>3, <1>10, <2>1, AllAppended
  <2>3. PICK F : F = Fresh'
    OBVIOUS
  <2>4. F = Fresh
    BY <1>16, <2>3 DEF Fresh, Ends
  <2>5. line \in F
    <3>1. line.kind = "FETCH" => \A i \in DOMAIN in : ~Ends(in[i], line)
      BY <1>3, <1>7, AliveIsNot DEF Rises, All
    <3> QED  BY <1>3, <2>4, <3>1 DEF Fresh
  <2>6. All(Append(n, line), F)
    BY <1>3, <2>1, <2>4, <2>5, AllAppended DEF Rises
  <2>7. Moved'
    <3> SUFFICES ASSUME Moving, Accepted(in), cli.box # "none", NEW u \in D
                 PROVE  /\ Dead(cli.box, cli.validity, u)'
                        /\ \A k \in DOMAIN srv'.news : srv'.news[k].kind = "FETCH" /\ srv'.news[k].data.of = Here2 => srv'.news[k].data.uid # u
      BY <1>11, <1>12, <1>16 DEF Moved
    <3>1. /\ Dead(cli.box, cli.validity, u)
          /\ \A k \in DOMAIN srv.news : srv.news[k].kind = "FETCH" /\ srv.news[k].data.of = Here2 => srv.news[k].data.uid # u
      BY <1>12 DEF Rises, Moved
    <3>2. PICK a \in Mailboxes, v \in Nat : a = cli.box /\ v = cli.validity /\ u \in Nat
      BY <1>13
    <3>3. Dead(a, v, u)'
      BY <1>5, <1>6, <3>1, <3>2, KnownAges
    <3>4. a = cli'.box /\ v = cli'.validity
      BY <1>11, <3>2
    <3>5. line.kind = "FETCH" /\ line.data.of = Here2 => line.data.uid # u
      BY <1>3, <1>7, <3>1, AliveIsNot DEF Here2
    <3>6. PICK Q : Q = {x \in ItemSet : x.kind = "FETCH" /\ x.data.of = Here2 => x.data.uid # u}
      OBVIOUS
    <3>7. All(n, Q) /\ line \in Q
      <4>1. \A k \in DOMAIN n : n[k] \in ItemSet
        BY <2>1 DEF Rises, All, Honest
      <4> QED  BY <1>3, <2>1, <3>1, <3>5, <3>6, <4>1 DEF All
    <3>8. All(Append(n, line), Q)
      BY <1>3, <3>7, AllAppended
    <3>9. \A k \in DOMAIN srv'.news : srv'.news[k].kind = "FETCH" /\ srv'.news[k].data.of = Here2 => srv'.news[k].data.uid # u
      BY <1>16, <2>1, <3>6, <3>8 DEF All
    <3> QED  BY <3>3, <3>4, <3>9
  <2> QED  BY <1>6, <1>9, <1>10, <1>11, <1>16, <2>1, <2>2, <2>3, <2>6, <2>7, Risen
<1> QED  BY <1>4, <1>14, <1>15, <1>16 DEF Announced

-----------------------------------------------------------------------------
(* MOVE names messages: the set "1:*" is left out, as the program's parser *)
(* of sets stops at it and takes nothing out of the cache.                 *)
Named == job.todo # <<>> /\ job.todo[1] = "UIDMOVE" => job.uids # {}

LEMMA NamedNext ==
  ASSUME {} \notin UidSets, IInv, Named, [Next]_vars
  PROVE  Named'
<1>1. CASE \E op \in CliOps \ {"clear"}, m \in NoneOr, port \in {143, 993} : Typing(op, m, port)
  <2>1. PICK op \in CliOps \ {"clear"}, m \in NoneOr, port \in {143, 993} :
          job'.todo = Script(op, m, port) /\ (op = "move" => job'.uids \in UidSets)
    BY <1>1 DEF Typing
  <2>2. op \in CliCommands \ {"clear"}
    BY ImapAssumption
  <2>3. Script(op, m, port)[1] = "UIDMOVE" => op = "move"
    BY <2>2, ScriptTodos
  <2>4. PICK s, U : s = job'.todo /\ U = job'.uids
    OBVIOUS
  <2>5. s[1] = "UIDMOVE" => U # {}
    BY <2>1, <2>3, <2>4
  <2> QED  BY <2>4, <2>5 DEF Named
<1>2. CASE job'.todo = job.todo /\ job'.uids = job.uids
  BY <1>2 DEF Named
<1>3. CASE job.op # "none" /\ Rests
  BY <1>3, NextTodo DEF Named, Rests, IInv, Types, ClientTypes
<1> QED  BY <1>1, <1>2, <1>3, TodoNext

LEMMA NextRises ==
  ASSUME IInv, Placed, Named, TalkInv, SlashInv, BelongInv, GoneInv, [Next]_vars
  PROVE  GoneInv'
<1> SUFFICES ASSUME ~lost' PROVE Rises'
  BY DEF GoneInv
<1>1. ~lost
  BY LostStays
<1>2. Talk /\ Waits /\ NoSlash /\ Belong /\ Rises
  BY <1>1 DEF TalkInv, SlashInv, BelongInv, GoneInv
<1>3. CASE (\E op \in CliOps \ {"clear"} : Type(op)) \/ HandlerGivesUp \/ Cut
  BY <1>2, <1>3, SilentRises
<1>4. CASE ClearCache
  BY <1>2, <1>4, ClearCacheRises
<1>5. CASE Establish \/ UpgradeToTLS \/ CloseConnection \/ WriteCommand \/ ReadLine \/ ReadXOAuth2
  BY <1>2, <1>5, EstablishRises, UpgradeRises, CloseConnectionRises, WriteCommandRises, ReadLineRises, ReadXOAuth2Rises
<1>6. CASE IdleWait \/ ReadDone \/ ReadFails
  BY <1>2, <1>6, IdleWaitRises, ReadDoneRises, ReadFailsRises
<1>7. CASE ReadAnswer
  <2>1. job.op # "none" /\ job \in JobSet
    BY <1>7 DEF ReadAnswer, At, Busy, IInv, Types, ClientTypes
  <2>2. Now = job.todo[1] /\ job.todo # <<>>
    BY <2>1, NowIs, JobParts
  <2>3. Now = "UIDMOVE" => job.uids # {}
    BY <2>2 DEF Named
  <2> QED  BY <1>2, <1>7, <2>3, ReadAnswerRises
<1>8. CASE Serve \/ Others
  BY <1>2, <1>8, ServeRises, OthersRises
<1>9. CASE UNCHANGED vars
  <2>1. UNCHANGED <<in, job, cli, cache, srv, box, gone>>
    BY <1>9 DEF vars, link, state, server, history
  <2>2. Honest' = Honest /\ Fresh' = Fresh /\ Laid' = Laid /\ Stock' = Stock /\ Moved' = Moved
    BY <2>1 DEF Honest, Fresh, Ends, Laid, Stock, Moved, Moving, Now, Here2, Dead, Known, Buried
  <2> QED  BY <1>2, <2>1, <2>2 DEF Rises
<1> QED  BY <1>3, <1>4, <1>5, <1>6, <1>7, <1>8, <1>9 DEF Next, JobStep

LEMMA UsedSound == Sound(Used) /\ Used.next = 4 /\ Used.validity = 1 /\ DOMAIN Used.msgs = {1, 3}
<1> DEFINE f == [u \in {1, 3} |-> [mod |-> u + 1, seen |-> FALSE]]
           g == [u \in {2} |-> 5]
<1>1. DOMAIN f = {1, 3} /\ DOMAIN g = {2}
  OBVIOUS
<1>2. Used = [validity |-> 1, next |-> 4, modseq |-> 5, msgs |-> f, gone |-> g]
  <2>1. Used = [NewBox(1) EXCEPT !.next = 4, !.modseq = 5, !.gone = g, !.msgs = f]
    BY Zenon DEF Used, f, g
  <2> HIDE DEF f, g
  <2> QED  BY <2>1 DEF NewBox
<1> HIDE DEF f, g
<1>3. Used.next = 4 /\ Used.validity = 1 /\ Used.msgs = f /\ Used.gone = g
  BY <1>2
<1> QED  BY <1>1, <1>3 DEF Sound

LEMMA InitRises == Init => GoneInv /\ SlashInv /\ Named
<1> SUFFICES ASSUME Init PROVE Rises /\ NoSlash /\ Named
  BY DEF GoneInv, SlashInv
<1>1. in = <<>> /\ srv.news = <<>> /\ job = NoJob /\ gone = {}
  BY DEF Init, NoSession
<1>2. \A m \in Mailboxes : box[m] = Used /\ Own(cache[m], m) /\ cache[m].validity \in {0, 1} /\ DOMAIN cache[m].msgs \subseteq {1, 3}
  BY InitState
<1>3. job.at = "step" /\ job.todo = <<>>
  BY <1>1 DEF NoJob
<1>4. \A m, v, u : ~Buried(m, v, u)
  BY <1>1 DEF Buried
<1>5. Stock
  <2> SUFFICES ASSUME NEW m \in Mailboxes, NEW u \in DOMAIN cache[m].msgs PROVE Known(m, cache[m].validity, u)
    BY <1>4 DEF Stock
  <2>1. cache[m].validity = 1
    BY <1>2 DEF Own
  <2>2. box[m].validity = 1 /\ box[m].next = 4
    BY <1>2, UsedSound
  <2>3. u \in {1, 3}
    BY <1>2
  <2> QED  BY <2>1, <2>2, <2>3 DEF Known
<1>6. Laid /\ Moved /\ (\A m \in Mailboxes : Sound(box[m]))
  BY <1>2, <1>3, <1>4, UsedSound DEF Laid, Moved, Moving
<1>7. gone \subseteq Graves
  BY <1>1
<1>8. Rises
  BY <1>1, <1>5, <1>6, <1>7, NothingAll DEF Rises
<1>9. NoSlash /\ Named
  BY <1>1, <1>3, NothingSlashed DEF NoSlash, Named
<1> QED  BY <1>8, <1>9

(* A message the server reported as vanished when the mailbox was          *)
(* selected, or that was moved away, is not in the cache again, unless an  *)
(* answer was left over. UIDs are not given twice and the server says      *)
(* nothing about a message after it has said that it is gone, so what is   *)
(* cached later is another message; and a MOVE that was accepted has       *)
(* removed what it named before the program forgets it. Left out are what  *)
(* the theorems above leave out, and MOVE of "1:*".                        *)
THEOREM VanishedTheorem ==
  ASSUME "examine" \notin CliOps, "partial" \notin Faults, TRUE \notin FlagSets, {} \notin UidSets
  PROVE  Spec => []VanishedStaysAway
<1>1. Plainly
  BY DEF Plainly
<1>2. IInv /\ GoneInv => VanishedStaysAway
  <2> SUFFICES ASSUME IInv, Rises, NEW g \in gone, g[1] \in {"select", "move"}, cache[g[2]].validity = g[3], g[4] \in DOMAIN cache[g[2]].msgs
               PROVE  FALSE
    BY Zenon DEF GoneInv, VanishedStaysAway
  <2>1. PICK k \in {"select", "move", "notice"}, m \in Mailboxes, v \in Nat, u \in Uids : g = <<k, m, v, u>>
    BY DEF Rises, Graves
  <2>2. g[1] = k /\ g[2] = m /\ g[3] = v /\ g[4] = u
    BY <2>1
  <2>3. Buried(m, v, u)
    BY <2>1, <2>2 DEF Buried
  <2>4. u \in DOMAIN cache[m].msgs /\ v = cache[m].validity
    BY <2>2
  <2> QED  BY <2>3, <2>4 DEF Rises, Stock
<1>3. IInv /\ Placed /\ TalkInv /\ SlashInv /\ BelongInv /\ NeverExamines /\ Named /\ GoneInv /\ [Next]_vars
      => SlashInv' /\ BelongInv' /\ NeverExamines' /\ Named' /\ GoneInv'
  BY <1>1, NextSlash, NextBelongs, ExamineNext, NamedNext, NextRises
<1> QED  BY <1>2, <1>3, InitBelongs, InitRises, TypesInv, TalkInvariant, PTL DEF Spec
=============================================================================
