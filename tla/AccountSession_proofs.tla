----------------------- MODULE AccountSession_proofs -----------------------
(***************************************************************************)
(* Proofs about AccountSession, for any accounts, bounds and faults: types,*)
(* and for users who let one thing end before they begin the next, that    *)
(* the stored tokens stay apart, that every registered account can be      *)
(* resumed and that the main page has no connection of another account.    *)
(***************************************************************************)
EXTENDS AccountSession, SequenceTheorems, FiniteSetTheorems, TLAPS

(* Types.                                                                  *)
Methods    == {"OAuth", "Password"}
Kinds      == {"signin", "send"}
Clients    == {"imap", "smtp"}
Stages     == {"smtpClose", "imapClose", "imapConnect", "imapAuth", "smtpConnect", "smtpAuth", "smtpMail",
                "imapTls", "smtpTls"}
Links      == Account \cup {"closed", "open", "silent"}
WindowSet  == [user : Who, method : {"None"} \cup Methods, page : {"start", "login", "main"}, enabled : BOOLEAN]
OAuthSet   == [access : Who, refresh : Who, email : Who, scope : Who]
BlobSet    == {b \in BlobOf : b.access # None}
Keys       == Account \cup {Legacy}
EntrySet   == [email : Account, method : Methods]
TokenMaps  == UNION {[K -> BlobSet] : K \in SUBSET Keys}
OneEntryEach(r) == \A i, j \in DOMAIN r : r[i].email = r[j].email => i = j
Registry   == {r \in Seq(EntrySet) : OneEntryEach(r)}
DiskSet    == [tokens : TokenMaps, passwords : SUBSET Account, registry : Registry, active : Who]
RequestSet == [kind : {"exchange", "refresh"}, of : Account, then : Kinds]
JobSet     == {j \in [kind : Kinds, user : Who, token : Who, method : Methods, todo : Seq(Stages) \ {<<>>}] :
                 j.method = "Password" => j.user \in Account}
ResultSet  == {e \in [do : Kinds, user : Who, method : Methods, ok : BOOLEAN] :
                 e.method = "Password" => e.user \in Account}
PostedSet  == ResultSet \cup {Resume}
TearSet    == [do : {"add"}] \cup [do : {"signOut"}, method : {"None"} \cup Methods]
              \cup [do : {"switch"}, to : EntrySet]
SecretSet  == [do : {"switch", "signOut", "start"}, method : Methods, secret : BlobSet \cup Who]
FrameSet   ==
  [at : {"exchanged", "migrated"}, account : {None}, then : {"signin"}]
  \cup [at : {"refreshed"}, account : {None}, then : Kinds]
  \cup [at : {"persisted"}, account : Account, then : {"signin"}]
  \cup [at : {"tornDown"}, account : Who, then : TearSet]
  \cup {f \in [at : {"secret"}, account : Account, then : SecretSet] :
          f.then.secret \in (IF f.then.method = "OAuth" THEN BlobSet \cup {None} ELSE Who)}
  \cup [at : {"purged"}, account : Account, then : Who]

FlightTypes == /\ requests \in Seq(RequestSet) /\ jobs \in Seq(JobSet)
               /\ posted \in Seq(PostedSet) /\ stack \in Seq(FrameSet)
Types ==
  /\ window \in WindowSet /\ oauth \in OAuthSet /\ disk \in DiskSet /\ FlightTypes
  /\ conn \in [Clients -> Links]
  /\ listening \in BOOLEAN /\ damaged \in BOOLEAN /\ clicks \in 0..MaxClicks /\ overlaps \in 0..MaxOverlaps

-----------------------------------------------------------------------------
(* One thing at a time. The tokens in memory and the tokens of a blob are  *)
(* one account's; what is under way, if anything is, is one thing, and is  *)
(* for the user the window names.                                          *)
Cleared(o)    == o.access = None /\ o.refresh = None /\ o.email = None
TokensAre(a)  == oauth = Tokens(a)
Signing       == oauth.access # None /\ window.user = oauth.email
OneIdentity   == Cleared(oauth) \/ \E a \in Account : TokensAre(a)
OwnSecrets    == \A k \in DOMAIN disk.tokens : \E a \in Account :
                   disk.tokens[k] = Secret(a) /\ (k \in Account => k = a)

(* Unless a refresh may fail, the connections are those of the user.       *)
OwnConn == "refresh" \in Faults \/ \A c \in Clients : conn[c] \notin Account \ {window.user}

Asked(r) == requests = <<r>> /\ jobs = <<>> /\ posted = <<>> /\ stack = <<>> /\ ~listening
Runs(j)  == requests = <<>> /\ jobs = <<j>> /\ posted = <<>> /\ stack = <<>> /\ ~listening
Told(e)  == requests = <<>> /\ jobs = <<>> /\ posted = <<e>> /\ stack = <<>> /\ ~listening
Held(f)  == requests = <<>> /\ jobs = <<>> /\ posted = <<>> /\ stack = <<f>> /\ ~listening

Resting ==
  /\ ~Working
  /\ listening => window.page = "login"
  /\ window.page = "main" => OwnConn

RequestInv(r) ==
  /\ window.page # "start"
  /\ r.kind = "exchange" => window.page = "login" /\ r.then = "signin"
  /\ r.kind = "refresh" => TokensAre(r.of)
  /\ r.kind = "refresh" /\ r.then = "signin" => Signing
  /\ r.then = "send" => OwnConn

(* A sign-in closes both connections before it opens one.                  *)
JobInv(j) ==
  /\ window.page # "start" /\ j.user = window.user
  /\ j.kind = "signin" /\ j.method = "OAuth" => Signing
  /\ \/ OwnConn
     \/ j.kind = "signin" /\ j.todo = Script.signin
     \/ j.kind = "signin" /\ j.todo = Tail(Script.signin) /\ conn.smtp = "closed"

ResultInv(e) ==
  /\ window.page # "start"
  /\ e = Resume => oauth.access # None
  /\ e # Resume => OwnConn
  /\ e # Resume /\ e.do = "signin" /\ e.ok =>
       IF e.method = "OAuth" THEN Signing ELSE e.user = window.user

FrameInv(f) ==
  /\ f.at \in {"exchanged", "refreshed", "migrated"} => oauth.access # None
  /\ f.at \in {"exchanged", "refreshed"} => window.page # "start"
  /\ f.at = "refreshed" => IF f.then = "signin" THEN Signing ELSE OwnConn
  /\ f.at = "persisted" => /\ f.account = window.user /\ OwnConn
                           /\ damaged \/ f.account \in disk.passwords
  /\ f.at = "secret" => f.account = window.user
  /\ f.at = "secret" /\ f.then.method = "OAuth" =>
       /\ Cleared(oauth) /\ oauth.scope = f.account
       /\ f.then.secret # None => f.then.secret = Secret(f.account) /\ f.account \in DOMAIN disk.tokens

Flight ==
  \/ Resting
  \/ \E r \in RequestSet : Asked(r) /\ RequestInv(r)
  \/ \E j \in JobSet : Runs(j) /\ JobInv(j)
  \/ \E e \in PostedSet : Told(e) /\ ResultInv(e)
  \/ \E f \in FrameSet : Held(f) /\ FrameInv(f)

(* What is registered has its secret, but for the account being signed out.*)
HasSecret(e) == e.email \in (IF e.method = "OAuth" THEN DOMAIN disk.tokens ELSE disk.passwords)
Leaving(a)   == At("purged") /\ Top.account = a
Kept ==
  ~damaged =>
    /\ oauth.access # None => oauth.access \in DOMAIN disk.tokens
    /\ \A i \in DOMAIN disk.registry : HasSecret(disk.registry[i]) \/ Leaving(disk.registry[i].email)

Solo == OneIdentity /\ OwnSecrets /\ Flight /\ Kept
IInv == Types /\ (overlaps = 0 => Solo)

-----------------------------------------------------------------------------
(* Operators.                                                              *)

(* Sequences the handlers and coroutines take one element out of.          *)
LEMMA RemoveAtProperties ==
  ASSUME NEW S, NEW s \in Seq(S), NEW i \in DOMAIN s
  PROVE  /\ RemoveAt(s, i) \in Seq(S) /\ Len(RemoveAt(s, i)) = Len(s) - 1
         /\ \A j \in 1..Len(s) - 1 : RemoveAt(s, i)[j] = IF j < i THEN s[j] ELSE s[j + 1]
<1> DEFINE front == SubSeq(s, 1, i - 1)
           back  == SubSeq(s, i + 1, Len(s))
<1>1. Len(s) \in Nat /\ i \in 1..Len(s) /\ DOMAIN s = 1..Len(s) /\ \A k \in 1..Len(s) : s[k] \in S
  OBVIOUS
<1>2. front \in Seq(S) /\ Len(front) = i - 1 /\ \A j \in 1..i - 1 : front[j] = s[j]
  BY <1>1
<1>3. back \in Seq(S) /\ Len(back) = Len(s) - i /\ \A j \in 1..Len(s) - i : back[j] = s[i + j]
  <2>1. i + 1 \in 1..Len(s) + 1 /\ Len(s) \in i..Len(s) /\ Len(s) - (i + 1) + 1 = Len(s) - i
    BY <1>1
  <2>2. back \in Seq(S) /\ Len(back) = Len(s) - i
    BY <1>1, <2>1
  <2>3. \A j \in 1..Len(s) - i : back[j] = s[(i + 1) + j - 1] /\ (i + 1) + j - 1 = i + j
    BY <1>1, <2>1
  <2> QED  BY <2>2, <2>3
<1> HIDE DEF front, back
<1>4. front \o back \in Seq(S) /\ Len(front \o back) = Len(front) + Len(back)
  BY <1>2, <1>3, ConcatProperties
<1>5. \A j \in 1..Len(front) + Len(back) :
        (front \o back)[j] = IF j <= Len(front) THEN front[j] ELSE back[j - Len(front)]
  BY <1>2, <1>3, ConcatProperties
<1>6. Len(front) + Len(back) = Len(s) - 1
  BY <1>1, <1>2, <1>3
<1>7. ASSUME NEW j \in 1..Len(s) - 1
      PROVE  (front \o back)[j] = IF j < i THEN s[j] ELSE s[j + 1]
  <2>1. (front \o back)[j] = IF j <= Len(front) THEN front[j] ELSE back[j - Len(front)]
    BY <1>5, <1>6
  <2>2. CASE j < i
    BY <1>1, <1>2, <2>1, <2>2
  <2>3. CASE ~(j < i)
    <3>1. /\ j - (i - 1) \in 1..Len(s) - i /\ i + (j - (i - 1)) = j + 1
          /\ ~(j <= i - 1)
      BY <1>1, <2>3
    <3>2. (front \o back)[j] = back[j - (i - 1)]
      BY <1>2, <2>1, <3>1
    <3>3. back[j - (i - 1)] = s[j + 1]
      BY <1>3, <3>1
    <3> QED  BY <2>3, <3>2, <3>3
  <2> QED  BY <2>2, <2>3
<1> QED  BY <1>4, <1>6, <1>7 DEF RemoveAt, front, back

LEMMA RemoveOnly == \A x : RemoveAt(<<x>>, 1) = <<>>
<1> SUFFICES ASSUME NEW x PROVE RemoveAt(<<x>>, 1) = <<>>
  OBVIOUS
<1>1. <<x>> \in Seq({x}) /\ 1 \in DOMAIN <<x>> /\ Len(<<x>>) = 1
  OBVIOUS
<1>2. RemoveAt(<<x>>, 1) \in Seq({x}) /\ Len(RemoveAt(<<x>>, 1)) = 0
  <2>1. Len(<<x>>) - 1 = 0
    BY <1>1
  <2> QED  BY <1>1, <2>1, RemoveAtProperties, Zenon
<1> QED  BY <1>2, EmptySeq

(* AccountRegistry: upsert and remove keep one entry for an address.       *)
LEMMA UpsertProperties ==
  ASSUME NEW r \in Registry, NEW e \in EntrySet
  PROVE  /\ Upsert(r, e) \in Registry
         /\ \A k \in DOMAIN Upsert(r, e) :
              Upsert(r, e)[k] = e \/ \E i \in DOMAIN r : Upsert(r, e)[k] = r[i]
<1>1. r \in Seq(EntrySet) /\ OneEntryEach(r) /\ Len(r) \in Nat /\ DOMAIN r = 1..Len(r)
  BY DEF Registry
<1>2. CASE Find(r, e.email) = {}
  <2>1. Upsert(r, e) = Append(r, e)
    BY <1>2 DEF Upsert
  <2>2. /\ Append(r, e) \in Seq(EntrySet) /\ DOMAIN Append(r, e) = 1..Len(r) + 1
        /\ \A k \in 1..Len(r) : Append(r, e)[k] = r[k]
        /\ Append(r, e)[Len(r) + 1] = e
    BY <1>1
  <2>3. \A k \in 1..Len(r) : r[k].email # e.email
    BY <1>1, <1>2 DEF Find
  <2>4. \A k \in 1..Len(r) + 1 : k \in 1..Len(r) \/ k = Len(r) + 1
    BY <1>1
  <2>5. OneEntryEach(Append(r, e))
    BY <1>1, <2>2, <2>3, <2>4 DEF OneEntryEach
  <2> QED  BY <1>1, <2>1, <2>2, <2>4, <2>5 DEF Registry
<1>3. CASE Find(r, e.email) # {}
  <2> DEFINE u == [i \in DOMAIN r |-> IF r[i].email = e.email THEN e ELSE r[i]]
  <2>1. Upsert(r, e) = u
    BY <1>3 DEF Upsert
  <2>2. DOMAIN u = DOMAIN r /\ u \in Seq(EntrySet)
    BY <1>1
  <2>3. \A k \in DOMAIN r : u[k].email = r[k].email /\ (u[k] = e \/ u[k] = r[k])
    OBVIOUS
  <2> HIDE DEF u
  <2>4. OneEntryEach(u)
    BY <1>1, <2>2, <2>3 DEF OneEntryEach
  <2> QED  BY <2>1, <2>2, <2>3, <2>4 DEF Registry
<1> QED  BY <1>2, <1>3

LEMMA RemovedProperties ==
  ASSUME NEW r \in Registry, NEW a
  PROVE  /\ Removed(r, a) \in Registry
         /\ \A k \in DOMAIN Removed(r, a) :
              Removed(r, a)[k].email # a /\ \E i \in DOMAIN r : Removed(r, a)[k] = r[i]
<1>1. r \in Seq(EntrySet) /\ OneEntryEach(r) /\ Len(r) \in Nat /\ DOMAIN r = 1..Len(r)
  BY DEF Registry
<1>2. CASE Find(r, a) = {}
  BY <1>2 DEF Removed, Find
<1>3. CASE Find(r, a) # {}
  <2>1. PICK p \in Find(r, a) : Removed(r, a) = RemoveAt(r, p)
    BY <1>3 DEF Removed
  <2> DEFINE rest == RemoveAt(r, p)
  <2>2. p \in 1..Len(r) /\ r[p].email = a
    BY <1>1 DEF Find
  <2>3. /\ rest \in Seq(EntrySet) /\ DOMAIN rest = 1..Len(r) - 1
        /\ \A j \in 1..Len(r) - 1 : rest[j] = IF j < p THEN r[j] ELSE r[j + 1]
    BY <1>1, <2>2, RemoveAtProperties
  <2>4. \A j \in 1..Len(r) - 1 : \E i \in 1..Len(r) :
          rest[j] = r[i] /\ i # p /\ i = IF j < p THEN j ELSE j + 1
    BY <1>1, <2>2, <2>3
  <2> HIDE DEF rest
  <2>5. OneEntryEach(rest)
    <3> SUFFICES ASSUME NEW j \in 1..Len(r) - 1, NEW k \in 1..Len(r) - 1, rest[j].email = rest[k].email
                 PROVE  j = k
      BY <2>3 DEF OneEntryEach
    <3>1. PICK x \in 1..Len(r) : rest[j] = r[x] /\ x = IF j < p THEN j ELSE j + 1
      BY <2>4
    <3>2. PICK y \in 1..Len(r) : rest[k] = r[y] /\ y = IF k < p THEN k ELSE k + 1
      BY <2>4
    <3>3. x = y
      BY <1>1, <3>1, <3>2 DEF OneEntryEach
    <3> QED  BY <1>1, <2>2, <3>1, <3>2, <3>3
  <2>6. \A k \in DOMAIN rest : rest[k].email # a /\ \E i \in DOMAIN r : rest[k] = r[i]
    <3> SUFFICES ASSUME NEW k \in 1..Len(r) - 1
                 PROVE  rest[k].email # a /\ \E i \in 1..Len(r) : rest[k] = r[i]
      BY <1>1, <2>3
    <3>1. PICK i \in 1..Len(r) : rest[k] = r[i] /\ i # p
      BY <2>4
    <3> QED  BY <1>1, <2>2, <3>1 DEF OneEntryEach
  <2> QED  BY <2>1, <2>3, <2>5, <2>6 DEF Registry, rest
<1> QED  BY <1>2, <1>3

(* The disk, as the stores write it.                                       *)
LEMMA StoreProperties ==
  ASSUME disk \in DiskSet, NEW key \in Keys, NEW blob \in BlobSet
  PROVE  /\ Store(key, blob) \in DiskSet
         /\ Store(key, blob).tokens = [k \in DOMAIN disk.tokens \cup {key} |-> IF k = key THEN blob ELSE disk.tokens[k]]
         /\ Store(key, blob).registry = disk.registry /\ Store(key, blob).passwords = disk.passwords
<1> DEFINE u == [k \in DOMAIN disk.tokens \cup {key} |-> IF k = key THEN blob ELSE disk.tokens[k]]
<1>1. Store(key, blob) = [disk EXCEPT !.tokens = u]
  BY DEF Store
<1>2. PICK K \in SUBSET Keys : disk.tokens \in [K -> BlobSet]
  BY DEF DiskSet, TokenMaps
<1>3. K \cup {key} \in SUBSET Keys /\ u \in [K \cup {key} -> BlobSet]
  BY <1>2
<1>4. u \in TokenMaps
  BY <1>3 DEF TokenMaps
<1> HIDE DEF u
<1> QED  BY <1>1, <1>4 DEF DiskSet, u

LEMMA ClearProperties ==
  ASSUME disk \in DiskSet, NEW key
  PROVE  /\ Clear(key) \in DiskSet
         /\ Clear(key).tokens = [k \in DOMAIN disk.tokens \ {key} |-> disk.tokens[k]]
         /\ Clear(key).registry = disk.registry /\ Clear(key).passwords = disk.passwords
<1> DEFINE u == [k \in DOMAIN disk.tokens \ {key} |-> disk.tokens[k]]
<1>1. Clear(key) = [disk EXCEPT !.tokens = u]
  BY DEF Clear, Restrict
<1>2. PICK K \in SUBSET Keys : disk.tokens \in [K -> BlobSet]
  BY DEF DiskSet, TokenMaps
<1>3. K \ {key} \in SUBSET Keys /\ u \in [K \ {key} -> BlobSet]
  BY <1>2
<1>4. u \in TokenMaps
  BY <1>3 DEF TokenMaps
<1> HIDE DEF u
<1> QED  BY <1>1, <1>4 DEF DiskSet, u

LEMMA PasswordProperties ==
  ASSUME disk \in DiskSet, NEW a \in Account
  PROVE  /\ SavePassword(disk, a) \in DiskSet /\ RemovePassword(disk, a) \in DiskSet
         /\ SavePassword(disk, a) = [disk EXCEPT !.passwords = disk.passwords \cup {a}]
         /\ RemovePassword(disk, a) = [disk EXCEPT !.passwords = disk.passwords \ {a}]
BY DEF DiskSet, SavePassword, RemovePassword

LEMMA TokensOfType ==
  ASSUME NEW d \in DiskSet, NEW key
  PROVE  TokensOf(d, key) \in BlobSet \cup {None} /\ PasswordOf(d, key) \in Who
<1>1. PICK K \in SUBSET Keys : d.tokens \in [K -> BlobSet]
  BY DEF DiskSet, TokenMaps
<1> QED  BY <1>1 DEF TokensOf, PasswordOf, DiskSet, Who

(* OAuthManager::loadTokens, from a blob of any account.                   *)
LEMMA LoadProperties ==
  ASSUME NEW b \in BlobOf, NEW o \in OAuthSet
  PROVE  /\ Load(b, o) \in OAuthSet /\ Load(b, o).access = b.access
         /\ \A a \in Account : b = Secret(a) /\ o.scope = a => Load(b, o) = Tokens(a)
<1>1. Load(b, o) = [access |-> b.access, refresh |-> b.refresh, email |-> b.email, scope |-> o.scope]
  <2>1. b.access \in Who /\ b.refresh \in Who /\ b.email \in Who
    BY DEF BlobOf
  <2>2. Load(b, o) \in OAuthSet
    BY <2>1 DEF Load, OAuthSet
  <2>3. /\ Load(b, o).access = b.access /\ Load(b, o).refresh = b.refresh
        /\ Load(b, o).email = b.email /\ Load(b, o).scope = o.scope
    BY DEF Load, OAuthSet
  <2>4. \A r \in OAuthSet : r = [access |-> r.access, refresh |-> r.refresh, email |-> r.email, scope |-> r.scope]
    BY DEF OAuthSet
  <2> QED  BY <2>2, <2>3, <2>4
<1> QED  BY <1>1 DEF OAuthSet, BlobOf, Secret, Tokens

LEMMA SecretTypes ==
  ASSUME NEW a \in Account
  PROVE  /\ Secret(a) \in BlobSet /\ Tokens(a) \in OAuthSet /\ Blob(Tokens(a)) = Secret(a)
         /\ StorageKey(Tokens(a)) = a /\ a # None /\ a # Legacy
BY NoneAssumption DEF Secret, Tokens, Blob, StorageKey, BlobSet, BlobOf, OAuthSet, Who

-----------------------------------------------------------------------------
(* Type correctness.                                                       *)

LEMMA WhoFacts ==
  /\ None \in Who /\ Account \subseteq Who /\ \A a \in Account : a # None
  /\ \A a \in Who : a # None => a \in Account
BY NoneAssumption DEF Who

LEMMA OverlapTypes ==
  ASSUME overlaps \in 0..MaxOverlaps, NEW busy \in BOOLEAN, Overlap(busy)
  PROVE  overlaps' \in 0..MaxOverlaps /\ (overlaps' = 0 => overlaps = 0 /\ ~busy)
<1>1. MaxOverlaps \in Nat /\ overlaps \in Nat
  BY BoundsAssumption
<1>2. overlaps' = (IF busy THEN overlaps + 1 ELSE overlaps) /\ overlaps' <= MaxOverlaps
  BY <1>1 DEF Overlap
<1> QED  BY <1>1, <1>2

LEMMA ClickTypes ==
  ASSUME clicks \in 0..MaxClicks, damaged \in BOOLEAN, overlaps \in 0..MaxOverlaps, Click
  PROVE  /\ clicks' \in 0..MaxClicks /\ damaged' \in BOOLEAN /\ overlaps' \in 0..MaxOverlaps
         /\ damaged' = damaged /\ (overlaps' = 0 => overlaps = 0 /\ ~Busy)
<1>1. MaxClicks \in Nat /\ clicks \in Nat
  BY BoundsAssumption
<1>2. clicks < MaxClicks /\ clicks' = clicks + 1 /\ Overlap(Busy) /\ UNCHANGED damaged
  BY DEF Click
<1>3. Busy \in BOOLEAN
  BY DEF Busy, Working
<1> QED  BY <1>1, <1>2, <1>3, OverlapTypes

LEMMA ScriptTypes == \A k \in Kinds : Script[k] \in Seq(Stages) \ {<<>>}
<1>1. Script.signin \in Seq(Stages) \ {<<>>} /\ Script.send \in Seq(Stages) \ {<<>>}
  BY DEF Script, Stages
<1> QED  BY <1>1 DEF Kinds

LEMMA JobType ==
  ASSUME NEW kind \in Kinds, NEW user \in Who, NEW token \in Who, NEW method \in Methods,
         method = "Password" => user \in Account
  PROVE  Job(kind, user, token, method) \in JobSet
BY ScriptTypes DEF Job, JobSet

LEMMA FinishType ==
  ASSUME NEW j \in JobSet, NEW ok \in BOOLEAN
  PROVE  Finish(j, ok) \in PostedSet
BY DEF Finish, JobSet, ResultSet, PostedSet

LEMMA ResumeType == Resume \in PostedSet /\ Resume \notin ResultSet /\ Resume.do = "resume"
<1>1. \A e \in ResultSet : e.do \in Kinds
  BY DEF ResultSet
<1> QED  BY <1>1 DEF PostedSet, Resume, Kinds

LEMMA GiveUpTypes ==
  ASSUME NEW w \in WindowSet, NEW queue \in Seq(PostedSet), NEW kind \in Kinds, GiveUp(w, queue, kind)
  PROVE  window' \in WindowSet /\ posted' \in Seq(PostedSet)
<1>1. (w.enabled \/ kind = "signin") \in BOOLEAN
  OBVIOUS
<1>2. window' \in WindowSet
  BY <1>1 DEF GiveUp, WindowSet
<1>3. w.user \in Who
  BY DEF WindowSet
<1>4. Job(kind, w.user, None, "OAuth") \in JobSet
  BY <1>3, JobType, WhoFacts DEF Methods
<1>5. Finish(Job(kind, w.user, None, "OAuth"), FALSE) \in PostedSet
  BY <1>4, FinishType
<1>6. posted' = queue \/ posted' = Append(queue, Finish(Job(kind, w.user, None, "OAuth"), FALSE))
  BY DEF GiveUp
<1>7. \A x \in PostedSet : Append(queue, x) \in Seq(PostedSet)
  OBVIOUS
<1> QED  BY <1>2, <1>5, <1>6, <1>7, Zenon

LEMMA EnsureTypes ==
  ASSUME Types, NEW w \in WindowSet, NEW queue \in Seq(PostedSet), NEW kind \in Kinds,
         EnsureValidAccessToken(w, queue, kind)
  PROVE  window' \in WindowSet /\ posted' \in Seq(PostedSet) /\ requests' \in Seq(RequestSet) /\ jobs' \in Seq(JobSet)
<1>1. requests \in Seq(RequestSet) /\ jobs \in Seq(JobSet) /\ oauth.access \in Who /\ oauth.refresh \in Who
  BY DEF Types, FlightTypes, OAuthSet
<1>2. CASE oauth.access # None /\ jobs' = Append(jobs, Job(kind, w.user, oauth.access, "OAuth"))
           /\ window' = w /\ posted' = queue /\ UNCHANGED requests
  <2>1. Job(kind, w.user, oauth.access, "OAuth") \in JobSet
    BY <1>1, JobType DEF WindowSet, Methods
  <2> QED  BY <1>1, <1>2, <2>1
<1>3. CASE oauth.refresh # None
           /\ requests' = Append(requests, [kind |-> "refresh", of |-> oauth.refresh, then |-> kind])
           /\ window' = w /\ posted' = queue /\ UNCHANGED jobs
  <2>1. [kind |-> "refresh", of |-> oauth.refresh, then |-> kind] \in RequestSet
    BY <1>1, <1>3, WhoFacts DEF RequestSet
  <2> QED  BY <1>1, <1>3, <2>1
<1>4. CASE GiveUp(w, queue, kind) /\ UNCHANGED <<requests, jobs>>
  BY <1>1, <1>4, GiveUpTypes
<1> QED  BY <1>2, <1>3, <1>4 DEF EnsureValidAccessToken

LEMMA OnAuthenticatedTypes ==
  ASSUME Types, NEW queue \in Seq(PostedSet), OnOAuthAuthenticated(queue)
  PROVE  window' \in WindowSet /\ posted' \in Seq(PostedSet) /\ requests' \in Seq(RequestSet) /\ jobs' \in Seq(JobSet)
<1>1. [window EXCEPT !.user = oauth.email, !.enabled = FALSE] \in WindowSet
  BY DEF Types, WindowSet, OAuthSet
<1> QED  BY <1>1, EnsureTypes DEF OnOAuthAuthenticated, Kinds

LEMMA KeychainTypes ==
  ASSUME disk \in DiskSet, damaged \in BOOLEAN, NEW d \in DiskSet, KeychainWrites(d)
  PROVE  disk' \in DiskSet /\ damaged' \in BOOLEAN
BY DEF KeychainWrites

LEMMA SaveTypes ==
  ASSUME Types, NEW o \in OAuthSet, o.access # None, NEW at, NEW then,
         Frame(at, None, then) \in FrameSet, SaveTokens(o, at, then)
  PROVE  oauth' \in OAuthSet /\ disk' \in DiskSet /\ damaged' \in BOOLEAN /\ stack' \in Seq(FrameSet)
<1>1. Blob(o) \in BlobSet /\ StorageKey(o) \in Keys
  BY WhoFacts DEF Blob, BlobSet, BlobOf, OAuthSet, StorageKey, Keys
<1>2. Store(StorageKey(o), Blob(o)) \in DiskSet
  BY <1>1, StoreProperties DEF Types
<1>3. stack \in Seq(FrameSet)
  BY DEF Types, FlightTypes
<1> QED  BY <1>2, <1>3, KeychainTypes DEF SaveTokens, Types, Wait

(* What a step that has no part in a variable leaves as it is.             *)
LEMMA NoClickTypes ==
  ASSUME Types, NoClick
  PROVE  clicks' \in 0..MaxClicks /\ damaged' \in BOOLEAN /\ overlaps' \in 0..MaxOverlaps
BY DEF NoClick, Types

LEMMA BelowTypes ==
  ASSUME stack \in Seq(FrameSet), stack # <<>>
  PROVE  Below \in Seq(FrameSet) /\ Top \in FrameSet
<1>1. Len(stack) \in Nat \ {0}
  OBVIOUS
<1>2. Top \in FrameSet
  BY <1>1 DEF Top
<1>3. \A i \in 1..Len(stack) - 1 : stack[i] \in FrameSet
  BY <1>1
<1>4. Below \in Seq(FrameSet)
  BY <1>1, <1>3, SubSeqProperties DEF Below
<1> QED  BY <1>2, <1>4

LEMMA UserTypes ==
  ASSUME Types, UserActs
  PROVE  Types'
<1>0. /\ window \in WindowSet /\ oauth \in OAuthSet /\ disk \in DiskSet
      /\ requests \in Seq(RequestSet) /\ jobs \in Seq(JobSet) /\ posted \in Seq(PostedSet) /\ stack \in Seq(FrameSet)
  BY DEF Types, FlightTypes
<1>1. Click => clicks' \in 0..MaxClicks /\ damaged' \in BOOLEAN /\ overlaps' \in 0..MaxOverlaps
  BY ClickTypes DEF Types
<1>2. CASE StartAuthFlow
  BY <1>1, <1>2 DEF StartAuthFlow, Types, FlightTypes
<1>3. CASE OnSendButtonClicked
  <2>1. [window EXCEPT !.enabled = FALSE] \in WindowSet
    BY <1>0 DEF WindowSet
  <2>2. window' \in WindowSet /\ posted' \in Seq(PostedSet) /\ requests' \in Seq(RequestSet) /\ jobs' \in Seq(JobSet)
    BY <1>0, <1>3, <2>1, EnsureTypes DEF OnSendButtonClicked, Kinds
  <2> QED  BY <1>1, <1>3, <2>2 DEF OnSendButtonClicked, Types, FlightTypes
<1>4. ASSUME NEW a \in Account, OnPasswordSignInClicked(a) PROVE Types'
  <2>1. Job("signin", a, a, "Password") \in JobSet
    BY JobType, WhoFacts DEF Kinds, Methods
  <2>2. [window EXCEPT !.user = a, !.enabled = FALSE] \in WindowSet
    BY <1>0, WhoFacts DEF WindowSet
  <2>3. jobs' \in Seq(JobSet)
    BY <1>0, <1>4, <2>1 DEF OnPasswordSignInClicked
  <2> QED  BY <1>1, <1>4, <2>2, <2>3 DEF OnPasswordSignInClicked, Types, FlightTypes
<1>5. ASSUME NEW then \in TearSet, Teardown(then) PROVE Types'
  <2>1. Frame("tornDown", window.user, then) \in FrameSet
    BY <1>0 DEF Frame, FrameSet, WindowSet
  <2>2. stack' \in Seq(FrameSet)
    BY <1>0, <1>5, <2>1 DEF Teardown, Wait
  <2> QED  BY <1>1, <1>5, <2>2 DEF Teardown, Types, FlightTypes
<1>6. CASE OnAddAccountSelected
  <2>1. [do |-> "add"] \in TearSet
    BY DEF TearSet
  <2> QED  BY <1>5, <1>6, <2>1 DEF OnAddAccountSelected
<1>7. CASE OnSignOutButtonClicked
  <2>1. [do |-> "signOut", method |-> window.method] \in TearSet
    BY <1>0 DEF TearSet, WindowSet
  <2> QED  BY <1>5, <1>7, <2>1 DEF OnSignOutButtonClicked
<1>8. ASSUME NEW i \in DOMAIN disk.registry, OnSwitchAccountSelected(i) PROVE Types'
  <2>1. disk.registry[i] \in EntrySet
    BY <1>0 DEF DiskSet, Registry
  <2>2. [do |-> "switch", to |-> disk.registry[i]] \in TearSet
    BY <2>1 DEF TearSet
  <2> QED  BY <1>5, <1>8, <2>2 DEF OnSwitchAccountSelected
<1> QED  BY <1>2, <1>3, <1>4, <1>6, <1>7, <1>8 DEF UserActs

LEMMA BrowserTypes ==
  ASSUME Types, BrowserReturns
  PROVE  Types'
<1>1. CASE \E a \in Account :
             requests' = Append(requests, [kind |-> "exchange", of |-> a, then |-> "signin"])
           /\ Overlap(Working) /\ UNCHANGED <<window, clicks, damaged>>
  <2>1. PICK a \in Account : requests' = Append(requests, [kind |-> "exchange", of |-> a, then |-> "signin"])
    BY <1>1
  <2>2. [kind |-> "exchange", of |-> a, then |-> "signin"] \in RequestSet
    BY DEF RequestSet, Kinds
  <2>3. requests' \in Seq(RequestSet)
    BY <2>1, <2>2 DEF Types, FlightTypes
  <2>4. Working \in BOOLEAN
    BY DEF Working
  <2>5. overlaps' \in 0..MaxOverlaps
    BY <1>1, <2>4, OverlapTypes DEF Types
  <2> QED  BY <1>1, <2>3, <2>5 DEF BrowserReturns, Types, FlightTypes
<1>2. CASE NoClick /\ UNCHANGED <<window, requests>>
  BY <1>2, NoClickTypes DEF BrowserReturns, Types, FlightTypes
<1>3. CASE window' = [window EXCEPT !.enabled = TRUE] /\ NoClick /\ UNCHANGED requests
  <2>1. window' \in WindowSet
    BY <1>3 DEF Types, WindowSet
  <2> QED  BY <1>3, <2>1, NoClickTypes DEF BrowserReturns, Types, FlightTypes
<1> QED  BY <1>1, <1>2, <1>3 DEF BrowserReturns

LEMMA ReplyTypes ==
  ASSUME Types, NEW i \in DOMAIN requests, Exchanged(i) \/ Refreshed(i) \/ RequestFailed(i)
  PROVE  Types'
<1>0. /\ window \in WindowSet /\ oauth \in OAuthSet /\ disk \in DiskSet
      /\ requests \in Seq(RequestSet) /\ jobs \in Seq(JobSet) /\ posted \in Seq(PostedSet) /\ stack \in Seq(FrameSet)
      /\ requests[i].of \in Account /\ requests[i].then \in Kinds /\ requests[i].of # None
  <2>1. requests \in Seq(RequestSet)
    BY DEF Types, FlightTypes
  <2>2. requests[i] \in RequestSet
    BY <2>1
  <2> QED  BY <2>2, WhoFacts DEF Types, FlightTypes, RequestSet
<1>1. Answered(i) => requests' \in Seq(RequestSet)
  BY <1>0, RemoveAtProperties DEF Answered
<1>2. CASE Exchanged(i)
  <2>1. Tokens(requests[i].of) \in OAuthSet /\ Tokens(requests[i].of).access # None
    BY <1>0, SecretTypes DEF Tokens
  <2>2. Frame("exchanged", None, "signin") \in FrameSet
    BY DEF Frame, FrameSet
  <2>3. oauth' \in OAuthSet /\ disk' \in DiskSet /\ damaged' \in BOOLEAN /\ stack' \in Seq(FrameSet)
    BY <1>2, <2>1, <2>2, SaveTypes DEF Exchanged
  <2> QED  BY <1>1, <1>2, <2>3 DEF Exchanged, Types, FlightTypes
<1>3. CASE Refreshed(i)
  <2>1. PICK kept \in {oauth.refresh, requests[i].of} :
          SaveTokens([oauth EXCEPT !.access = requests[i].of, !.refresh = kept], "refreshed", requests[i].then)
    BY <1>3 DEF Refreshed
  <2>2. /\ [oauth EXCEPT !.access = requests[i].of, !.refresh = kept] \in OAuthSet
        /\ [oauth EXCEPT !.access = requests[i].of, !.refresh = kept].access # None
    BY <1>0, WhoFacts DEF OAuthSet
  <2>3. Frame("refreshed", None, requests[i].then) \in FrameSet
    BY <1>0 DEF Frame, FrameSet
  <2>4. oauth' \in OAuthSet /\ disk' \in DiskSet /\ damaged' \in BOOLEAN /\ stack' \in Seq(FrameSet)
    BY <2>1, <2>2, <2>3, SaveTypes
  <2> QED  BY <1>1, <1>3, <2>4 DEF Refreshed, Types, FlightTypes
<1>4. CASE RequestFailed(i)
  <2>1. window' \in WindowSet /\ posted' \in Seq(PostedSet)
    BY <1>0, <1>4, GiveUpTypes DEF RequestFailed
  <2> QED  BY <1>1, <1>4, <2>1, NoClickTypes DEF RequestFailed, Types, FlightTypes
<1> QED  BY <1>2, <1>3, <1>4

LEMMA TokensSavedTypes ==
  ASSUME Types, TokensSaved
  PROVE  Types'
<1>0. /\ window \in WindowSet /\ oauth \in OAuthSet
      /\ requests \in Seq(RequestSet) /\ jobs \in Seq(JobSet) /\ posted \in Seq(PostedSet) /\ stack \in Seq(FrameSet)
  BY DEF Types, FlightTypes
<1>1. stack # <<>>
  BY DEF TokensSaved, At
<1>2. stack' \in Seq(FrameSet)
  BY <1>0, <1>1, BelowTypes DEF TokensSaved
<1>3. CASE OnOAuthAuthenticated(posted)
  <2>1. window' \in WindowSet /\ posted' \in Seq(PostedSet) /\ requests' \in Seq(RequestSet) /\ jobs' \in Seq(JobSet)
    BY <1>0, <1>3, OnAuthenticatedTypes
  <2> QED  BY <1>2, <2>1, NoClickTypes DEF TokensSaved, Types, FlightTypes
<1>4. CASE /\ At("refreshed") /\ window' = window /\ posted' = posted /\ UNCHANGED requests
           /\ jobs' = Append(jobs, Job(Top.then, window.user, oauth.access, "OAuth"))
  <2>1. Top \in FrameSet /\ Top.at = "refreshed"
    BY <1>0, <1>1, <1>4, BelowTypes DEF At
  <2>2. Top.then \in Kinds
    BY <2>1 DEF FrameSet
  <2>3. Job(Top.then, window.user, oauth.access, "OAuth") \in JobSet
    BY <1>0, <2>2, JobType DEF WindowSet, OAuthSet, Methods
  <2>4. jobs' \in Seq(JobSet)
    BY <1>0, <1>4, <2>3
  <2> QED  BY <1>2, <1>4, <2>4, NoClickTypes DEF TokensSaved, Types, FlightTypes
<1> QED  BY <1>3, <1>4 DEF TokensSaved

LEMMA TailOfTodo ==
  ASSUME NEW j \in JobSet, Len(j.todo) > 1
  PROVE  [j EXCEPT !.todo = Tail(@)] \in JobSet
<1>1. j.todo \in Seq(Stages) /\ j.todo # <<>>
  BY DEF JobSet
<1>2. Tail(j.todo) \in Seq(Stages) /\ Len(Tail(j.todo)) = Len(j.todo) - 1
  BY <1>1
<1>3. Tail(j.todo) # <<>>
  <2>0. Len(j.todo) \in Nat /\ Len(j.todo) > 1
    BY <1>1
  <2>a. \A n \in Nat : n > 1 => n - 1 # 0
    OBVIOUS
  <2>1. Len(j.todo) - 1 # 0
    BY <2>0, <2>a, Zenon
  <2>2. Len(<<>>) = 0
    OBVIOUS
  <2> QED  BY <1>2, <2>1, <2>2
<1>4. [j EXCEPT !.todo = Tail(j.todo)] \in JobSet
  BY <1>2, <1>3 DEF JobSet
<1> QED  BY <1>4

(* A coroutine leaves a connection as it found it, closed, open or signed  *)
(* in as its user.                                                         *)
LEMMA AwaitsProperties ==
  ASSUME NEW j \in JobSet, NEW client \in Clients, NEW step \in Stages,
         NEW outcome \in Awaits(j, client, step)
  PROVE  /\ step \in {"imapTls", "smtpTls"} => ~outcome[2]
         /\ outcome[1] \in {conn[client], "closed", "open"} \cup (Account \cap {j.user}) /\ outcome[2] \in BOOLEAN
         /\ step \in {"smtpClose", "imapClose"} => outcome = <<"closed", TRUE>>
         /\ step \notin {"smtpAuth", "imapAuth"} => outcome[1] \in {conn[client], "closed", "open"}
<1>0. \A x, y : <<x, y>>[1] = x /\ <<x, y>>[2] = y
  OBVIOUS
<1>1. CASE step \in {"smtpClose", "imapClose"}
  <2>1. Awaits(j, client, step) = {<<"closed", TRUE>>}
    BY <1>1 DEF Awaits
  <2>2. outcome = <<"closed", TRUE>>
    BY <2>1
  <2> QED  BY <1>0, <1>1, <2>2
<1>2. CASE step \in {"smtpConnect", "imapConnect"}
  <2>1. Awaits(j, client, step) = IF conn[client] # "closed" THEN {<<conn[client], FALSE>>}
         ELSE {<<"open", TRUE>>} \cup
              (IF "server" \in Faults THEN {<<"closed", FALSE>>, <<"open", FALSE>>} ELSE {})
    BY <1>2 DEF Awaits
  <2>2. \/ outcome = <<conn[client], FALSE>> \/ outcome = <<"open", TRUE>>
        \/ outcome = <<"closed", FALSE>> \/ outcome = <<"open", FALSE>>
    BY <2>1
  <2>3. step \notin {"smtpClose", "imapClose"} /\ step \notin {"imapTls", "smtpTls"}
    BY <1>2
  <2>4. outcome[1] \in {conn[client], "closed", "open"} /\ outcome[2] \in BOOLEAN
    <3>1. CASE outcome = <<conn[client], FALSE>>
      BY <3>1
    <3>2. CASE outcome = <<"open", TRUE>>
      BY <3>2
    <3>3. CASE outcome = <<"closed", FALSE>>
      BY <3>3
    <3>4. CASE outcome = <<"open", FALSE>>
      BY <3>4
    <3> QED  BY <2>2, <3>1, <3>2, <3>3, <3>4
  <2> QED  BY <2>3, <2>4
<1>3. CASE step \in {"smtpAuth", "imapAuth"}
  <2>1. Awaits(j, client, step) = IF conn[client] # "open" \/ j.token # j.user \/ j.user = None
         THEN {<<conn[client], FALSE>>}
         ELSE {<<j.user, TRUE>>} \cup
              (IF "server" \in Faults THEN {<<"open", FALSE>>} ELSE {})
    BY <1>3 DEF Awaits
  <2>2. j.user = None \/ j.user \in Account
    BY DEF JobSet, Who
  <2>3. \/ outcome = <<conn[client], FALSE>>
        \/ j.user # None /\ outcome = <<j.user, TRUE>>
        \/ outcome = <<"open", FALSE>>
    BY <2>1
  <2>4. step \notin {"smtpClose", "imapClose"}
    BY <1>3
  <2>5. outcome[1] \in {conn[client], "closed", "open"} \cup (Account \cap {j.user}) /\ outcome[2] \in BOOLEAN
    <3>1. CASE outcome = <<conn[client], FALSE>>
      BY <3>1
    <3>2. CASE j.user # None /\ outcome = <<j.user, TRUE>>
      BY <2>2, <3>2
    <3>3. CASE outcome = <<"open", FALSE>>
      BY <3>3
    <3> QED  BY <2>3, <3>1, <3>2, <3>3
  <2> QED  BY <1>3, <2>4, <2>5
<1>4. CASE step = "smtpMail"
  <2>1. Awaits(j, client, step) = {<<conn[client], conn[client] \in Account>>}
    BY <1>4 DEF Awaits
  <2>2. outcome = <<conn[client], conn[client] \in Account>>
    BY <2>1
  <2>3. (conn[client] \in Account) \in BOOLEAN
    OBVIOUS
  <2> QED  BY <1>4, <2>2, <2>3
<1>5. CASE step \in {"imapTls", "smtpTls"}
  <2>1. Awaits(j, client, step) = IF conn[client] = "silent" THEN {} ELSE {<<conn[client], FALSE>>}
    BY <1>5 DEF Awaits
  <2>2. outcome = <<conn[client], FALSE>>
    BY <2>1
  <2> QED  BY <1>5, <2>2
<1> QED  BY <1>1, <1>2, <1>3, <1>4, <1>5 DEF Stages

(* A coroutine whose connect ends up in a handshake that is not answered.  *)
LEMMA HandshakeTodo ==
  ASSUME NEW j \in JobSet, NEW h \in {"imapTls", "smtpTls"}
  PROVE  [j EXCEPT !.todo = <<h>> \o Tail(@)] \in JobSet
<1>1. j.todo \in Seq(Stages) /\ j.todo # <<>>
  BY DEF JobSet
<1>2. Tail(j.todo) \in Seq(Stages) /\ <<h>> \in Seq(Stages) /\ Len(<<h>>) = 1
  BY <1>1 DEF Stages
<1>3. <<h>> \o Tail(j.todo) \in Seq(Stages) /\ Len(<<h>> \o Tail(j.todo)) = 1 + Len(Tail(j.todo))
  BY <1>2
<1>4. <<h>> \o Tail(j.todo) # <<>>
  BY <1>2, <1>3
<1> QED  BY <1>3, <1>4 DEF JobSet

LEMMA GoesSilentTypes ==
  ASSUME Types, NEW i \in DOMAIN jobs, GoesSilent(i)
  PROVE  Types'
<1>0. jobs \in Seq(JobSet)
  BY DEF Types, FlightTypes
<1>1. jobs[i] \in JobSet
  BY <1>0
<1>2. PICK h \in {"imapTls", "smtpTls"} : jobs' = [jobs EXCEPT ![i].todo = <<h>> \o Tail(@)]
  BY DEF GoesSilent
<1>3. jobs' = [jobs EXCEPT ![i] = [jobs[i] EXCEPT !.todo = <<h>> \o Tail(@)]]
  BY <1>2
<1>4. jobs' \in Seq(JobSet)
  <2>1. [jobs[i] EXCEPT !.todo = <<h>> \o Tail(@)] \in JobSet
    BY <1>1, HandshakeTodo
  <2> QED  BY <1>0, <1>3, <2>1
<1>5. conn' \in [Clients -> Links]
  BY DEF GoesSilent, Types, Links, Clients
<1> QED  BY <1>4, <1>5, NoClickTypes DEF GoesSilent, Types, FlightTypes

LEMMA JobStepTypes ==
  ASSUME Types, NEW i \in DOMAIN jobs, JobStep(i)
  PROVE  Types'
<1>0. jobs \in Seq(JobSet) /\ posted \in Seq(PostedSet)
  BY DEF Types, FlightTypes
<1>1. jobs[i] \in JobSet /\ Head(jobs[i].todo) \in Stages
  <2>1. jobs[i] \in JobSet
    BY <1>0
  <2>2. jobs[i].todo \in Seq(Stages) /\ jobs[i].todo # <<>>
    BY <2>1 DEF JobSet
  <2> QED  BY <2>1, <2>2
<1> DEFINE client == ClientOf(Head(jobs[i].todo))
<1>2. client \in Clients
  BY DEF ClientOf, Clients
<1> HIDE DEF client
<1>3. PICK outcome \in Awaits(jobs[i], client, Head(jobs[i].todo)) :
        /\ conn' = [conn EXCEPT ![client] = outcome[1]]
        /\ \/ outcome[2] /\ Len(jobs[i].todo) > 1 /\ jobs' = [jobs EXCEPT ![i].todo = Tail(@)] /\ UNCHANGED posted
           \/ jobs' = RemoveAt(jobs, i) /\ posted' = Append(posted, Finish(jobs[i], outcome[2]))
  BY DEF JobStep, client
<1>4. /\ outcome[1] \in {conn[client], "closed", "open"} \cup (Account \cap {jobs[i].user}) /\ outcome[2] \in BOOLEAN
  BY <1>1, <1>2, <1>3, AwaitsProperties
<1>5. conn' \in [Clients -> Links]
  BY <1>2, <1>3, <1>4 DEF Types, Links
<1>6. CASE Len(jobs[i].todo) > 1 /\ jobs' = [jobs EXCEPT ![i].todo = Tail(@)] /\ UNCHANGED posted
  <2>1. jobs' = [jobs EXCEPT ![i] = [jobs[i] EXCEPT !.todo = Tail(@)]]
    BY <1>6
  <2>2. [jobs[i] EXCEPT !.todo = Tail(@)] \in JobSet
    BY <1>1, <1>6, TailOfTodo
  <2>3. jobs' \in Seq(JobSet)
    BY <1>0, <2>1, <2>2
  <2> QED  BY <1>5, <1>6, <2>3, NoClickTypes DEF JobStep, Types, FlightTypes
<1>7. CASE jobs' = RemoveAt(jobs, i) /\ posted' = Append(posted, Finish(jobs[i], outcome[2]))
  <2>1. jobs' \in Seq(JobSet)
    BY <1>0, <1>7, RemoveAtProperties
  <2>2. posted' \in Seq(PostedSet)
    BY <1>0, <1>1, <1>4, <1>7, FinishType
  <2> QED  BY <1>5, <2>1, <2>2, NoClickTypes DEF JobStep, Types, FlightTypes
<1> QED  BY <1>3, <1>6, <1>7

LEMMA RegisterTypes ==
  ASSUME disk \in DiskSet, oauth \in OAuthSet, NEW w \in WindowSet, RegisterActiveAccount(w)
  PROVE  disk' \in DiskSet /\ oauth' \in OAuthSet
<1>1. CASE w.user = None \/ w.method = "None"
  BY <1>1 DEF RegisterActiveAccount
<1>2. CASE ~(w.user = None \/ w.method = "None")
  <2>1. w.user \in Account /\ w.method \in Methods
    BY <1>2, WhoFacts DEF WindowSet
  <2>2. Entry(w.user, w.method) \in EntrySet
    BY <2>1 DEF Entry, EntrySet
  <2>3. disk' = [disk EXCEPT !.registry = Upsert(disk.registry, Entry(w.user, w.method)), !.active = w.user]
    BY <1>2 DEF RegisterActiveAccount
  <2>4. Upsert(disk.registry, Entry(w.user, w.method)) \in Registry
    BY <2>2, UpsertProperties DEF DiskSet
  <2>5. disk' \in DiskSet
    BY <2>1, <2>3, <2>4, WhoFacts DEF DiskSet
  <2>6. oauth' = oauth \/ oauth' = [oauth EXCEPT !.scope = w.user]
    BY <1>2 DEF RegisterActiveAccount
  <2> QED  BY <2>1, <2>5, <2>6, WhoFacts DEF OAuthSet
<1> QED  BY <1>1, <1>2

LEMMA SignedInTypes ==
  ASSUME Types, NEW method \in Methods, SignedIn([window EXCEPT !.method = method])
  PROVE  window' \in WindowSet /\ disk' \in DiskSet /\ oauth' \in OAuthSet
<1>1. [window EXCEPT !.method = method] \in WindowSet
  BY DEF Types, WindowSet, Methods
<1>2. window' \in WindowSet
  BY <1>1 DEF SignedIn, WindowSet
<1> QED  BY <1>1, <1>2, RegisterTypes DEF SignedIn, Types

LEMMA DeliverTypes ==
  ASSUME Types, Deliver
  PROVE  Types'
<1>0. /\ window \in WindowSet /\ oauth \in OAuthSet /\ disk \in DiskSet /\ damaged \in BOOLEAN
      /\ requests \in Seq(RequestSet) /\ jobs \in Seq(JobSet) /\ posted \in Seq(PostedSet) /\ stack \in Seq(FrameSet)
  BY DEF Types, FlightTypes
<1>1. posted # <<>> /\ Head(posted) \in PostedSet /\ Tail(posted) \in Seq(PostedSet)
  BY <1>0 DEF Deliver
<1> DEFINE e == Head(posted)
<1>2. CASE e.do = "resume" /\ OnOAuthAuthenticated(Tail(posted)) /\ UNCHANGED <<oauth, disk, stack, damaged>>
  <2>1. window' \in WindowSet /\ posted' \in Seq(PostedSet) /\ requests' \in Seq(RequestSet) /\ jobs' \in Seq(JobSet)
    BY <1>1, <1>2, OnAuthenticatedTypes
  <2> QED  BY <1>2, <2>1 DEF Deliver, Types, FlightTypes
<1>3. CASE window' = [window EXCEPT !.enabled = TRUE] /\ posted' = Tail(posted)
           /\ UNCHANGED <<oauth, disk, requests, jobs, stack, damaged>>
  <2>1. window' \in WindowSet
    BY <1>0, <1>3 DEF WindowSet
  <2> QED  BY <1>1, <1>3, <2>1 DEF Deliver, Types, FlightTypes
<1>4. CASE SignedIn([window EXCEPT !.method = "OAuth"]) /\ posted' = Tail(posted)
           /\ UNCHANGED <<requests, jobs, stack, damaged>>
  <2>1. window' \in WindowSet /\ disk' \in DiskSet /\ oauth' \in OAuthSet
    BY <1>4, SignedInTypes DEF Methods
  <2> QED  BY <1>1, <1>4, <2>1 DEF Deliver, Types, FlightTypes
<1>5. CASE /\ e.do = "signin" /\ e.ok /\ e.method = "Password"
           /\ KeychainWrites(SavePassword(disk, e.user))
           /\ stack' = Wait(Frame("persisted", e.user, "signin"))
           /\ posted' = Tail(posted)
           /\ UNCHANGED <<window, oauth, requests, jobs>>
  <2>1. e \in ResultSet
    BY <1>1, <1>5, ResumeType DEF PostedSet, Resume
  <2>2. e.user \in Account
    BY <1>5, <2>1 DEF ResultSet
  <2>3. disk' \in DiskSet /\ damaged' \in BOOLEAN
    BY <1>0, <1>5, <2>2, PasswordProperties, KeychainTypes
  <2>4. Frame("persisted", e.user, "signin") \in FrameSet
    BY <2>2 DEF Frame, FrameSet
  <2>5. stack' \in Seq(FrameSet)
    BY <1>0, <1>5, <2>4 DEF Wait
  <2> QED  BY <1>1, <1>5, <2>3, <2>5 DEF Deliver, Types, FlightTypes
<1> QED  BY <1>2, <1>3, <1>4, <1>5 DEF Deliver

LEMMA PersistedTypes ==
  ASSUME Types, Persisted
  PROVE  Types'
<1>1. stack' \in Seq(FrameSet)
  BY BelowTypes DEF Types, FlightTypes, Persisted, At
<1>2. window' \in WindowSet /\ disk' \in DiskSet /\ oauth' \in OAuthSet
  BY SignedInTypes DEF Persisted, Methods
<1> QED  BY <1>1, <1>2, NoClickTypes DEF Persisted, Types, FlightTypes

LEMMA SecretFrame ==
  ASSUME NEW e \in EntrySet, NEW d \in DiskSet, NEW o \in OAuthSet, NEW do \in {"switch", "signOut", "start"},
         NEW secret \in KeychainReads(IF e.method = "OAuth" THEN TokensOf(d, StorageKey(o)) ELSE PasswordOf(d, e.email))
  PROVE  /\ Frame("secret", e.email, [do |-> do, method |-> e.method, secret |-> secret]) \in FrameSet
         /\ secret \in {None, IF e.method = "OAuth" THEN TokensOf(d, StorageKey(o)) ELSE PasswordOf(d, e.email)}
<1>1. secret \in {None, IF e.method = "OAuth" THEN TokensOf(d, StorageKey(o)) ELSE PasswordOf(d, e.email)}
  BY DEF KeychainReads
<1>2. /\ secret \in (IF e.method = "OAuth" THEN BlobSet \cup {None} ELSE Who)
      /\ secret \in BlobSet \cup Who
  BY <1>1, TokensOfType, WhoFacts
<1>3. e.email \in Account /\ e.method \in Methods
  BY DEF EntrySet
<1> DEFINE then == [do |-> do, method |-> e.method, secret |-> secret]
<1>4. then \in SecretSet /\ then.method = e.method /\ then.secret = secret
  BY <1>2, <1>3 DEF SecretSet
<1> HIDE DEF then
<1>5. Frame("secret", e.email, then) \in FrameSet
  BY <1>2, <1>3, <1>4 DEF Frame, FrameSet
<1> QED  BY <1>1, <1>5 DEF then

LEMMA ReconnectTypes ==
  ASSUME NEW e \in EntrySet, NEW w \in WindowSet, NEW o \in OAuthSet, NEW d \in DiskSet,
         NEW rest \in Seq(FrameSet), NEW do \in {"switch", "signOut", "start"},
         ReconnectStoredAccount(e, w, o, d, rest, do)
  PROVE  window' \in WindowSet /\ oauth' \in OAuthSet /\ disk' \in DiskSet /\ stack' \in Seq(FrameSet)
<1>1. e.email \in Account /\ e.email \in Who
  BY WhoFacts DEF EntrySet
<1>2. window' \in WindowSet /\ disk' \in DiskSet
  BY <1>1 DEF ReconnectStoredAccount, WindowSet
<1>3. oauth' \in OAuthSet
  BY <1>1, WhoFacts DEF ReconnectStoredAccount, ClearInMemorySession, OAuthSet
<1>4. PICK secret \in KeychainReads(IF e.method = "OAuth" THEN TokensOf(d, StorageKey(oauth')) ELSE PasswordOf(d, e.email)) :
        stack' = Append(rest, Frame("secret", e.email, [do |-> do, method |-> e.method, secret |-> secret]))
  BY DEF ReconnectStoredAccount
<1>5. Frame("secret", e.email, [do |-> do, method |-> e.method, secret |-> secret]) \in FrameSet
  BY <1>3, SecretFrame
<1> QED  BY <1>2, <1>3, <1>4, <1>5

LEMMA LoginPageType == \A w \in WindowSet : LoginPage(w) \in WindowSet
BY DEF LoginPage, WindowSet

LEMMA GoneProperties ==
  ASSUME NEW d \in DiskSet, NEW a
  PROVE  LET gone == [d EXCEPT !.registry = Removed(@, a), !.active = IF @ = a THEN None ELSE @]
         IN  /\ gone \in DiskSet /\ gone.registry = Removed(d.registry, a)
             /\ gone.tokens = d.tokens /\ gone.passwords = d.passwords
             /\ gone.registry # <<>> =>
                  /\ Head(gone.registry) \in EntrySet /\ Len(gone.registry) >= 1
                  /\ Head(gone.registry) = gone.registry[1]
                  /\ [gone EXCEPT !.active = Head(gone.registry).email] \in DiskSet
<1> DEFINE gone == [d EXCEPT !.registry = Removed(@, a), !.active = IF @ = a THEN None ELSE @]
<1>1. Removed(d.registry, a) \in Registry
  BY RemovedProperties DEF DiskSet
<1>2. (IF d.active = a THEN None ELSE d.active) \in Who
  BY WhoFacts DEF DiskSet
<1>3. /\ gone \in DiskSet /\ gone.registry = Removed(d.registry, a)
      /\ gone.tokens = d.tokens /\ gone.passwords = d.passwords
  BY <1>1, <1>2 DEF DiskSet
<1> HIDE DEF gone
<1>4. ASSUME gone.registry # <<>>
      PROVE  /\ Head(gone.registry) \in EntrySet /\ Len(gone.registry) >= 1
             /\ Head(gone.registry) = gone.registry[1]
             /\ [gone EXCEPT !.active = Head(gone.registry).email] \in DiskSet
  <2>1. gone.registry \in Seq(EntrySet)
    BY <1>1, <1>3 DEF Registry
  <2>2. Head(gone.registry) \in EntrySet /\ Head(gone.registry) = gone.registry[1] /\ Len(gone.registry) >= 1
    BY <1>4, <2>1
  <2>3. Head(gone.registry).email \in Who
    BY <2>2, WhoFacts DEF EntrySet
  <2> QED  BY <1>3, <2>2, <2>3 DEF DiskSet
<1> QED  BY <1>3, <1>4 DEF gone

LEMMA UnregisterTypes ==
  ASSUME NEW a, NEW w \in WindowSet, NEW o \in OAuthSet, NEW d \in DiskSet, NEW rest \in Seq(FrameSet),
         Unregister(a, w, o, d, rest)
  PROVE  window' \in WindowSet /\ oauth' \in OAuthSet /\ disk' \in DiskSet /\ stack' \in Seq(FrameSet)
<1> DEFINE gone == [d EXCEPT !.registry = Removed(@, a), !.active = IF @ = a THEN None ELSE @]
<1>1. /\ gone \in DiskSet
      /\ gone.registry # <<>> => /\ Head(gone.registry) \in EntrySet
                                 /\ [gone EXCEPT !.active = Head(gone.registry).email] \in DiskSet
  BY GoneProperties
<1>2. \/ window' = LoginPage(w) /\ oauth' = o /\ disk' = gone /\ stack' = rest
      \/ /\ gone.registry # <<>>
         /\ ReconnectStoredAccount(Head(gone.registry), w, o,
              [gone EXCEPT !.active = Head(gone.registry).email], rest, "signOut")
  BY DEF Unregister
<1> HIDE DEF gone
<1> QED  BY <1>1, <1>2, ReconnectTypes, LoginPageType

LEMMA TornDownTypes ==
  ASSUME Types, TornDown
  PROVE  Types'
<1>0. /\ window \in WindowSet /\ oauth \in OAuthSet /\ disk \in DiskSet /\ damaged \in BOOLEAN
      /\ stack \in Seq(FrameSet) /\ stack # <<>> /\ Top.at = "tornDown"
  BY DEF Types, FlightTypes, TornDown, At
<1>1. Below \in Seq(FrameSet) /\ Top \in FrameSet
  BY <1>0, BelowTypes
<1>2. Top.account \in Who /\ Top.then \in TearSet
  BY <1>0, <1>1 DEF FrameSet
<1> DEFINE w == ResetIdentity(window)
           o == ClearInMemorySession(oauth)
           a == Top.account
<1>3. w \in WindowSet /\ o \in OAuthSet /\ o.refresh \in Who
  BY <1>0, WhoFacts DEF ResetIdentity, WindowSet, ClearInMemorySession, OAuthSet
<1> HIDE DEF w, o
<1> SUFFICES window' \in WindowSet /\ oauth' \in OAuthSet /\ disk' \in DiskSet /\ damaged' \in BOOLEAN
             /\ stack' \in Seq(FrameSet)
  BY DEF TornDown, Types, FlightTypes
<1>4. CASE window' = LoginPage(w) /\ oauth' = o /\ stack' = Below /\ UNCHANGED <<disk, damaged>>
  BY <1>0, <1>1, <1>3, <1>4, LoginPageType
<1>5. CASE Top.then.do = "switch"
           /\ ReconnectStoredAccount(Top.then.to, w, o,
                 [disk EXCEPT !.active = Top.then.to.email], Below, "switch")
           /\ UNCHANGED damaged
  <2>1. Top.then.to \in EntrySet
    BY <1>2, <1>5 DEF TearSet
  <2>2. [disk EXCEPT !.active = Top.then.to.email] \in DiskSet
    BY <1>0, <2>1, WhoFacts DEF DiskSet, EntrySet
  <2> QED  BY <1>0, <1>1, <1>3, <1>5, <2>1, <2>2, ReconnectTypes
<1>6. CASE Unregister(a, w, o, disk, Below) /\ UNCHANGED damaged
  BY <1>0, <1>1, <1>3, <1>6, UnregisterTypes
<1>7. CASE /\ Top.then.do = "signOut" /\ a # None /\ Top.then.method # "None"
           /\ window' = w
           /\ oauth' = (IF Top.then.method = "OAuth" THEN [o EXCEPT !.scope = a] ELSE o)
           /\ KeychainWrites(IF Top.then.method = "OAuth" THEN Clear(a) ELSE RemovePassword(disk, a))
           /\ stack' = Append(Below, Frame("purged", a, o.refresh))
  <2>1. a \in Account
    BY <1>2, <1>7, WhoFacts
  <2>2. (IF Top.then.method = "OAuth" THEN Clear(a) ELSE RemovePassword(disk, a)) \in DiskSet
    BY <1>0, <2>1, ClearProperties, PasswordProperties
  <2>3. Frame("purged", a, o.refresh) \in FrameSet
    BY <1>3, <2>1 DEF Frame, FrameSet
  <2>4. oauth' \in OAuthSet
    BY <1>3, <1>7, <2>1, WhoFacts DEF OAuthSet
  <2>5. disk' \in DiskSet /\ damaged' \in BOOLEAN
    BY <1>0, <1>7, <2>2, KeychainTypes
  <2> QED  BY <1>1, <1>3, <1>7, <2>3, <2>4, <2>5
<1> QED  BY <1>4, <1>5, <1>6, <1>7 DEF TornDown, w, o

LEMMA PurgedTypes ==
  ASSUME Types, Purged
  PROVE  Types'
<1>1. Below \in Seq(FrameSet)
  BY BelowTypes DEF Types, FlightTypes, Purged, At
<1>2. window' \in WindowSet /\ oauth' \in OAuthSet /\ disk' \in DiskSet /\ stack' \in Seq(FrameSet)
  BY <1>1, UnregisterTypes DEF Types, Purged
<1> QED  BY <1>2, NoClickTypes DEF Purged, Types, FlightTypes

LEMMA SecretReadTypes ==
  ASSUME Types, SecretRead
  PROVE  Types'
<1>0. /\ window \in WindowSet /\ oauth \in OAuthSet /\ disk \in DiskSet /\ jobs \in Seq(JobSet)
      /\ posted \in Seq(PostedSet) /\ stack \in Seq(FrameSet) /\ stack # <<>> /\ Top.at = "secret"
  BY DEF Types, FlightTypes, SecretRead, At
<1>1. Below \in Seq(FrameSet) /\ Top \in FrameSet
  BY <1>0, BelowTypes
<1>2. /\ Top.account \in Account /\ Top.then \in SecretSet
      /\ Top.then.secret \in (IF Top.then.method = "OAuth" THEN BlobSet \cup {None} ELSE Who)
  BY <1>0, <1>1 DEF FrameSet
<1>3. stack' \in Seq(FrameSet)
  BY <1>1 DEF SecretRead
<1> DEFINE started == window.page = "start"
           shown == IF started THEN LoginPage(window) ELSE window
<1>4. shown \in WindowSet /\ LoginPage(window) \in WindowSet /\ [shown EXCEPT !.enabled = started] \in WindowSet
  <2>1. shown \in WindowSet /\ LoginPage(window) \in WindowSet
    BY <1>0, LoginPageType
  <2>2. started \in BOOLEAN
    OBVIOUS
  <2> HIDE DEF shown, started
  <2> QED  BY <2>1, <2>2 DEF WindowSet
<1> HIDE DEF shown
<1> SUFFICES window' \in WindowSet /\ oauth' \in OAuthSet /\ disk' \in DiskSet
             /\ jobs' \in Seq(JobSet) /\ posted' \in Seq(PostedSet)
  BY <1>3, NoClickTypes DEF SecretRead, Types, FlightTypes
<1>5. CASE /\ window' = LoginPage(window)
           /\ disk' = (IF started THEN disk ELSE [disk EXCEPT !.active = None])
           /\ oauth' = (IF Top.then.secret = None THEN oauth ELSE Load(Top.then.secret, oauth))
           /\ Top.then.secret = None \/ MayBeExpired(Top.then)
           /\ UNCHANGED <<jobs, posted>>
  <2>1. [disk EXCEPT !.active = None] \in DiskSet
    BY <1>0, WhoFacts DEF DiskSet
  <2>2. oauth' \in OAuthSet
    <3>1. CASE Top.then.secret = None
      BY <1>0, <1>5, <3>1
    <3>2. CASE Top.then.secret # None
      <4>1. Top.then.secret \in BlobOf
        BY <1>2, <1>5, <3>2 DEF MayBeExpired, BlobSet
      <4> QED  BY <1>0, <1>5, <3>2, <4>1, LoadProperties
    <3> QED  BY <3>1, <3>2
  <2> QED  BY <1>0, <1>4, <1>5, <2>1, <2>2
<1>6. CASE /\ Top.then.secret # None /\ Top.then.method = "OAuth"
           /\ window' = shown
           /\ oauth' = Load(Top.then.secret, oauth)
           /\ posted' = Append(posted, Resume)
           /\ UNCHANGED <<disk, jobs>>
  <2>1. Top.then.secret \in BlobOf
    BY <1>2, <1>6 DEF BlobSet
  <2>2. oauth' \in OAuthSet
    BY <1>0, <1>6, <2>1, LoadProperties
  <2>3. posted' \in Seq(PostedSet)
    BY <1>0, <1>6, ResumeType
  <2> QED  BY <1>0, <1>4, <1>6, <2>2, <2>3
<1>7. CASE /\ Top.then.secret # None /\ Top.then.method = "Password"
           /\ window' = [shown EXCEPT !.enabled = started]
           /\ jobs' = (IF started THEN jobs
                       ELSE Append(jobs, Job("signin", Top.account, Top.then.secret, "Password")))
           /\ UNCHANGED <<oauth, disk, posted>>
  <2>1. Top.then.secret \in Who
    BY <1>2, <1>7
  <2>2. Job("signin", Top.account, Top.then.secret, "Password") \in JobSet
    BY <1>2, <2>1, JobType, WhoFacts DEF Kinds, Methods
  <2>3. jobs' \in Seq(JobSet)
    BY <1>0, <1>7, <2>2
  <2> QED  BY <1>0, <1>4, <1>7, <2>3
<1> QED  BY <1>5, <1>6, <1>7 DEF SecretRead, shown

LEMMA ResumeTargetType ==
  ASSUME disk \in DiskSet, disk.registry # <<>>
  PROVE  ResumeTarget \in EntrySet
<1>1. disk.registry \in Seq(EntrySet)
  BY DEF DiskSet, Registry
<1>2. Head(disk.registry) \in EntrySet
  BY <1>1
<1>3. CASE Find(disk.registry, disk.active) # {}
  <2>1. (CHOOSE i \in Find(disk.registry, disk.active) : TRUE) \in DOMAIN disk.registry
    BY <1>3 DEF Find
  <2>2. \A i \in DOMAIN disk.registry : disk.registry[i] \in EntrySet
    BY <1>1
  <2> QED  BY <1>3, <2>1, <2>2 DEF ResumeTarget
<1> QED  BY <1>2, <1>3 DEF ResumeTarget

LEMMA StartTypes ==
  ASSUME Types, Start
  PROVE  Types'
<1>0. /\ window \in WindowSet /\ oauth \in OAuthSet /\ disk \in DiskSet /\ damaged \in BOOLEAN
      /\ stack \in Seq(FrameSet)
  BY DEF Types, FlightTypes
<1> SUFFICES window' \in WindowSet /\ oauth' \in OAuthSet /\ disk' \in DiskSet /\ damaged' \in BOOLEAN
             /\ stack' \in Seq(FrameSet)
  BY DEF Start, Types, FlightTypes
<1>1. CASE /\ disk.registry # <<>>
           /\ ReconnectStoredAccount(ResumeTarget, window, oauth, disk, stack, "start") /\ UNCHANGED damaged
  BY <1>0, <1>1, ResumeTargetType, ReconnectTypes
<1>2. CASE window' = LoginPage(window) /\ UNCHANGED <<oauth, disk, stack, damaged>>
  BY <1>0, <1>2, LoginPageType
<1> DEFINE blob == disk.tokens[Legacy]
<1>3. ASSUME Legacy \in DOMAIN disk.tokens
      PROVE  blob \in BlobSet /\ blob \in BlobOf /\ blob.access # None /\ blob.email \in Who
  BY <1>0, <1>3 DEF DiskSet, TokenMaps, BlobSet, BlobOf
<1> HIDE DEF blob
<1>4. CASE /\ Legacy \in DOMAIN disk.tokens
           /\ window' = LoginPage(window) /\ oauth' = Load(blob, oauth) /\ UNCHANGED <<disk, stack, damaged>>
  BY <1>0, <1>3, <1>4, LoadProperties, LoginPageType
<1>5. CASE /\ Legacy \in DOMAIN disk.tokens
           /\ window' = [window EXCEPT !.user = blob.email]
           /\ SaveTokens(Load(blob, [oauth EXCEPT !.scope = blob.email]), "migrated", "signin")
  <2>1. [oauth EXCEPT !.scope = blob.email] \in OAuthSet
    BY <1>0, <1>3, <1>5 DEF OAuthSet
  <2>2. /\ Load(blob, [oauth EXCEPT !.scope = blob.email]) \in OAuthSet
        /\ Load(blob, [oauth EXCEPT !.scope = blob.email]).access # None
    BY <1>3, <1>5, <2>1, LoadProperties
  <2>3. Frame("migrated", None, "signin") \in FrameSet
    BY DEF Frame, FrameSet
  <2>4. window' \in WindowSet
    BY <1>0, <1>3, <1>5 DEF WindowSet
  <2> QED  BY <1>5, <2>2, <2>3, <2>4, SaveTypes
<1> QED  BY <1>1, <1>2, <1>4, <1>5 DEF Start, blob

LEMMA MigratedTypes ==
  ASSUME Types, Migrated
  PROVE  Types'
<1>1. stack' \in Seq(FrameSet)
  BY BelowTypes DEF Types, FlightTypes, Migrated, At
<1>2. posted' \in Seq(PostedSet) /\ window' \in WindowSet
  BY ResumeType, LoginPageType DEF Migrated, Types, FlightTypes
<1> QED  BY <1>1, <1>2, NoClickTypes DEF Migrated, Types, FlightTypes

LEMMA NewTypes ==
  /\ NewWindow \in WindowSet /\ NewOAuth \in OAuthSet /\ NewConn \in [Clients -> Links]
  /\ <<>> \in Seq(RequestSet) /\ <<>> \in Seq(JobSet) /\ <<>> \in Seq(PostedSet) /\ <<>> \in Seq(FrameSet)
<1>1. NewConn \in [Clients -> Links]
  BY DEF NewConn, Clients, Links
<1> QED  BY <1>1, WhoFacts, EmptySeq DEF NewWindow, NewOAuth, WindowSet, OAuthSet

LEMMA CrashTypes ==
  ASSUME Types, Crash
  PROVE  Types'
<1>1. clicks' \in 0..MaxClicks
  BY BoundsAssumption DEF Types, Crash
<1> QED  BY <1>1, NewTypes DEF Types, FlightTypes, Crash

(* The disks a session may find.                                           *)
LEMMA RegistriesTypes ==
  ASSUME NEW r \in Registries
  PROVE  r \in Registry /\ r \in Seq(EntrySet) /\ r # <<>> /\ Len(r) \in Nat \ {0}
<1>1. Cardinality(Account) \in Nat /\ Cardinality(Account) # 0
  BY AccountAssumption, FS_CardinalityType, FS_EmptySet
<1>2. PICK order \in SetToSeqs(Account), method \in [Account -> {"OAuth", "Password"}] :
        r = [i \in DOMAIN order |-> Entry(order[i], method[order[i]])]
  BY DEF Registries
<1>3. /\ order \in [1..Cardinality(Account) -> Account]
      /\ \A i, j \in 1..Cardinality(Account) : i # j => order[i] # order[j]
  BY <1>2 DEF SetToSeqs
<1>4. /\ DOMAIN r = 1..Cardinality(Account)
      /\ \A i \in 1..Cardinality(Account) : r[i] \in EntrySet /\ r[i].email = order[i]
  BY <1>2, <1>3 DEF Entry, EntrySet, Methods
<1>5. r = [i \in 1..Cardinality(Account) |-> r[i]]
  BY <1>2, <1>3
<1>6. r \in Seq(EntrySet) /\ Len(r) = Cardinality(Account)
  BY <1>1, <1>4, <1>5
<1>7. OneEntryEach(r)
  BY <1>3, <1>4 DEF OneEntryEach
<1>8. r # <<>>
  BY <1>1, <1>6
<1> QED  BY <1>1, <1>6, <1>7, <1>8 DEF Registry

LEMMA InitialDisks ==
  ASSUME Init
  PROVE  disk \in DiskSet
<1>1. CASE disk = NewDisk
  <2>1. <<>> \in Registry
    BY EmptySeq DEF Registry, OneEntryEach
  <2>2. <<>> \in [{} -> BlobSet]
    OBVIOUS
  <2> QED  BY <1>1, <2>1, <2>2, WhoFacts DEF NewDisk, DiskSet, TokenMaps
<1>2. ASSUME NEW a \in Account, disk = LegacyDisk(a) PROVE disk \in DiskSet
  <2>1. <<>> \in Registry
    BY EmptySeq DEF Registry, OneEntryEach
  <2>2. [k \in {Legacy} |-> Secret(a)] \in [{Legacy} -> BlobSet] /\ {Legacy} \in SUBSET Keys
    BY SecretTypes DEF Keys
  <2>3. [k \in {Legacy} |-> Secret(a)] \in TokenMaps
    BY <2>2 DEF TokenMaps
  <2>4. disk = [tokens |-> [k \in {Legacy} |-> Secret(a)], passwords |-> {}, registry |-> <<>>, active |-> None]
    BY <1>2 DEF LegacyDisk, NewDisk
  <2> QED  BY <2>1, <2>3, <2>4, WhoFacts DEF DiskSet
<1>3. ASSUME NEW r \in Registries, disk = UsedDisk(r) PROVE disk \in DiskSet
  <2>1. r \in Registry /\ r \in Seq(EntrySet) /\ r # <<>>
    BY RegistriesTypes
  <2>2. Head(r).email \in Who
    <3>1. Head(r) \in EntrySet
      BY <2>1
    <3> QED  BY <3>1, WhoFacts DEF EntrySet
  <2>3. \A method : With(r, method) \subseteq Account
    <3>1. \A i \in DOMAIN r : r[i] \in EntrySet
      BY <2>1
    <3>2. \A e \in ToSet(r) : e.email \in Account
      BY <3>1 DEF ToSet, EntrySet
    <3> QED  BY <3>2 DEF With
  <2>4. [a \in With(r, "OAuth") |-> Secret(a)] \in [With(r, "OAuth") -> BlobSet]
    BY <2>3, SecretTypes
  <2>5. With(r, "OAuth") \in SUBSET Keys
    BY <2>3 DEF Keys
  <2>6. [a \in With(r, "OAuth") |-> Secret(a)] \in TokenMaps
    BY <2>4, <2>5 DEF TokenMaps
  <2> QED  BY <1>3, <2>1, <2>2, <2>3, <2>6 DEF UsedDisk, DiskSet
<1> QED  BY <1>1, <1>2, <1>3 DEF Init

LEMMA TypesInit ==
  ASSUME Init
  PROVE  Types
<1>1. 0 \in 0..MaxClicks /\ 0 \in 0..MaxOverlaps
  BY BoundsAssumption
<1> QED  BY <1>1, NewTypes, InitialDisks DEF Init, Types, FlightTypes

LEMMA TypesStep == Types /\ [Next]_vars => Types'
<1>1. ASSUME Types, UNCHANGED vars PROVE Types'
  BY <1>1 DEF Types, FlightTypes, vars
<1>2. ASSUME Types, Next PROVE Types'
  <2>1. CASE UserActs
    BY <1>2, <2>1, UserTypes
  <2>2. CASE ProgramActs
    BY <1>2, <2>2, DeliverTypes, TokensSavedTypes, PersistedTypes, TornDownTypes, PurgedTypes, SecretReadTypes,
       StartTypes, MigratedTypes DEF ProgramActs
  <2>3. CASE BrowserReturns
    BY <1>2, <2>3, BrowserTypes
  <2>4. CASE Reply
    BY <1>2, <2>4, ReplyTypes DEF Reply
  <2>5. CASE Crash
    BY <1>2, <2>5, CrashTypes
  <2>6. CASE \E i \in DOMAIN jobs : JobStep(i) \/ GoesSilent(i)
    BY <1>2, <2>6, JobStepTypes, GoesSilentTypes
  <2> QED  BY <1>2, <2>1, <2>2, <2>3, <2>4, <2>5, <2>6 DEF Next
<1> QED  BY <1>1, <1>2

LEMMA TypesImplyTypeOK == Types => TypeOK
<1> SUFFICES ASSUME Types PROVE TypeOK
  OBVIOUS
<1>1. window \in [user : Who, method : {"None", "OAuth", "Password"}, page : {"start", "login", "main"}, enabled : BOOLEAN]
  BY DEF Types, WindowSet, Methods
<1>2. DOMAIN disk.tokens \subseteq Account \cup {Legacy}
      /\ \A k \in DOMAIN disk.tokens : disk.tokens[k] \in BlobOf /\ disk.tokens[k].access # None
  BY DEF Types, DiskSet, TokenMaps, BlobSet, Keys
<1>3. disk.registry \in Seq(EntrySet) /\ OneEntryEach(disk.registry)
  BY DEF Types, DiskSet, Registry
<1>4. \A i \in DOMAIN disk.registry :
        /\ disk.registry[i] \in [email : Account, method : {"OAuth", "Password"}]
        /\ Find(disk.registry, disk.registry[i].email) = {i}
  <2> SUFFICES ASSUME NEW i \in DOMAIN disk.registry
               PROVE  /\ disk.registry[i] \in [email : Account, method : {"OAuth", "Password"}]
                      /\ Find(disk.registry, disk.registry[i].email) = {i}
    OBVIOUS
  <2>1. disk.registry[i] \in EntrySet
    BY <1>3
  <2>2. Find(disk.registry, disk.registry[i].email) = {i}
    BY <1>3 DEF Find, OneEntryEach
  <2> QED  BY <2>1, <2>2 DEF EntrySet, Methods
<1>5. \A i \in DOMAIN jobs : jobs[i].todo # <<>>
  <2>1. \A i \in DOMAIN jobs : jobs[i] \in JobSet
    BY DEF Types, FlightTypes
  <2> QED  BY <2>1 DEF JobSet
<1>6. \A c \in {"imap", "smtp"} : conn[c] \in Account \cup {"closed", "open", "silent"}
  BY DEF Types, Clients, Links
<1> QED  BY <1>1, <1>2, <1>4, <1>5, <1>6 DEF TypeOK, Types, DiskSet, OAuthSet

(* SessionCoordinator, OAuthManager, AccountRegistry and the credential    *)
(* stores: whatever the user does while something else is under way, and   *)
(* whatever fails, everything stays within its type. The active account is *)
(* set, and a blob stored, for an account only, with an access token, and  *)
(* upsert and remove keep one entry for each address in the registry.      *)
THEOREM AccountTypesTheorem == Spec => []TypeOK
BY TypesInit, TypesStep, TypesImplyTypeOK, PTL DEF Spec

-----------------------------------------------------------------------------
(* One thing at a time. Whatever is found under way is all that is.        *)

LEMMA HeldFrame ==
  ASSUME Types, Flight, stack # <<>>
  PROVE  Held(Top) /\ FrameInv(Top) /\ Top \in FrameSet /\ Below = <<>>
<1>1. PICK f \in FrameSet : Held(f) /\ FrameInv(f)
  BY DEF Flight, Resting, Working, Asked, Runs, Told
<1>2. stack = <<f>> /\ Len(stack) = 1
  BY <1>1 DEF Held
<1>3. Top = f
  BY <1>2 DEF Top
<1>4. Below = <<>>
  BY <1>2 DEF Below
<1> QED  BY <1>1, <1>3, <1>4

LEMMA AskedRequest ==
  ASSUME Types, Flight, NEW i \in DOMAIN requests
  PROVE  Asked(requests[i]) /\ RequestInv(requests[i]) /\ requests[i] \in RequestSet /\ RemoveAt(requests, i) = <<>>
<1>0. requests # <<>>
  OBVIOUS
<1>1. PICK r \in RequestSet : Asked(r) /\ RequestInv(r)
  BY <1>0 DEF Flight, Resting, Working, Runs, Told, Held
<1>2. requests = <<r>>
  BY <1>1 DEF Asked
<1>3. i = 1 /\ requests[i] = r
  BY <1>2
<1> QED  BY <1>1, <1>2, <1>3, RemoveOnly

LEMMA RunningJob ==
  ASSUME Types, Flight, NEW i \in DOMAIN jobs
  PROVE  Runs(jobs[i]) /\ JobInv(jobs[i]) /\ jobs[i] \in JobSet /\ RemoveAt(jobs, i) = <<>> /\ i = 1
<1>0. jobs # <<>>
  OBVIOUS
<1>1. PICK j \in JobSet : Runs(j) /\ JobInv(j)
  BY <1>0 DEF Flight, Resting, Working, Asked, Told, Held
<1>2. jobs = <<j>>
  BY <1>1 DEF Runs
<1>3. i = 1 /\ jobs[i] = j
  BY <1>2
<1> QED  BY <1>1, <1>2, <1>3, RemoveOnly

LEMMA ToldResult ==
  ASSUME Types, Flight, posted # <<>>
  PROVE  Told(Head(posted)) /\ ResultInv(Head(posted)) /\ Head(posted) \in PostedSet /\ Tail(posted) = <<>>
<1>1. PICK e \in PostedSet : Told(e) /\ ResultInv(e)
  BY DEF Flight, Resting, Working, Asked, Runs, Held
<1>2. posted = <<e>>
  BY <1>1 DEF Told
<1>3. Head(posted) = e /\ Tail(posted) = <<>>
  BY <1>2
<1> QED  BY <1>1, <1>3

LEMMA RestingIsAll == Flight /\ ~Working => Resting
BY DEF Flight, Working, Asked, Runs, Told, Held

LEMMA AppendToEmpty == \A x : Append(<<>>, x) = <<x>>
OBVIOUS

LEMMA Identity ==
  ASSUME OneIdentity, oauth.access # None
  PROVE  \E a \in Account : TokensAre(a) /\ oauth.access = a /\ oauth.refresh = a /\ oauth.email = a /\ oauth.scope = a
BY DEF OneIdentity, Cleared, TokensAre, Tokens

LEMMA IdentityKept == OneIdentity /\ UNCHANGED oauth => OneIdentity'
BY DEF OneIdentity, Cleared, TokensAre

LEMMA SecretsKept == OwnSecrets /\ disk'.tokens = disk.tokens => OwnSecrets'
BY DEF OwnSecrets

LEMMA KeptSame ==
  ASSUME Kept, ~At("purged"), damaged' = damaged, disk'.tokens = disk.tokens, disk'.passwords = disk.passwords,
         disk'.registry = disk.registry, oauth'.access # None => oauth'.access = oauth.access
  PROVE  Kept'
<1> SUFFICES ASSUME ~damaged
             PROVE  /\ oauth'.access # None => oauth'.access \in DOMAIN disk'.tokens
                    /\ \A i \in DOMAIN disk'.registry : HasSecret(disk.registry[i])'
  BY DEF Kept
<1>1. \A i \in DOMAIN disk.registry : HasSecret(disk.registry[i])
  BY DEF Kept, Leaving
<1> QED  BY <1>1 DEF Kept, HasSecret

(* What changes neither tokens nor secrets keeps all but the flight.       *)
LEMMA SoloSame ==
  ASSUME Solo, ~At("purged"), UNCHANGED <<oauth, damaged>>, disk'.tokens = disk.tokens,
         disk'.passwords = disk.passwords, disk'.registry = disk.registry, Flight'
  PROVE  Solo'
BY IdentityKept, SecretsKept, KeptSame DEF Solo

LEMMA JobFacts ==
  ASSUME NEW kind, NEW user, NEW token, NEW method
  PROVE  /\ Job(kind, user, token, method).kind = kind /\ Job(kind, user, token, method).user = user
         /\ Job(kind, user, token, method).method = method /\ Job(kind, user, token, method).todo = Script[kind]
BY DEF Job

LEMMA FinishFacts ==
  ASSUME NEW j \in JobSet, NEW ok \in BOOLEAN
  PROVE  /\ Finish(j, ok) \in PostedSet /\ Finish(j, ok) # Resume /\ Finish(j, ok).do = j.kind
         /\ Finish(j, ok).user = j.user /\ Finish(j, ok).method = j.method /\ Finish(j, ok).ok = ok
<1>1. Finish(j, ok) \in ResultSet
  BY DEF Finish, JobSet, ResultSet
<1> QED  BY <1>1, ResumeType DEF Finish, PostedSet

(* A job is begun, for the user of the window.                             *)
LEMMA JobBegins ==
  ASSUME NEW j \in JobSet, Runs(j)', window'.page # "start", j.user = window'.user,
         j.kind = "signin" /\ j.method = "OAuth" => Signing',
         j.todo = Script[j.kind], j.kind = "send" => OwnConn'
  PROVE  Flight'
<1>1. j.kind = "signin" \/ j.kind = "send"
  BY DEF JobSet, Kinds
<1>2. JobInv(j)'
  BY <1>1 DEF JobInv
<1> QED  BY <1>2 DEF Flight

(* ensureValidAccessToken, with nothing else under way.                    *)
LEMMA EnsureFlight ==
  ASSUME Types, OneIdentity, NEW w \in WindowSet, NEW kind \in Kinds, EnsureValidAccessToken(w, <<>>, kind),
         requests = <<>>, jobs = <<>>, stack' = <<>>, ~listening', UNCHANGED <<oauth, conn>>,
         w.page # "start",
         kind = "signin" => oauth.access # None /\ w.user = oauth.email,
         kind = "send" => OwnConn /\ w.user = window.user
  PROVE  Flight'
<1>0. kind = "signin" \/ kind = "send"
  BY DEF Kinds
<1>1. CASE /\ oauth.access # None
           /\ jobs' = Append(jobs, Job(kind, w.user, oauth.access, "OAuth"))
           /\ window' = w /\ posted' = <<>> /\ UNCHANGED requests
  <2> DEFINE j == Job(kind, w.user, oauth.access, "OAuth")
  <2>1. j \in JobSet
    BY JobType DEF Types, WindowSet, OAuthSet, Methods
  <2>2. j.kind = kind /\ j.user = w.user /\ j.todo = Script[kind]
    BY JobFacts
  <2>3. jobs' = <<j>>
    BY <1>1, AppendToEmpty
  <2> HIDE DEF j
  <2>4. PICK g : g = j
    OBVIOUS
  <2>5. g \in JobSet /\ g.kind = kind /\ g.user = w.user /\ g.todo = Script[kind] /\ jobs' = <<g>>
    BY <2>1, <2>2, <2>3, <2>4
  <2>6. Runs(g)'
    BY <1>1, <2>5 DEF Runs
  <2>7. kind = "signin" => Signing'
    BY <1>1 DEF Signing
  <2>8. kind = "send" => OwnConn'
    BY <1>1 DEF OwnConn
  <2> QED  BY <1>1, <2>5, <2>6, <2>7, <2>8, JobBegins
<1>2. CASE /\ oauth.access # None /\ oauth.refresh # None
           /\ requests' = Append(requests, [kind |-> "refresh", of |-> oauth.refresh, then |-> kind])
           /\ window' = w /\ posted' = <<>> /\ UNCHANGED jobs
  <2>1. PICK a \in Account : TokensAre(a) /\ oauth.refresh = a
    BY <1>2, Identity
  <2>2. PICK r : r = [kind |-> "refresh", of |-> a, then |-> kind]
    OBVIOUS
  <2>3. r \in RequestSet /\ r.kind = "refresh" /\ r.of = a /\ r.then = kind
    BY <2>2 DEF RequestSet
  <2>4. Asked(r)'
    BY <1>2, <2>1, <2>2, AppendToEmpty DEF Asked
  <2>5. RequestInv(r)'
    BY <1>0, <1>2, <2>1, <2>3 DEF RequestInv, TokensAre, Signing, OwnConn
  <2> QED  BY <2>3, <2>4, <2>5 DEF Flight
<1>3. CASE (oauth.access = None \/ oauth.refresh = None) /\ GiveUp(w, <<>>, kind) /\ UNCHANGED <<requests, jobs>>
  <2>1. kind = "send"
    BY <1>0, <1>3, Identity, WhoFacts
  <2> DEFINE j == Job(kind, w.user, None, "OAuth")
  <2>2. j \in JobSet
    BY JobType, WhoFacts DEF WindowSet, Methods
  <2>3. PICK e : e = Finish(j, FALSE)
    OBVIOUS
  <2>4. e \in PostedSet /\ e # Resume /\ e.ok = FALSE
    BY <2>2, <2>3, FinishFacts
  <2>5. posted' = <<e>>
    BY <1>3, <2>1, <2>3, AppendToEmpty DEF GiveUp
  <2>6. window'.user = w.user /\ window'.page = w.page
    BY <1>3 DEF GiveUp, WindowSet
  <2>7. Told(e)'
    BY <1>3, <2>5 DEF Told
  <2>8. ResultInv(e)'
    BY <2>1, <2>4, <2>6 DEF ResultInv, OwnConn
  <2> QED  BY <2>4, <2>7, <2>8 DEF Flight
<1> QED  BY <1>1, <1>2, <1>3 DEF EnsureValidAccessToken

LEMMA UserSolo ==
  ASSUME Types, overlaps = 0 => Solo, UserActs, overlaps' = 0
  PROVE  Solo'
<1>1. Click
  BY DEF UserActs, StartAuthFlow, OnSendButtonClicked, OnPasswordSignInClicked, OnAddAccountSelected,
     OnSignOutButtonClicked, OnSwitchAccountSelected, Teardown
<1>2. ~Busy /\ damaged' = damaged /\ Solo
  BY <1>1, ClickTypes DEF Types
<1>3. /\ requests = <<>> /\ jobs = <<>> /\ posted = <<>> /\ stack = <<>> /\ ~listening /\ Resting
      /\ ~At("purged")
  BY <1>2, RestingIsAll DEF Busy, Working, Solo, At
<1>4. CASE StartAuthFlow
  <2>1. Resting'
    BY <1>3, <1>4 DEF StartAuthFlow, Resting, Working, OwnConn
  <2> QED  BY <1>2, <1>3, <1>4, <2>1, SoloSame DEF StartAuthFlow, Flight
<1>5. CASE OnSendButtonClicked
  <2> DEFINE w == [window EXCEPT !.enabled = FALSE]
  <2>1. w \in WindowSet /\ w.page = "main" /\ w.user = window.user
    BY <1>5 DEF OnSendButtonClicked, Types, WindowSet
  <2>2. EnsureValidAccessToken(w, <<>>, "send")
    BY <1>3, <1>5 DEF OnSendButtonClicked
  <2> HIDE DEF w
  <2>3. OwnConn
    BY <1>3, <1>5 DEF OnSendButtonClicked, Resting
  <2>4. stack' = <<>> /\ ~listening' /\ UNCHANGED <<oauth, conn, disk>>
    BY <1>3, <1>5 DEF OnSendButtonClicked
  <2>5. Flight'
    BY <1>2, <1>3, <2>1, <2>2, <2>3, <2>4, EnsureFlight DEF Solo, Kinds
  <2> QED  BY <1>2, <1>3, <2>4, <2>5, SoloSame
<1>6. ASSUME NEW a \in Account, OnPasswordSignInClicked(a) PROVE Solo'
  <2>1. PICK j : j = Job("signin", a, a, "Password")
    OBVIOUS
  <2>2. j \in JobSet /\ j.kind = "signin" /\ j.user = a /\ j.method = "Password" /\ j.todo = Script[j.kind]
    BY <2>1, JobType, JobFacts, WhoFacts DEF Kinds, Methods
  <2>3. Runs(j)'
    BY <1>3, <1>6, <2>1, AppendToEmpty DEF OnPasswordSignInClicked, Runs
  <2>4. window'.page = "login" /\ window'.user = a
    BY <1>6 DEF OnPasswordSignInClicked, Types, WindowSet
  <2>5. Flight'
    BY <2>2, <2>3, <2>4, JobBegins
  <2> QED  BY <1>2, <1>3, <1>6, <2>5, SoloSame DEF OnPasswordSignInClicked
<1>7. ASSUME NEW then \in TearSet, Teardown(then) PROVE Solo'
  <2>1. PICK f : f = Frame("tornDown", window.user, then)
    OBVIOUS
  <2>2. f \in FrameSet /\ f.at = "tornDown"
    BY <2>1 DEF Frame, FrameSet, Types, WindowSet
  <2>3. Held(f)'
    BY <1>3, <1>7, <2>1, AppendToEmpty DEF Teardown, Wait, Held
  <2>4. FrameInv(f)'
    BY <2>2 DEF FrameInv
  <2>5. Flight'
    BY <2>2, <2>3, <2>4 DEF Flight
  <2> QED  BY <1>2, <1>3, <1>7, <2>5, SoloSame DEF Teardown
<1>8. CASE OnAddAccountSelected
  <2>1. [do |-> "add"] \in TearSet
    BY DEF TearSet
  <2> QED  BY <1>7, <1>8, <2>1 DEF OnAddAccountSelected
<1>9. CASE OnSignOutButtonClicked
  <2>1. [do |-> "signOut", method |-> window.method] \in TearSet
    BY DEF TearSet, Types, WindowSet
  <2> QED  BY <1>7, <1>9, <2>1 DEF OnSignOutButtonClicked
<1>10. ASSUME NEW i \in DOMAIN disk.registry, OnSwitchAccountSelected(i) PROVE Solo'
  <2>1. disk.registry[i] \in EntrySet
    BY DEF Types, DiskSet, Registry
  <2>2. [do |-> "switch", to |-> disk.registry[i]] \in TearSet
    BY <2>1 DEF TearSet
  <2> QED  BY <1>7, <1>10, <2>2 DEF OnSwitchAccountSelected
<1> QED  BY <1>4, <1>5, <1>6, <1>8, <1>9, <1>10 DEF UserActs

LEMMA BrowserSolo ==
  ASSUME Types, overlaps = 0 => Solo, BrowserReturns, overlaps' = 0
  PROVE  Solo'
<1>1. overlaps = 0 /\ ~Working
  <2>1. Working \in BOOLEAN
    BY DEF Working
  <2>2. CASE Overlap(Working)
    BY <2>1, <2>2, OverlapTypes DEF Types
  <2>3. CASE NoClick
    <3>1. overlaps = 0
      BY <2>3 DEF NoClick
    <3> QED  BY <3>1 DEF BrowserReturns, Solo, Flight, Asked, Runs, Told, Held, Resting
  <2> QED  BY <2>2, <2>3 DEF BrowserReturns
<1>2. /\ Solo /\ requests = <<>> /\ jobs = <<>> /\ posted = <<>> /\ stack = <<>> /\ ~At("purged")
      /\ listening /\ Resting /\ window.page = "login"
  BY <1>1, RestingIsAll DEF Solo, BrowserReturns, Resting, Working, At
<1>3. /\ ~listening' /\ UNCHANGED <<oauth, disk, jobs, conn, posted, stack>>
      /\ damaged' = damaged /\ window'.page = "login"
  BY <1>2 DEF BrowserReturns, NoClick, Types, WindowSet
<1>4. CASE \E a \in Account : requests' = Append(requests, [kind |-> "exchange", of |-> a, then |-> "signin"])
  <2>1. PICK a \in Account : requests' = Append(requests, [kind |-> "exchange", of |-> a, then |-> "signin"])
    BY <1>4
  <2>2. PICK r : r = [kind |-> "exchange", of |-> a, then |-> "signin"]
    OBVIOUS
  <2>3. r \in RequestSet /\ r.kind = "exchange" /\ r.then = "signin"
    BY <2>2 DEF RequestSet, Kinds
  <2>4. Asked(r)'
    BY <1>2, <1>3, <2>1, <2>2, AppendToEmpty DEF Asked
  <2>5. RequestInv(r)'
    BY <1>3, <2>3 DEF RequestInv
  <2>6. Flight'
    BY <2>3, <2>4, <2>5 DEF Flight
  <2> QED  BY <1>2, <1>3, <2>6, SoloSame
<1>5. CASE UNCHANGED requests
  <2>1. Resting'
    BY <1>2, <1>3, <1>5 DEF Resting, Working
  <2> QED  BY <1>2, <1>3, <2>1, SoloSame DEF Flight
<1> QED  BY <1>4, <1>5 DEF BrowserReturns

(* saveTokens, of an account's tokens under its own key.                   *)
LEMMA SaveSolo ==
  ASSUME Types, OwnSecrets, Kept, ~At("purged"), NEW a \in Account, NEW at, at # "purged", NEW then, stack = <<>> \/ Below = <<>>,
         SaveTokens(Tokens(a), at, then)
  PROVE  /\ oauth' = Tokens(a) /\ OneIdentity' /\ OwnSecrets' /\ Kept'
<1>1. oauth' = Tokens(a) /\ KeychainWrites(Store(a, Secret(a)))
  BY SecretTypes DEF SaveTokens
<1>2. disk \in DiskSet /\ Secret(a) \in BlobSet /\ a \in Keys /\ a # Legacy
  BY SecretTypes DEF Types, Keys
<1> DEFINE t == [k \in DOMAIN disk.tokens \cup {a} |-> IF k = a THEN Secret(a) ELSE disk.tokens[k]]
<1>3. /\ Store(a, Secret(a)).tokens = t /\ Store(a, Secret(a)).registry = disk.registry
      /\ Store(a, Secret(a)).passwords = disk.passwords
  BY <1>2, StoreProperties
<1>4. \/ disk'.tokens = t /\ disk'.registry = disk.registry /\ disk'.passwords = disk.passwords /\ damaged' = damaged
      \/ damaged' = TRUE /\ disk' = disk
  BY <1>1, <1>3 DEF KeychainWrites
<1>5. OwnSecrets'
  <2>1. CASE disk' = disk
    BY <2>1, SecretsKept
  <2>2. CASE disk'.tokens = t
    <3> SUFFICES ASSUME NEW k \in DOMAIN t
                 PROVE  \E b \in Account : t[k] = Secret(b) /\ (k \in Account => k = b)
      BY <2>2 DEF OwnSecrets
    <3>1. CASE k = a
      BY <3>1
    <3>2. CASE k # a
      BY <3>2 DEF OwnSecrets
    <3> QED  BY <3>1, <3>2
  <2> QED  BY <1>4, <2>1, <2>2
<1>6. OneIdentity'
  BY <1>1 DEF OneIdentity, TokensAre
<1>7. Kept'
  <2> SUFFICES ASSUME ~damaged, disk'.tokens = t, disk'.registry = disk.registry, disk'.passwords = disk.passwords
               PROVE  /\ oauth'.access \in DOMAIN disk'.tokens
                      /\ \A i \in DOMAIN disk.registry : HasSecret(disk.registry[i])'
    BY <1>4 DEF Kept
  <2>1. oauth'.access = a /\ DOMAIN t = DOMAIN disk.tokens \cup {a}
    BY <1>1 DEF Tokens
  <2>2. \A i \in DOMAIN disk.registry : HasSecret(disk.registry[i])
    BY DEF Kept, Leaving
  <2> HIDE DEF t
  <2> QED  BY <2>1, <2>2 DEF HasSecret
<1> QED  BY <1>1, <1>5, <1>6, <1>7

LEMMA ReplySolo ==
  ASSUME Types, Solo, NEW i \in DOMAIN requests, Exchanged(i) \/ Refreshed(i) \/ RequestFailed(i)
  PROVE  Solo'
<1> DEFINE r == requests[i]
<1>1. Asked(r) /\ RequestInv(r) /\ r \in RequestSet /\ RemoveAt(requests, i) = <<>>
  BY AskedRequest DEF Solo
<1> HIDE DEF r
<1>2. /\ requests' = <<>> /\ jobs = <<>> /\ posted = <<>> /\ stack = <<>> /\ ~listening /\ ~At("purged")
      /\ r.of \in Account /\ r.then \in Kinds
  BY <1>1 DEF Exchanged, Refreshed, RequestFailed, Answered, Asked, At, RequestSet
<1>3. CASE Exchanged(i)
  <2>1. SaveTokens(Tokens(r.of), "exchanged", "signin") /\ UNCHANGED <<window, listening, jobs, conn, posted>>
    BY <1>3 DEF Exchanged, r
  <2>2. oauth' = Tokens(r.of) /\ OneIdentity' /\ OwnSecrets' /\ Kept'
    BY <1>2, <2>1, SaveSolo DEF Solo
  <2>3. PICK f : f = Frame("exchanged", None, "signin")
    OBVIOUS
  <2>4. f \in FrameSet /\ f.at = "exchanged"
    BY <2>3 DEF Frame, FrameSet
  <2>5. Held(f)'
    BY <1>2, <2>1, <2>3, AppendToEmpty DEF SaveTokens, Wait, Held
  <2>6. oauth'.access # None /\ window'.page # "start"
    BY <1>1, <1>2, <2>1, <2>2, WhoFacts DEF Tokens, RequestInv
  <2>7. FrameInv(f)'
    BY <2>4, <2>6 DEF FrameInv
  <2> QED  BY <2>2, <2>4, <2>5, <2>7 DEF Solo, Flight
<1>4. CASE Refreshed(i)
  <2>1. r.kind = "refresh" /\ oauth = Tokens(r.of)
    BY <1>1, <1>4 DEF Refreshed, RequestInv, TokensAre, r
  <2>2. PICK kept \in {oauth.refresh, r.of} :
          SaveTokens([oauth EXCEPT !.access = r.of, !.refresh = kept], "refreshed", r.then)
    BY <1>4 DEF Refreshed, r
  <2>3. [oauth EXCEPT !.access = r.of, !.refresh = kept] = Tokens(r.of)
    <3>1. kept = r.of
      BY <2>1, <2>2 DEF Tokens
    <3>2. PICK a : a = r.of
      OBVIOUS
    <3>3. PICK o : o = [oauth EXCEPT !.access = a, !.refresh = a]
      OBVIOUS
    <3>4. oauth \in OAuthSet /\ oauth.email = a /\ oauth.scope = a /\ a \in Account
      BY <1>2, <2>1, <3>2 DEF Tokens, Types
    <3>5. o \in OAuthSet /\ o.access = a /\ o.refresh = a /\ o.email = a /\ o.scope = a
      BY <3>3, <3>4, WhoFacts DEF OAuthSet
    <3>6. \A p \in OAuthSet : p = [access |-> p.access, refresh |-> p.refresh, email |-> p.email, scope |-> p.scope]
      BY DEF OAuthSet
    <3> QED  BY <3>1, <3>2, <3>3, <3>5, <3>6 DEF Tokens
  <2>4. SaveTokens(Tokens(r.of), "refreshed", r.then) /\ UNCHANGED <<window, listening, jobs, conn, posted>>
    BY <1>4, <2>2, <2>3 DEF Refreshed
  <2>5. oauth' = Tokens(r.of) /\ OneIdentity' /\ OwnSecrets' /\ Kept'
    BY <1>2, <2>4, SaveSolo DEF Solo
  <2>6. PICK f : f = Frame("refreshed", None, r.then)
    OBVIOUS
  <2>7. f \in FrameSet /\ f.at = "refreshed" /\ f.then = r.then
    BY <1>2, <2>6 DEF Frame, FrameSet
  <2>8. Held(f)'
    BY <1>2, <2>4, <2>6, AppendToEmpty DEF SaveTokens, Wait, Held
  <2>9. oauth'.access # None /\ window'.page # "start"
    BY <1>1, <1>2, <2>4, <2>5, WhoFacts DEF Tokens, RequestInv
  <2>10. IF r.then = "signin" THEN Signing' ELSE OwnConn'
    BY <1>1, <1>2, <2>1, <2>4, <2>5 DEF RequestInv, Kinds, Signing, OwnConn
  <2>11. FrameInv(f)'
    BY <2>7, <2>9, <2>10 DEF FrameInv
  <2> QED  BY <2>5, <2>7, <2>8, <2>11 DEF Solo, Flight
<1>5. CASE RequestFailed(i)
  <2>1. GiveUp(window, <<>>, r.then) /\ r.kind \in Faults /\ UNCHANGED <<oauth, disk, listening, jobs, conn, stack, damaged>>
    BY <1>2, <1>5 DEF RequestFailed, NoClick, r
  <2>2. window'.user = window.user /\ window'.page = window.page
    BY <2>1 DEF GiveUp, Types, WindowSet
  <2>3. CASE r.then = "signin"
    <3>1. posted' = <<>>
      BY <2>1, <2>3 DEF GiveUp
    <3>2. r.kind = "exchange" \/ r.kind = "refresh"
      BY <1>1 DEF RequestSet
    <3>3. window'.page = "main" => OwnConn'
      BY <1>1, <2>1, <2>2, <3>2 DEF RequestInv, OwnConn
    <3>4. Resting'
      BY <1>2, <2>1, <3>1, <3>3 DEF Resting, Working
    <3> QED  BY <1>2, <2>1, <3>4, SoloSame DEF Flight
  <2>4. CASE r.then = "send"
    <3> DEFINE j == Job(r.then, window.user, None, "OAuth")
    <3>1. j \in JobSet
      BY <1>2, JobType, WhoFacts DEF Types, WindowSet, Methods
    <3>2. PICK e : e = Finish(j, FALSE)
      OBVIOUS
    <3>3. e \in PostedSet /\ e # Resume /\ e.ok = FALSE
      BY <3>1, <3>2, FinishFacts
    <3>4. posted' = <<e>>
      BY <2>1, <2>4, <3>2, AppendToEmpty DEF GiveUp
    <3>5. Told(e)'
      BY <1>2, <2>1, <3>4 DEF Told
    <3>6. ResultInv(e)'
      BY <1>1, <2>1, <2>2, <2>4, <3>3 DEF ResultInv, RequestInv, OwnConn
    <3>7. Flight'
      BY <3>3, <3>5, <3>6 DEF Flight
    <3> QED  BY <1>2, <2>1, <3>7, SoloSame
  <2> QED  BY <1>2, <2>3, <2>4 DEF Kinds
<1> QED  BY <1>3, <1>4, <1>5

LEMMA TokensSavedSolo ==
  ASSUME Types, Solo, TokensSaved
  PROVE  Solo'
<1>1. /\ Held(Top) /\ FrameInv(Top) /\ Top \in FrameSet /\ Below = <<>>
      /\ UNCHANGED <<oauth, disk, listening, conn, damaged>> /\ stack' = <<>>
  BY HeldFrame DEF Solo, TokensSaved, At, NoClick
<1>2. /\ requests = <<>> /\ jobs = <<>> /\ posted = <<>> /\ ~listening'
  BY <1>1 DEF Held
<1>3. CASE At("exchanged") /\ OnOAuthAuthenticated(posted)
  <2> DEFINE w == [window EXCEPT !.user = oauth.email, !.enabled = FALSE]
  <2>1. w \in WindowSet /\ w.user = oauth.email /\ w.page = window.page
    BY DEF Types, WindowSet, OAuthSet
  <2>2. EnsureValidAccessToken(w, <<>>, "signin")
    BY <1>2, <1>3 DEF OnOAuthAuthenticated
  <2>3. oauth.access # None /\ window.page # "start" /\ ~At("purged")
    BY <1>1, <1>3 DEF At, FrameInv
  <2> HIDE DEF w
  <2>4. Flight'
    BY <1>1, <1>2, <2>1, <2>2, <2>3, EnsureFlight DEF Solo, Kinds
  <2> QED  BY <1>1, <2>3, <2>4, SoloSame
<1>4. CASE /\ At("refreshed") /\ window' = window /\ posted' = posted /\ UNCHANGED requests
           /\ jobs' = Append(jobs, Job(Top.then, window.user, oauth.access, "OAuth"))
  <2>1. Top.at = "refreshed" /\ Top.then \in Kinds /\ ~At("purged")
    <3>1. Top.at = "refreshed"
      BY <1>4 DEF At
    <3> QED  BY <1>1, <3>1 DEF At, FrameSet, Kinds
  <2>2. PICK k \in Kinds : k = Top.then
    BY <2>1
  <2>3. window.page # "start" /\ (k = "signin" => Signing) /\ (k = "send" => OwnConn)
    BY <1>1, <2>1, <2>2 DEF FrameInv, Kinds
  <2>4. PICK j : j = Job(k, window.user, oauth.access, "OAuth")
    OBVIOUS
  <2>5. /\ j \in JobSet /\ j.kind = k /\ j.user = window.user /\ j.todo = Script[k]
    BY <2>4, JobType, JobFacts DEF Types, WindowSet, OAuthSet, Methods
  <2>6. Runs(j)'
    BY <1>1, <1>2, <1>4, <2>2, <2>4, AppendToEmpty DEF Runs
  <2>7. (k = "signin" => Signing') /\ (k = "send" => OwnConn')
    BY <1>1, <1>4, <2>3 DEF Signing, OwnConn
  <2>8. Flight'
    BY <1>4, <2>3, <2>5, <2>6, <2>7, JobBegins
  <2> QED  BY <1>1, <2>1, <2>8, SoloSame
<1> QED  BY <1>3, <1>4 DEF TokensSaved

(* A step of a job: the job goes on, or what it ends with is told.         *)
LEMMA JobGoesOn ==
  ASSUME Types, NEW j \in JobSet, Runs(j), JobInv(j), Len(j.todo) > 1,
         UNCHANGED <<window, oauth, listening, requests, stack, posted>>,
         jobs' = <<[j EXCEPT !.todo = Tail(@)]>>,
         NEW client \in Clients, client = ClientOf(Head(j.todo)),
         NEW outcome \in Awaits(j, client, Head(j.todo)), conn' = [conn EXCEPT ![client] = outcome[1]]
  PROVE  Flight'
<1>1. PICK g : g = [j EXCEPT !.todo = Tail(@)]
  OBVIOUS
<1>2. g \in JobSet /\ g.kind = j.kind /\ g.user = j.user /\ g.method = j.method /\ g.todo = Tail(j.todo)
  BY <1>1, TailOfTodo DEF JobSet
<1>3. Runs(g)'
  BY <1>1 DEF Runs
<1>4. Head(j.todo) \in Stages
  BY DEF JobSet
<1>5. /\ outcome[1] \in {conn[client], "closed", "open"} \cup (Account \cap {j.user})
      /\ Head(j.todo) \in {"smtpClose", "imapClose"} => outcome[1] = "closed"
  <2>1. PICK step \in Stages : step = Head(j.todo)
    BY <1>4
  <2>2. outcome \in Awaits(j, client, step)
    BY <2>1
  <2>3. /\ outcome[1] \in {conn[client], "closed", "open"} \cup (Account \cap {j.user})
        /\ step \in {"smtpClose", "imapClose"} => outcome = <<"closed", TRUE>>
    BY <2>2, AwaitsProperties
  <2>4. <<"closed", TRUE>>[1] = "closed"
    OBVIOUS
  <2> QED  BY <2>1, <2>3, <2>4
<1>6. conn \in [Clients -> Links]
  BY DEF Types
<1>7. OwnConn => OwnConn'
  BY <1>5, <1>6, AccountAssumption DEF OwnConn, JobInv
<1>8. ASSUME j.kind = "signin", j.todo = Script.signin PROVE g.todo = Tail(Script.signin) /\ conn'.smtp = "closed"
  <2>1. Head(j.todo) = "smtpClose"
    BY <1>8 DEF Script
  <2>2. client = "smtp"
    BY <2>1 DEF ClientOf
  <2> QED  BY <1>2, <1>5, <1>6, <1>8, <2>1, <2>2 DEF Clients
<1>9. ASSUME j.kind = "signin", j.todo = Tail(Script.signin), conn.smtp = "closed" PROVE OwnConn'
  <2>1. Head(j.todo) = "imapClose"
    BY <1>9 DEF Script
  <2>2. client = "imap"
    BY <2>1 DEF ClientOf
  <2>3. conn'.imap = "closed" /\ conn'.smtp = "closed"
    BY <1>5, <1>6, <1>9, <2>1, <2>2 DEF Clients
  <2> QED  BY <2>3, AccountAssumption DEF OwnConn, Clients
<1>10. JobInv(g)'
  <2>1. j.kind = "signin" /\ j.method = "OAuth" => Signing'
    BY DEF JobInv, Signing
  <2>2. OwnConn' \/ (j.kind = "signin" /\ g.todo = Tail(Script.signin) /\ conn'.smtp = "closed")
    BY <1>7, <1>8, <1>9 DEF JobInv
  <2> QED  BY <1>2, <2>1, <2>2 DEF JobInv
<1> QED  BY <1>2, <1>3, <1>10 DEF Flight

LEMMA JobEnds ==
  ASSUME Types, NEW j \in JobSet, Runs(j), JobInv(j), NEW client \in Clients, client = ClientOf(Head(j.todo)),
         NEW outcome \in Awaits(j, client, Head(j.todo)), ~outcome[2] \/ ~(Len(j.todo) > 1),
         UNCHANGED <<window, oauth, listening, requests, stack>>, conn' = [conn EXCEPT ![client] = outcome[1]],
         jobs' = <<>>, posted' = <<Finish(j, outcome[2])>>
  PROVE  Flight'
<1>1. PICK step \in Stages : step = Head(j.todo)
  BY DEF JobSet
<1>2. /\ outcome[1] \in {conn[client], "closed", "open"} \cup (Account \cap {j.user}) /\ outcome[2] \in BOOLEAN
      /\ step \in {"smtpClose", "imapClose"} => outcome = <<"closed", TRUE>>
  <2>1. outcome \in Awaits(j, client, step)
    BY <1>1
  <2> QED  BY <2>1, AwaitsProperties
<1>3. OwnConn
  <2>1. ASSUME j.todo = Script.signin PROVE FALSE
    <3>1. step = "smtpClose" /\ Len(j.todo) > 1
      BY <1>1, <2>1 DEF Script
    <3>2. outcome = <<"closed", TRUE>>
      BY <1>2, <3>1
    <3>3. outcome[2] = TRUE
      BY <3>2
    <3> QED  BY <3>1, <3>3
  <2>2. ASSUME j.todo = Tail(Script.signin) PROVE FALSE
    <3>1. step = "imapClose" /\ Len(j.todo) > 1
      BY <1>1, <2>2 DEF Script
    <3>2. outcome = <<"closed", TRUE>>
      BY <1>2, <3>1
    <3>3. outcome[2] = TRUE
      BY <3>2
    <3> QED  BY <3>1, <3>3
  <2> QED  BY <2>1, <2>2 DEF JobInv
<1>4. conn \in [Clients -> Links]
  BY DEF Types
<1>5. OwnConn'
  BY <1>2, <1>3, <1>4, AccountAssumption DEF OwnConn, JobInv
<1>6. PICK e : e = Finish(j, outcome[2])
  OBVIOUS
<1>7. e \in PostedSet /\ e # Resume /\ e.do = j.kind /\ e.user = j.user /\ e.method = j.method
  BY <1>2, <1>6, FinishFacts
<1>8. Told(e)'
  BY <1>6 DEF Told, Runs
<1>9. ResultInv(e)'
  <2>1. j.method = "OAuth" \/ j.method = "Password"
    BY DEF JobSet, Methods
  <2>2. j.user = window.user /\ (j.kind = "signin" /\ j.method = "OAuth" => Signing') /\ window'.page # "start"
    BY DEF JobInv, Signing
  <2> QED  BY <1>5, <1>7, <2>1, <2>2 DEF ResultInv
<1> QED  BY <1>7, <1>8, <1>9 DEF Flight

LEMMA JobStepSolo ==
  ASSUME Types, Solo, NEW i \in DOMAIN jobs, JobStep(i)
  PROVE  Solo'
<1>1. PICK j : j = jobs[i]
  OBVIOUS
<1>2. Runs(j) /\ JobInv(j) /\ j \in JobSet /\ RemoveAt(jobs, i) = <<>> /\ i = 1 /\ jobs = <<j>> /\ posted = <<>> /\ ~At("purged")
  <2>1. Runs(j) /\ JobInv(j) /\ j \in JobSet /\ RemoveAt(jobs, i) = <<>> /\ i = 1
    BY <1>1, RunningJob DEF Solo
  <2> QED  BY <2>1 DEF Runs, At
<1>3. UNCHANGED <<window, oauth, disk, listening, requests, stack, damaged>>
  BY DEF JobStep, NoClick
<1>4. PICK client : client = ClientOf(Head(j.todo))
  OBVIOUS
<1>5. client \in Clients
  BY <1>4 DEF ClientOf, Clients
<1>6. PICK outcome \in Awaits(j, client, Head(j.todo)) :
        /\ conn' = [conn EXCEPT ![client] = outcome[1]]
        /\ IF outcome[2] /\ Len(j.todo) > 1
           THEN jobs' = [jobs EXCEPT ![i].todo = Tail(@)] /\ UNCHANGED posted
           ELSE /\ jobs' = RemoveAt(jobs, i)
                /\ posted' = Append(posted, Finish(j, outcome[2]))
  BY <1>1, <1>4 DEF JobStep
<1>7. CASE outcome[2] /\ Len(j.todo) > 1
  <2>1. jobs' = <<[j EXCEPT !.todo = Tail(@)]>> /\ UNCHANGED posted
    <3>1. jobs' = [jobs EXCEPT ![i] = [jobs[i] EXCEPT !.todo = Tail(@)]] /\ UNCHANGED posted
      BY <1>6, <1>7
    <3>2. PICK g : g = [j EXCEPT !.todo = Tail(@)]
      OBVIOUS
    <3>3. jobs' = [<<j>> EXCEPT ![1] = g]
      BY <1>1, <1>2, <3>1, <3>2
    <3>4. \A x, y : [<<x>> EXCEPT ![1] = y] = <<y>>
      OBVIOUS
    <3> QED  BY <3>1, <3>2, <3>3, <3>4
  <2>2. Flight'
    BY <1>2, <1>3, <1>4, <1>5, <1>6, <1>7, <2>1, JobGoesOn
  <2> QED  BY <1>2, <1>3, <2>2, SoloSame
<1>8. CASE ~(outcome[2] /\ Len(j.todo) > 1)
  <2>1. jobs' = <<>> /\ posted' = <<Finish(j, outcome[2])>>
    BY <1>2, <1>6, <1>8, AppendToEmpty
  <2>2. Flight'
    BY <1>2, <1>3, <1>4, <1>5, <1>6, <1>8, <2>1, JobEnds
  <2> QED  BY <1>2, <1>3, <2>2, SoloSame
<1> QED  BY <1>7, <1>8

(* A handshake that is not answered leaves the coroutine where it is, and  *)
(* its connection nobody's.                                                *)
LEMMA GoesSilentSolo ==
  ASSUME Types, Solo, NEW i \in DOMAIN jobs, GoesSilent(i)
  PROVE  Solo'
<1>1. PICK j : j = jobs[i]
  OBVIOUS
<1>2. Runs(j) /\ JobInv(j) /\ j \in JobSet /\ i = 1 /\ jobs = <<j>> /\ ~At("purged")
  <2>1. Runs(j) /\ JobInv(j) /\ j \in JobSet /\ i = 1
    BY <1>1, RunningJob DEF Solo
  <2> QED  BY <2>1 DEF Runs, At
<1>3. UNCHANGED <<window, oauth, disk, listening, requests, posted, stack, damaged>>
  BY DEF GoesSilent, NoClick
<1>4. PICK h \in {"imapTls", "smtpTls"}, client \in Clients :
        /\ Head(j.todo) \in {"smtpConnect", "imapConnect"}
        /\ conn' = [conn EXCEPT ![client] = "silent"]
        /\ jobs' = [jobs EXCEPT ![i].todo = <<h>> \o Tail(@)]
  BY <1>1 DEF GoesSilent, ClientOf, Clients
<1>5. PICK g : g = [j EXCEPT !.todo = <<h>> \o Tail(@)]
  OBVIOUS
<1>6. g \in JobSet /\ g.kind = j.kind /\ g.user = j.user /\ g.method = j.method
  BY <1>2, <1>5, HandshakeTodo DEF JobSet
<1>7. jobs' = <<g>>
  <2>1. jobs' = [jobs EXCEPT ![i] = [jobs[i] EXCEPT !.todo = <<h>> \o Tail(@)]]
    BY <1>4
  <2>2. jobs' = [<<j>> EXCEPT ![1] = g]
    BY <1>1, <1>2, <1>5, <2>1
  <2>3. \A x, y : [<<x>> EXCEPT ![1] = y] = <<y>>
    OBVIOUS
  <2> QED  BY <2>2, <2>3
<1>8. OwnConn
  <2>1. j.todo # Script.signin
    BY <1>4 DEF Script
  <2>2. j.todo # Tail(Script.signin)
    BY <1>4 DEF Script
  <2> QED  BY <1>2, <2>1, <2>2 DEF JobInv
<1>9. OwnConn'
  BY <1>3, <1>4, <1>8, AccountAssumption DEF OwnConn, Types
<1>10. Runs(g)' /\ JobInv(g)'
  BY <1>2, <1>3, <1>6, <1>7, <1>9 DEF Runs, JobInv, Signing
<1>11. Flight'
  BY <1>6, <1>10 DEF Flight
<1> QED  BY <1>2, <1>3, <1>11, SoloSame

(* The account signed in is registered; its secret is there.               *)
LEMMA SignedInSolo ==
  ASSUME Types, Solo, ~At("purged"), NEW method \in Methods,
         SignedIn([window EXCEPT !.method = method]),
         OwnConn, method = "OAuth" => Signing, damaged' = damaged,
         method = "Password" => damaged \/ window.user \in disk.passwords,
         UNCHANGED conn, requests' = <<>>, jobs' = <<>>, posted' = <<>>, stack' = <<>>, ~listening'
  PROVE  Solo'
<1> DEFINE w == [window EXCEPT !.method = method]
<1>1. w \in WindowSet /\ w.user = window.user /\ w.method = method /\ w.method # "None" /\ w.page = window.page
  BY DEF Types, WindowSet, Methods
<1>2. window' = [w EXCEPT !.enabled = TRUE, !.page = "main"] /\ RegisterActiveAccount(w)
  BY DEF SignedIn
<1> HIDE DEF w
<1>3. window'.user = window.user /\ window'.page = "main"
  BY <1>1, <1>2 DEF WindowSet
<1>4. OwnConn'
  BY <1>3 DEF OwnConn
<1>5. Flight'
  <2>1. Resting'
    BY <1>3, <1>4 DEF Resting, Working
  <2> QED  BY <2>1 DEF Flight
<1>6. oauth' = oauth
  <2>1. CASE method = "OAuth"
    <3>1. PICK a \in Account : TokensAre(a) /\ oauth.email = a /\ oauth.scope = a
      BY <2>1, Identity DEF Signing, Solo
    <3>2. oauth.scope = w.user
      BY <1>1, <2>1, <3>1 DEF Signing
    <3>3. [oauth EXCEPT !.scope = oauth.scope] = oauth
      BY DEF Types, OAuthSet
    <3> QED  BY <1>2, <3>2, <3>3 DEF RegisterActiveAccount
  <2>2. CASE method # "OAuth"
    BY <1>1, <1>2, <2>2 DEF RegisterActiveAccount
  <2> QED  BY <2>1, <2>2
<1>7. CASE window.user = None
  <2>1. disk' = disk
    BY <1>1, <1>2, <1>7 DEF RegisterActiveAccount
  <2> QED  BY <1>5, <1>6, <2>1, SoloSame
<1>8. CASE window.user # None
  <2>1. PICK e : e = Entry(window.user, method)
    OBVIOUS
  <2>2. e \in EntrySet /\ e.email = window.user /\ e.method = method
    BY <1>8, <2>1, WhoFacts DEF Entry, EntrySet, Types, WindowSet
  <2>3. disk' = [disk EXCEPT !.registry = Upsert(disk.registry, e), !.active = window.user]
    BY <1>1, <1>2, <1>8, <2>1 DEF RegisterActiveAccount
  <2>4. /\ disk'.tokens = disk.tokens /\ disk'.passwords = disk.passwords /\ disk'.registry = Upsert(disk.registry, e)
        /\ disk.registry \in Registry
    BY <2>3 DEF Types, DiskSet
  <2>5. Kept'
    <3> SUFFICES ASSUME ~damaged
                 PROVE  /\ oauth.access # None => oauth.access \in DOMAIN disk.tokens
                        /\ \A k \in DOMAIN Upsert(disk.registry, e) : HasSecret(Upsert(disk.registry, e)[k])
      BY <1>6, <2>4 DEF Kept, HasSecret
    <3>1. \A k \in DOMAIN disk.registry : HasSecret(disk.registry[k])
      BY DEF Solo, Kept, Leaving
    <3>2. oauth.access # None => oauth.access \in DOMAIN disk.tokens
      BY DEF Solo, Kept
    <3>3. HasSecret(e)
      <4>1. CASE method = "OAuth"
        <5>1. PICK a \in Account : oauth.access = a /\ oauth.email = a
          BY <4>1, Identity DEF Signing, Solo
        <5>2. e.email \in DOMAIN disk.tokens
          BY <2>2, <3>2, <4>1, <5>1, WhoFacts DEF Signing
        <5> QED  BY <2>2, <4>1, <5>2 DEF HasSecret
      <4>2. CASE method = "Password"
        BY <2>2, <4>2 DEF HasSecret
      <4> QED  BY <4>1, <4>2 DEF Methods
    <3>4. \A k \in DOMAIN Upsert(disk.registry, e) :
            Upsert(disk.registry, e)[k] = e \/ \E m \in DOMAIN disk.registry : Upsert(disk.registry, e)[k] = disk.registry[m]
      BY <2>2, <2>4, UpsertProperties
    <3> QED  BY <3>1, <3>2, <3>3, <3>4
  <2> QED  BY <1>5, <1>6, <2>4, <2>5, IdentityKept, SecretsKept DEF Solo
<1> QED  BY <1>7, <1>8

LEMMA DeliverSolo ==
  ASSUME Types, Solo, Deliver
  PROVE  Solo'
<1>1. PICK e : e = Head(posted)
  OBVIOUS
<1>2. /\ Told(e) /\ ResultInv(e) /\ e \in PostedSet /\ Tail(posted) = <<>> /\ ~At("purged")
      /\ UNCHANGED <<listening, conn>> /\ ~listening' /\ window.page # "start"
  <2>1. Told(e) /\ ResultInv(e) /\ e \in PostedSet /\ Tail(posted) = <<>>
    BY <1>1, ToldResult DEF Solo, Deliver
  <2> QED  BY <2>1 DEF Told, At, Deliver
<1>3. requests = <<>> /\ jobs = <<>> /\ stack = <<>>
  BY <1>2 DEF Told
<1>4. CASE e.do = "resume" /\ OnOAuthAuthenticated(<<>>) /\ UNCHANGED <<oauth, disk, stack, damaged>>
  <2>1. oauth.access # None
    BY <1>2, <1>4 DEF ResultInv, PostedSet, ResultSet, Kinds
  <2> DEFINE w == [window EXCEPT !.user = oauth.email, !.enabled = FALSE]
  <2>2. w \in WindowSet /\ w.user = oauth.email /\ w.page = window.page
    BY DEF Types, WindowSet, OAuthSet
  <2>3. EnsureValidAccessToken(w, <<>>, "signin")
    BY <1>4 DEF OnOAuthAuthenticated
  <2> HIDE DEF w
  <2>4. Flight'
    BY <1>2, <1>3, <1>4, <2>1, <2>2, <2>3, EnsureFlight DEF Solo, Kinds
  <2> QED  BY <1>2, <1>4, <2>4, SoloSame
<1>5. CASE /\ e.do = "send" \/ (e.do = "signin" /\ ~e.ok)
           /\ window' = [window EXCEPT !.enabled = TRUE] /\ posted' = <<>>
           /\ UNCHANGED <<oauth, disk, requests, jobs, stack, damaged>>
  <2>1. e # Resume /\ window'.user = window.user
    BY <1>5, ResumeType DEF Types, WindowSet
  <2>2. OwnConn'
    BY <1>2, <2>1 DEF ResultInv, OwnConn
  <2>3. Resting'
    BY <1>2, <1>3, <1>5, <2>2 DEF Resting, Working
  <2>4. Flight'
    BY <2>3 DEF Flight
  <2> QED  BY <1>2, <1>5, <2>4, SoloSame
<1>6. CASE /\ e.do = "signin" /\ e.ok /\ e.method = "OAuth" /\ SignedIn([window EXCEPT !.method = "OAuth"])
           /\ posted' = <<>> /\ UNCHANGED <<requests, jobs, stack, damaged>>
  <2>1. Signing /\ OwnConn
    BY <1>2, <1>6, ResumeType DEF ResultInv
  <2> QED  BY <1>2, <1>3, <1>6, <2>1, SignedInSolo DEF Methods
<1>7. CASE /\ e.do = "signin" /\ e.ok /\ e.method = "Password" /\ KeychainWrites(SavePassword(disk, e.user))
           /\ stack' = Wait(Frame("persisted", e.user, "signin")) /\ posted' = <<>>
           /\ UNCHANGED <<window, oauth, requests, jobs>>
  <2>1. e # Resume /\ e.user = window.user /\ OwnConn /\ e.user \in Account
    BY <1>2, <1>7, ResumeType DEF ResultInv, PostedSet, ResultSet
  <2>2. \/ disk' = [disk EXCEPT !.passwords = disk.passwords \cup {e.user}] /\ damaged' = damaged
        \/ disk' = disk /\ damaged' = TRUE
    BY <1>7 DEF KeychainWrites, SavePassword
  <2>3. /\ disk'.tokens = disk.tokens /\ disk'.registry = disk.registry
        /\ disk.passwords \subseteq disk'.passwords
        /\ damaged' = TRUE \/ (damaged' = damaged /\ e.user \in disk'.passwords)
    BY <2>2 DEF Types, DiskSet
  <2>4. PICK f : f = Frame("persisted", e.user, "signin")
    OBVIOUS
  <2>5. f \in FrameSet /\ f.at = "persisted" /\ f.account = e.user
    BY <2>1, <2>4 DEF Frame, FrameSet
  <2>6. Held(f)'
    BY <1>2, <1>3, <1>7, <2>4, AppendToEmpty DEF Wait, Held
  <2>7. FrameInv(f)'
    BY <1>2, <1>7, <2>1, <2>3, <2>5 DEF FrameInv, OwnConn
  <2>8. Flight'
    BY <2>5, <2>6, <2>7 DEF Flight
  <2>9. Kept'
    <3> SUFFICES ASSUME ~damaged, damaged' = damaged
                 PROVE  /\ oauth.access # None => oauth.access \in DOMAIN disk.tokens
                        /\ \A k \in DOMAIN disk.registry : HasSecret(disk.registry[k])'
      BY <1>7, <2>3 DEF Kept
    <3>1. \A k \in DOMAIN disk.registry : HasSecret(disk.registry[k])
      BY <1>2 DEF Solo, Kept, Leaving
    <3> QED  BY <2>3, <3>1 DEF Solo, Kept, HasSecret
  <2> QED  BY <1>7, <2>3, <2>8, <2>9, IdentityKept, SecretsKept DEF Solo
<1> QED  BY <1>1, <1>2, <1>4, <1>5, <1>6, <1>7 DEF Deliver

LEMMA PersistedSolo ==
  ASSUME Types, Solo, Persisted
  PROVE  Solo'
<1>1. /\ Held(Top) /\ FrameInv(Top) /\ Below = <<>> /\ Top.at = "persisted" /\ ~At("purged")
      /\ UNCHANGED <<listening, requests, jobs, conn, posted, damaged>>
  <2>1. Top.at = "persisted"
    BY DEF Persisted, At
  <2> QED  BY <2>1, HeldFrame DEF Solo, Persisted, At, NoClick
<1>2. window.user = Top.account /\ OwnConn /\ (damaged \/ window.user \in disk.passwords)
  BY <1>1 DEF FrameInv
<1>3. SignedIn([window EXCEPT !.method = "Password"]) /\ stack' = <<>>
  BY <1>1 DEF Persisted
<1>4. requests' = <<>> /\ jobs' = <<>> /\ posted' = <<>> /\ ~listening'
  BY <1>1 DEF Held
<1> QED  BY <1>1, <1>2, <1>3, <1>4, SignedInSolo DEF Methods

LEMMA TopOf == ASSUME NEW f, stack' = <<f>> PROVE Top' = f /\ stack' # <<>>
<1>1. Len(<<f>>) = 1 /\ <<f>>[1] = f
  OBVIOUS
<1> QED  BY <1>1 DEF Top

(* The tokens of a disk are each one account's, under its own key.         *)
OwnTokens(d) == \A k \in DOMAIN d.tokens : \E a \in Account : d.tokens[k] = Secret(a) /\ (k \in Account => k = a)

LEMMA ReconnectFlight ==
  ASSUME NEW e \in EntrySet, NEW w \in WindowSet, NEW o \in OAuthSet, NEW d \in DiskSet, OwnTokens(d),
         Cleared(o) \/ \E a \in Account : o = Tokens(a),
         NEW do \in {"switch", "signOut", "start"}, ReconnectStoredAccount(e, w, o, d, <<>>, do),
         requests' = <<>>, jobs' = <<>>, posted' = <<>>, ~listening'
  PROVE  /\ Flight' /\ OneIdentity' /\ disk' = d /\ ~At("purged")'
         /\ oauth'.access # None => oauth'.access = o.access
<1>1. e.email \in Account /\ e.email # None /\ e.method \in Methods
  BY WhoFacts DEF EntrySet
<1>2. window'.user = e.email /\ disk' = d /\ oauth' \in OAuthSet
  BY <1>1, WhoFacts DEF ReconnectStoredAccount, WindowSet, ClearInMemorySession, OAuthSet
<1>3. e.method = "OAuth" => Cleared(oauth') /\ oauth'.scope = e.email
  BY DEF ReconnectStoredAccount, ClearInMemorySession, OAuthSet, Cleared
<1>4. e.method # "OAuth" => oauth' = o
  BY DEF ReconnectStoredAccount
<1>5. OneIdentity' /\ (oauth'.access # None => oauth'.access = o.access)
  BY <1>3, <1>4 DEF OneIdentity, TokensAre, Cleared
<1>6. PICK secret \in KeychainReads(IF e.method = "OAuth" THEN TokensOf(d, StorageKey(oauth')) ELSE PasswordOf(d, e.email)) :
        stack' = Append(<<>>, Frame("secret", e.email, [do |-> do, method |-> e.method, secret |-> secret]))
  BY DEF ReconnectStoredAccount
<1>7. PICK then : then = [do |-> do, method |-> e.method, secret |-> secret]
  OBVIOUS
<1>8. then.method = e.method /\ then.secret = secret
  BY <1>7
<1>9. PICK f : f = Frame("secret", e.email, then)
  OBVIOUS
<1>10. f \in FrameSet /\ secret \in {None, IF e.method = "OAuth" THEN TokensOf(d, StorageKey(oauth')) ELSE PasswordOf(d, e.email)}
  BY <1>2, <1>6, <1>7, <1>9, SecretFrame
<1>11. f.at = "secret" /\ f.account = e.email /\ f.then = then
  BY <1>9 DEF Frame
<1>12. ASSUME e.method = "OAuth", secret # None
       PROVE  secret = Secret(e.email) /\ e.email \in DOMAIN d.tokens
  <2>1. StorageKey(oauth') = e.email
    BY <1>1, <1>3, <1>12 DEF StorageKey
  <2>2. secret = TokensOf(d, e.email)
    BY <1>10, <1>12, <2>1
  <2>3. e.email \in DOMAIN d.tokens /\ secret = d.tokens[e.email]
    BY <1>12, <2>2 DEF TokensOf
  <2> QED  BY <1>1, <2>3 DEF OwnTokens
<1>13. Held(f)' /\ ~At("purged")'
  <2>1. stack' = <<f>>
    BY <1>6, <1>7, <1>9, AppendToEmpty
  <2> QED  BY <1>11, <2>1, TopOf DEF Held, At
<1>14. FrameInv(f)'
  <2> SUFFICES f.then.method = "OAuth" =>
                 /\ Cleared(oauth') /\ oauth'.scope = f.account
                 /\ f.then.secret # None => f.then.secret = Secret(f.account) /\ f.account \in DOMAIN disk'.tokens
    BY <1>2, <1>11 DEF FrameInv
  <2> QED  BY <1>2, <1>3, <1>8, <1>11, <1>12
<1>15. Flight'
  BY <1>10, <1>13, <1>14 DEF Flight
<1> QED  BY <1>2, <1>5, <1>13, <1>15

(* What is left of signing out: the account is gone from the registry, and *)
(* the first account left is reconnected.                                  *)
LEMMA UnregisterSolo ==
  ASSUME Types, Solo, NEW a, NEW w \in WindowSet, NEW o \in OAuthSet, Cleared(o) \/ o = oauth,
         At("purged") => a = Top.account, Unregister(a, w, o, disk, <<>>),
         damaged' = damaged, requests' = <<>>, jobs' = <<>>, posted' = <<>>, ~listening'
  PROVE  Solo'
<1> DEFINE gone == [disk EXCEPT !.registry = Removed(@, a), !.active = IF @ = a THEN None ELSE @]
<1>1. /\ gone \in DiskSet /\ gone.registry = Removed(disk.registry, a)
      /\ gone.tokens = disk.tokens /\ gone.passwords = disk.passwords
      /\ gone.registry # <<>> => /\ Head(gone.registry) \in EntrySet
                                 /\ [gone EXCEPT !.active = Head(gone.registry).email] \in DiskSet
  BY GoneProperties DEF Types
<1>2. \/ gone.registry = <<>> /\ window' = LoginPage(w) /\ oauth' = o /\ disk' = gone /\ stack' = <<>>
      \/ /\ gone.registry # <<>>
         /\ ReconnectStoredAccount(Head(gone.registry), w, o,
              [gone EXCEPT !.active = Head(gone.registry).email], <<>>, "signOut")
  BY DEF Unregister
<1> HIDE DEF gone
<1>3. Cleared(o) \/ \E b \in Account : o = Tokens(b)
  BY DEF Solo, OneIdentity, TokensAre
<1>4. /\ Flight' /\ OneIdentity' /\ ~At("purged")'
      /\ disk'.tokens = disk.tokens /\ disk'.passwords = disk.passwords /\ disk'.registry = gone.registry
      /\ oauth'.access # None => oauth'.access = o.access
  <2>1. CASE window' = LoginPage(w) /\ oauth' = o /\ disk' = gone /\ stack' = <<>>
    <3>1. window'.page = "login"
      BY <2>1 DEF LoginPage, WindowSet
    <3>2. Resting'
      BY <2>1, <3>1 DEF Resting, Working
    <3> QED  BY <1>1, <1>3, <2>1, <3>2 DEF Flight, OneIdentity, TokensAre, At
  <2>2. CASE gone.registry # <<>>
             /\ ReconnectStoredAccount(Head(gone.registry), w, o,
                  [gone EXCEPT !.active = Head(gone.registry).email], <<>>, "signOut")
    <3>1. PICK d \in DiskSet : d = [gone EXCEPT !.active = Head(gone.registry).email]
      BY <1>1, <2>2
    <3>2. d.tokens = disk.tokens /\ d.passwords = disk.passwords /\ d.registry = gone.registry
      BY <1>1, <3>1 DEF DiskSet
    <3>3. OwnTokens(d)
      BY <3>2 DEF OwnTokens, Solo, OwnSecrets
    <3>4. PICK e \in EntrySet : e = Head(gone.registry)
      BY <1>1, <2>2
    <3>5. ReconnectStoredAccount(e, w, o, d, <<>>, "signOut")
      BY <2>2, <3>1, <3>4
    <3>6. /\ Flight' /\ OneIdentity' /\ disk' = d /\ ~At("purged")'
          /\ oauth'.access # None => oauth'.access = o.access
      BY <1>3, <3>3, <3>5, ReconnectFlight
    <3> QED  BY <3>2, <3>6
  <2> QED  BY <1>2, <2>1, <2>2
<1>5. Kept'
  <2> SUFFICES ASSUME ~damaged
               PROVE  /\ oauth'.access # None => oauth'.access \in DOMAIN disk.tokens
                      /\ \A k \in DOMAIN gone.registry : HasSecret(gone.registry[k])
    BY <1>4 DEF Kept, HasSecret
  <2>1. oauth'.access # None => oauth'.access = oauth.access
    BY <1>4 DEF Cleared
  <2>2. oauth'.access # None => oauth'.access \in DOMAIN disk.tokens
    BY <2>1 DEF Solo, Kept
  <2>3. ASSUME NEW k \in DOMAIN gone.registry PROVE HasSecret(gone.registry[k])
    <3>1. disk.registry \in Registry
      BY DEF Types, DiskSet
    <3>2. gone.registry[k].email # a /\ \E i \in DOMAIN disk.registry : gone.registry[k] = disk.registry[i]
      BY <1>1, <2>3, <3>1, RemovedProperties
    <3>3. PICK i \in DOMAIN disk.registry : gone.registry[k] = disk.registry[i] /\ disk.registry[i].email # a
      BY <3>2
    <3>4. HasSecret(disk.registry[i]) \/ Leaving(disk.registry[i].email)
      BY DEF Solo, Kept
    <3> QED  BY <3>3, <3>4 DEF Leaving
  <2> QED  BY <2>2, <2>3
<1> QED  BY <1>4, <1>5, SecretsKept DEF Solo

LEMMA PurgedSolo ==
  ASSUME Types, Solo, Purged
  PROVE  Solo'
<1>1. Held(Top) /\ Below = <<>> /\ Top.at = "purged"
  <2>1. Top.at = "purged"
    BY DEF Purged, At
  <2> QED  BY <2>1, HeldFrame DEF Solo, Purged, At
<1>2. /\ requests' = <<>> /\ jobs' = <<>> /\ posted' = <<>> /\ ~listening' /\ damaged' = damaged
      /\ Unregister(Top.account, window, oauth, disk, <<>>)
  BY <1>1 DEF Held, Purged, NoClick
<1>3. window \in WindowSet /\ oauth \in OAuthSet
  BY DEF Types
<1>4. PICK a : a = Top.account
  OBVIOUS
<1> QED  BY <1>2, <1>3, <1>4, UnregisterSolo

LEMMA TornDownSolo ==
  ASSUME Types, Solo, TornDown
  PROVE  Solo'
<1>1. Held(Top) /\ Below = <<>> /\ Top.at = "tornDown" /\ Top \in FrameSet /\ ~At("purged")
  <2>1. Top.at = "tornDown"
    BY DEF TornDown, At
  <2> QED  BY <2>1, HeldFrame DEF Solo, TornDown, At
<1>2. requests' = <<>> /\ jobs' = <<>> /\ posted' = <<>> /\ ~listening'
  BY <1>1 DEF Held, TornDown
<1>3. Top.account \in Who /\ Top.then \in TearSet
  BY <1>1 DEF FrameSet
<1> DEFINE w == ResetIdentity(window)
           o == ClearInMemorySession(oauth)
<1>4. w \in WindowSet /\ o \in OAuthSet /\ Cleared(o)
  BY WhoFacts DEF ResetIdentity, WindowSet, ClearInMemorySession, OAuthSet, Types, Cleared
<1>5. \/ window' = LoginPage(w) /\ oauth' = o /\ stack' = <<>> /\ UNCHANGED <<disk, damaged>>
      \/ /\ Top.then.do = "switch" /\ UNCHANGED damaged
         /\ ReconnectStoredAccount(Top.then.to, w, o, [disk EXCEPT !.active = Top.then.to.email], <<>>, "switch")
      \/ Unregister(Top.account, w, o, disk, <<>>) /\ UNCHANGED damaged
      \/ /\ Top.account # None /\ window' = w
         /\ oauth' = (IF Top.then.method = "OAuth" THEN [o EXCEPT !.scope = Top.account] ELSE o)
         /\ KeychainWrites(IF Top.then.method = "OAuth" THEN Clear(Top.account) ELSE RemovePassword(disk, Top.account))
         /\ stack' = Append(<<>>, Frame("purged", Top.account, o.refresh))
  BY <1>1 DEF TornDown
<1> HIDE DEF w, o
<1>6. CASE window' = LoginPage(w) /\ oauth' = o /\ stack' = <<>> /\ UNCHANGED <<disk, damaged>>
  <2>1. window'.page = "login"
    BY <1>4, <1>6 DEF LoginPage, WindowSet
  <2>2. Resting'
    BY <1>2, <1>6, <2>1 DEF Resting, Working
  <2>3. OneIdentity' /\ Flight' /\ OwnSecrets'
    BY <1>4, <1>6, <2>2, SecretsKept DEF Flight, OneIdentity, Solo
  <2>4. Kept'
    BY <1>1, <1>4, <1>6, KeptSame DEF Solo, Cleared
  <2> QED  BY <2>3, <2>4 DEF Solo
<1>7. CASE /\ Top.then.do = "switch" /\ UNCHANGED damaged
           /\ ReconnectStoredAccount(Top.then.to, w, o, [disk EXCEPT !.active = Top.then.to.email], <<>>, "switch")
  <2>1. PICK e \in EntrySet : e = Top.then.to
    BY <1>3, <1>7 DEF TearSet
  <2>2. PICK d : d = [disk EXCEPT !.active = e.email]
    OBVIOUS
  <2>3. d \in DiskSet /\ d.tokens = disk.tokens /\ d.passwords = disk.passwords /\ d.registry = disk.registry
    BY <2>1, <2>2, WhoFacts DEF Types, DiskSet, EntrySet
  <2>4. OwnTokens(d)
    BY <2>3 DEF OwnTokens, Solo, OwnSecrets
  <2>5. ReconnectStoredAccount(e, w, o, d, <<>>, "switch")
    BY <1>7, <2>1, <2>2
  <2>6. /\ Flight' /\ OneIdentity' /\ disk' = d
        /\ oauth'.access # None => oauth'.access = o.access
    BY <1>2, <1>4, <2>3, <2>4, <2>5, ReconnectFlight
  <2>7. Kept'
    BY <1>1, <1>4, <1>7, <2>3, <2>6, KeptSame DEF Solo, Cleared
  <2> QED  BY <2>3, <2>6, <2>7, SecretsKept DEF Solo
<1>8. CASE Unregister(Top.account, w, o, disk, <<>>) /\ UNCHANGED damaged
  <2>1. PICK a : a = Top.account
    OBVIOUS
  <2> QED  BY <1>1, <1>2, <1>4, <1>8, <2>1, UnregisterSolo
<1>9. CASE /\ Top.account # None /\ window' = w
           /\ oauth' = (IF Top.then.method = "OAuth" THEN [o EXCEPT !.scope = Top.account] ELSE o)
           /\ KeychainWrites(IF Top.then.method = "OAuth" THEN Clear(Top.account) ELSE RemovePassword(disk, Top.account))
           /\ stack' = Append(<<>>, Frame("purged", Top.account, o.refresh))
  <2>1. PICK a \in Account : a = Top.account
    BY <1>3, <1>9, WhoFacts
  <2>2. Cleared(oauth') /\ oauth'.access = None
    BY <1>4, <1>9 DEF Cleared, OAuthSet
  <2>3. PICK f : f = Frame("purged", a, o.refresh)
    OBVIOUS
  <2>4. f \in FrameSet /\ f.at = "purged" /\ f.account = a
    BY <1>4, <2>3 DEF Frame, FrameSet, OAuthSet
  <2>5. stack' = <<f>>
    BY <1>9, <2>1, <2>3, AppendToEmpty
  <2>6. Held(f)' /\ FrameInv(f)'
    BY <1>2, <2>4, <2>5 DEF Held, FrameInv
  <2>7. Flight' /\ OneIdentity'
    BY <2>2, <2>4, <2>6 DEF Flight, OneIdentity
  <2>8. disk \in DiskSet
    BY DEF Types
  <2>9. \/ disk' = Clear(a) /\ damaged' = damaged
        \/ disk' = RemovePassword(disk, a) /\ damaged' = damaged
        \/ disk' = disk /\ damaged' = TRUE
    BY <1>9, <2>1 DEF KeychainWrites
  <2>10. /\ disk'.registry = disk.registry
         /\ DOMAIN disk'.tokens \subseteq DOMAIN disk.tokens
         /\ \A k \in DOMAIN disk'.tokens : disk'.tokens[k] = disk.tokens[k]
         /\ \A b \in Account \ {a} : (b \in DOMAIN disk.tokens => b \in DOMAIN disk'.tokens)
                                     /\ (b \in disk.passwords => b \in disk'.passwords)
    <3>1. CASE disk' = Clear(a)
      BY <2>8, <3>1, ClearProperties
    <3>2. CASE disk' = RemovePassword(disk, a)
      BY <2>8, <3>2 DEF RemovePassword, DiskSet
    <3>3. CASE disk' = disk
      BY <3>3
    <3> QED  BY <2>9, <3>1, <3>2, <3>3
  <2>11. OwnSecrets'
    BY <2>10 DEF Solo, OwnSecrets
  <2>12. Kept'
    <3> SUFFICES ASSUME ~damaged, NEW i \in DOMAIN disk.registry
                 PROVE  HasSecret(disk.registry[i])' \/ disk.registry[i].email = a
      <4>1. \A b : b = a => Leaving(b)'
        BY <2>4, <2>5, TopOf DEF Leaving, At
      <4>2. ~damaged' => ~damaged
        BY <2>9
      <4> QED  BY <2>2, <2>10, <4>1, <4>2 DEF Kept
    <3>1. disk.registry[i] \in EntrySet
      BY <2>8 DEF DiskSet, Registry
    <3>2. disk.registry[i].email \in Account
      BY <3>1 DEF EntrySet
    <3>3. HasSecret(disk.registry[i])
      BY <1>1 DEF Solo, Kept, Leaving
    <3> QED  BY <2>10, <3>2, <3>3 DEF HasSecret
  <2> QED  BY <2>7, <2>11, <2>12 DEF Solo
<1> QED  BY <1>5, <1>6, <1>7, <1>8, <1>9

LEMMA SecretReadSolo ==
  ASSUME Types, Solo, SecretRead
  PROVE  Solo'
<1>1. Held(Top) /\ FrameInv(Top) /\ Top \in FrameSet /\ Below = <<>> /\ Top.at = "secret" /\ ~At("purged")
  <2>1. Top.at = "secret"
    BY DEF SecretRead, At
  <2> QED  BY <2>1, HeldFrame DEF Solo, SecretRead, At
<1>2. /\ requests' = <<>> /\ jobs = <<>> /\ posted = <<>> /\ ~listening' /\ stack' = <<>>
      /\ UNCHANGED <<conn, damaged>>
  BY <1>1 DEF Held, SecretRead, NoClick
<1>3. /\ Top.account \in Account /\ Top.then \in SecretSet /\ Top.account = window.user
      /\ Top.then.secret \in (IF Top.then.method = "OAuth" THEN BlobSet \cup {None} ELSE Who)
  BY <1>1 DEF FrameSet, FrameInv
<1> DEFINE started == window.page = "start"
           shown == IF started THEN LoginPage(window) ELSE window
<1>4. shown \in WindowSet /\ shown.page # "start" /\ shown.user = window.user /\ LoginPage(window).page = "login"
  BY DEF Types, LoginPage, WindowSet
<1>5. \/ /\ window' = LoginPage(window)
         /\ disk' = (IF started THEN disk ELSE [disk EXCEPT !.active = None])
         /\ oauth' = (IF Top.then.secret = None THEN oauth ELSE Load(Top.then.secret, oauth))
         /\ Top.then.secret = None \/ MayBeExpired(Top.then)
         /\ UNCHANGED <<jobs, posted>>
      \/ /\ Top.then.secret # None /\ Top.then.method = "OAuth" /\ window' = shown
         /\ oauth' = Load(Top.then.secret, oauth) /\ posted' = <<Resume>> /\ UNCHANGED <<disk, jobs>>
      \/ /\ Top.then.secret # None /\ Top.then.method = "Password" /\ window' = [shown EXCEPT !.enabled = started]
         /\ jobs' = (IF started THEN jobs
                     ELSE Append(<<>>, Job("signin", Top.account, Top.then.secret, "Password")))
         /\ UNCHANGED <<oauth, disk, posted>>
  BY <1>2, AppendToEmpty DEF SecretRead
<1> HIDE DEF shown, started
<1>0. ~MayBeExpired(Top.then)
  <2>1. ASSUME Top.then.method = "OAuth", Top.then.secret # None
        PROVE  Top.then.secret = Secret(Top.account) /\ Top.account # None
    BY <1>1, <1>3, <2>1, WhoFacts DEF FrameInv
  <2>2. Secret(Top.account).refresh = Top.account
    BY DEF Secret
  <2> QED  BY <2>1, <2>2 DEF MayBeExpired, Stale
<1>6. CASE /\ window' = LoginPage(window)
           /\ disk' = (IF started THEN disk ELSE [disk EXCEPT !.active = None])
           /\ UNCHANGED <<oauth, jobs, posted>>
  <2>1. disk'.tokens = disk.tokens /\ disk'.passwords = disk.passwords /\ disk'.registry = disk.registry
    BY <1>6 DEF Types, DiskSet
  <2>2. Resting'
    BY <1>2, <1>4, <1>6 DEF Resting, Working
  <2>3. Flight'
    BY <2>2 DEF Flight
  <2> QED  BY <1>1, <1>2, <1>6, <2>1, <2>3, SoloSame
<1>7. CASE /\ Top.then.secret # None /\ Top.then.method = "OAuth" /\ window' = shown
           /\ oauth' = Load(Top.then.secret, oauth) /\ posted' = <<Resume>> /\ UNCHANGED <<disk, jobs>>
  <2>1. PICK a \in Account : a = Top.account
    BY <1>3
  <2>2. Top.then.secret = Secret(a) /\ oauth.scope = a /\ a \in DOMAIN disk.tokens
    BY <1>1, <1>7, <2>1 DEF FrameInv
  <2>3. oauth' = Tokens(a)
    <3>1. Secret(a) \in BlobOf /\ oauth \in OAuthSet
      BY SecretTypes DEF BlobSet, Types
    <3>2. Load(Secret(a), oauth) = Tokens(a)
      BY <2>2, <3>1, LoadProperties
    <3> QED  BY <1>7, <2>2, <3>2
  <2>4. oauth'.access = a /\ a # None /\ OneIdentity'
    BY <2>3, WhoFacts DEF Tokens, OneIdentity, TokensAre
  <2>5. Told(Resume)'
    BY <1>2, <1>7 DEF Told
  <2>6. ResultInv(Resume)'
    BY <1>4, <1>7, <2>4 DEF ResultInv
  <2>7. Flight'
    BY <2>5, <2>6, ResumeType DEF Flight
  <2>8. Kept'
    <3> SUFFICES ASSUME ~damaged
                 PROVE  \A i \in DOMAIN disk.registry : HasSecret(disk.registry[i])
      BY <1>2, <1>7, <2>2, <2>4 DEF Kept, HasSecret
    <3> QED  BY <1>1 DEF Solo, Kept, Leaving
  <2> QED  BY <1>7, <2>4, <2>7, <2>8, SecretsKept DEF Solo
<1>8. CASE /\ Top.then.secret # None /\ Top.then.method = "Password" /\ window' = [shown EXCEPT !.enabled = started]
           /\ jobs' = (IF started THEN jobs
                       ELSE Append(<<>>, Job("signin", Top.account, Top.then.secret, "Password")))
           /\ UNCHANGED <<oauth, disk, posted>>
  <2>1. window'.page = shown.page /\ window'.user = window.user
    BY <1>4, <1>8 DEF WindowSet
  <2>2. CASE started
    <3>1. window'.page = "login" /\ jobs' = <<>>
      BY <1>2, <1>4, <1>8, <2>1, <2>2 DEF shown
    <3>2. Resting'
      BY <1>2, <1>8, <3>1 DEF Resting, Working
    <3>3. Flight'
      BY <3>2 DEF Flight
    <3> QED  BY <1>1, <1>2, <1>8, <3>3, SoloSame
  <2>3. CASE ~started
    <3>1. PICK j : j = Job("signin", Top.account, Top.then.secret, "Password")
      OBVIOUS
    <3>2. Top.then.secret \in Who
      BY <1>3, <1>8
    <3>3. j \in JobSet /\ j.kind = "signin" /\ j.user = window.user /\ j.method = "Password" /\ j.todo = Script[j.kind]
      BY <1>3, <3>1, <3>2, JobType, JobFacts, WhoFacts DEF Kinds, Methods
    <3>4. Runs(j)'
      BY <1>2, <1>8, <2>3, <3>1, AppendToEmpty DEF Runs
    <3>5. Flight'
      BY <1>4, <2>1, <3>3, <3>4, JobBegins
    <3> QED  BY <1>1, <1>2, <1>8, <3>5, SoloSame
  <2> QED  BY <2>2, <2>3
<1> QED  BY <1>0, <1>5, <1>6, <1>7, <1>8

LEMMA StartSolo ==
  ASSUME Types, Solo, Start
  PROVE  Solo'
<1>1. /\ window.page = "start" /\ stack = <<>> /\ requests = <<>> /\ jobs = <<>> /\ posted = <<>> /\ ~listening
      /\ ~At("purged")
  BY DEF Start, Solo, Flight, Resting, Working, Asked, RequestInv, Runs, JobInv, Told, ResultInv, Held, At
<1>2. /\ requests' = <<>> /\ jobs' = <<>> /\ posted' = <<>> /\ ~listening' /\ UNCHANGED conn
      /\ window \in WindowSet /\ oauth \in OAuthSet /\ disk \in DiskSet
  BY <1>1 DEF Start, Types
<1>3. Cleared(oauth) \/ \E a \in Account : oauth = Tokens(a)
  BY DEF Solo, OneIdentity, TokensAre
<1>4. CASE disk.registry # <<>> /\ ReconnectStoredAccount(ResumeTarget, window, oauth, disk, <<>>, "start") /\ UNCHANGED damaged
  <2>1. PICK e \in EntrySet : e = ResumeTarget
    BY <1>2, <1>4, ResumeTargetType
  <2>2. OwnTokens(disk)
    BY DEF OwnTokens, Solo, OwnSecrets
  <2>3. ReconnectStoredAccount(e, window, oauth, disk, <<>>, "start")
    BY <1>4, <2>1
  <2>4. Flight' /\ OneIdentity' /\ disk' = disk /\ (oauth'.access # None => oauth'.access = oauth.access)
    BY <1>2, <1>3, <2>2, <2>3, ReconnectFlight
  <2>5. Kept'
    BY <1>1, <1>4, <2>4, KeptSame DEF Solo
  <2> QED  BY <2>4, <2>5, SecretsKept DEF Solo
<1>5. CASE window' = LoginPage(window) /\ UNCHANGED <<oauth, disk, stack, damaged>>
  <2>1. window'.page = "login"
    BY <1>2, <1>5 DEF LoginPage, WindowSet
  <2>2. Resting'
    BY <1>1, <1>2, <1>5, <2>1 DEF Resting, Working
  <2>3. Flight'
    BY <2>2 DEF Flight
  <2> QED  BY <1>1, <1>5, <2>3, SoloSame
<1>6. ASSUME Legacy \in DOMAIN disk.tokens
      PROVE  \E a \in Account : /\ disk.tokens[Legacy] = Secret(a) /\ disk.tokens[Legacy].email = a /\ a # None
                                /\ ~Stale(disk.tokens[Legacy])
  <2>1. PICK a \in Account : disk.tokens[Legacy] = Secret(a)
    BY <1>6 DEF Solo, OwnSecrets
  <2>2. Secret(a).email = a /\ a # None /\ ~Stale(Secret(a))
    BY WhoFacts DEF Secret, Stale
  <2> QED  BY <2>1, <2>2
<1>7. ASSUME NEW a \in Account, window' = [window EXCEPT !.user = a],
             SaveTokens(Load(Secret(a), [oauth EXCEPT !.scope = a]), "migrated", "signin")
      PROVE  Solo'
  <2>1. PICK o : o = [oauth EXCEPT !.scope = a]
    OBVIOUS
  <2>2. o \in OAuthSet /\ o.scope = a /\ Secret(a) \in BlobOf
    BY <1>2, <2>1, WhoFacts, SecretTypes DEF OAuthSet, BlobSet
  <2>3. Load(Secret(a), o) = Tokens(a)
    BY <2>2, LoadProperties
  <2>4. SaveTokens(Tokens(a), "migrated", "signin")
    BY <1>7, <2>1, <2>3
  <2>5. oauth' = Tokens(a) /\ OneIdentity' /\ OwnSecrets' /\ Kept'
    BY <1>1, <2>4, SaveSolo DEF Solo
  <2>6. PICK f : f = Frame("migrated", None, "signin")
    OBVIOUS
  <2>7. f \in FrameSet /\ f.at = "migrated"
    BY <2>6 DEF Frame, FrameSet
  <2>8. Held(f)'
    BY <1>1, <1>2, <2>4, <2>6, AppendToEmpty DEF SaveTokens, Wait, Held
  <2>9. oauth'.access # None
    BY <2>5, WhoFacts DEF Tokens
  <2>10. FrameInv(f)'
    BY <2>7, <2>9 DEF FrameInv
  <2> QED  BY <2>5, <2>7, <2>8, <2>10 DEF Solo, Flight
<1>8. CASE /\ Legacy \in DOMAIN disk.tokens /\ disk.tokens[Legacy].email # None
           /\ window' = [window EXCEPT !.user = disk.tokens[Legacy].email]
           /\ SaveTokens(Load(disk.tokens[Legacy], [oauth EXCEPT !.scope = disk.tokens[Legacy].email]), "migrated", "signin")
  <2>1. PICK a \in Account : disk.tokens[Legacy] = Secret(a) /\ disk.tokens[Legacy].email = a
    BY <1>6, <1>8
  <2>2. window' = [window EXCEPT !.user = a] /\ SaveTokens(Load(Secret(a), [oauth EXCEPT !.scope = a]), "migrated", "signin")
    BY <1>8, <2>1
  <2> QED  BY <1>7, <2>2
<1>9. CASE /\ Legacy \in DOMAIN disk.tokens
           /\ disk.tokens[Legacy].email = None \/ Stale(disk.tokens[Legacy])
  BY <1>6, <1>9
<1> QED  BY <1>1, <1>4, <1>5, <1>8, <1>9 DEF Start

LEMMA MigratedSolo ==
  ASSUME Types, Solo, Migrated
  PROVE  Solo'
<1>1. Held(Top) /\ FrameInv(Top) /\ Below = <<>> /\ Top.at = "migrated" /\ ~At("purged")
  <2>1. Top.at = "migrated"
    BY DEF Migrated, At
  <2> QED  BY <2>1, HeldFrame DEF Solo, Migrated, At
<1>2. oauth.access # None
  BY <1>1 DEF FrameInv
<1>3. Told(Resume)'
  BY <1>1, AppendToEmpty DEF Held, Told, Migrated
<1>4. ResultInv(Resume)'
  BY <1>2 DEF ResultInv, Migrated, LoginPage, Types, WindowSet
<1>5. Flight'
  BY <1>3, <1>4, ResumeType DEF Flight
<1> QED  BY <1>1, <1>5, SoloSame DEF Migrated, NoClick

LEMMA CrashSolo ==
  ASSUME Types, Solo, Crash
  PROVE  Solo'
<1>1. Resting'
  BY DEF Crash, Resting, Working, NewWindow
<1>2. OneIdentity'
  BY DEF Crash, NewOAuth, OneIdentity, Cleared
<1> QED  BY <1>1, <1>2, SecretsKept DEF Solo, Crash, Kept, Flight

LEMMA SoloInit ==
  ASSUME Init
  PROVE  Solo
<1>1. OneIdentity /\ Flight /\ oauth.access = None
  BY DEF Init, NewOAuth, NewWindow, OneIdentity, Cleared, Flight, Resting, Working
<1>2. CASE disk = NewDisk
  BY <1>1, <1>2 DEF NewDisk, Solo, OwnSecrets, Kept
<1>3. ASSUME NEW a \in Account, disk = LegacyDisk(a) PROVE Solo
  <2>1. disk.tokens = [k \in {Legacy} |-> Secret(a)] /\ disk.registry = <<>>
    BY <1>3 DEF LegacyDisk, NewDisk
  <2>2. OwnSecrets
    BY <2>1, NoneAssumption DEF OwnSecrets
  <2> QED  BY <1>1, <2>1, <2>2 DEF Solo, Kept
<1>4. ASSUME NEW r \in Registries, disk = UsedDisk(r) PROVE Solo
  <2>1. /\ disk.tokens = [a \in With(r, "OAuth") |-> Secret(a)] /\ disk.passwords = With(r, "Password")
        /\ disk.registry = r
    BY <1>4 DEF UsedDisk
  <2>2. \A i \in DOMAIN r : r[i] \in EntrySet /\ r[i] \in ToSet(r)
    BY RegistriesTypes DEF ToSet
  <2>3. With(r, "OAuth") \subseteq Account
    BY <2>2 DEF With, ToSet, EntrySet
  <2>4. OwnSecrets
    BY <2>1, <2>3 DEF OwnSecrets
  <2>5. \A i \in DOMAIN r : r[i].email \in With(r, r[i].method)
    BY <2>2 DEF With
  <2>6. \A i \in DOMAIN r : r[i].method = "OAuth" \/ r[i].method = "Password"
    BY <2>2 DEF EntrySet, Methods
  <2>7. \A i \in DOMAIN disk.registry : HasSecret(disk.registry[i])
    BY <2>1, <2>5, <2>6 DEF HasSecret
  <2> QED  BY <1>1, <2>4, <2>7 DEF Solo, Kept
<1> QED  BY <1>2, <1>3, <1>4 DEF Init

-----------------------------------------------------------------------------
(* The inductive invariant.                                                *)
LEMMA IInvInit == Init => IInv
BY TypesInit, SoloInit DEF IInv

LEMMA IInvStep == IInv /\ [Next]_vars => IInv'
<1> SUFFICES ASSUME IInv, [Next]_vars PROVE IInv'
  OBVIOUS
<1>1. Types /\ Types'
  BY TypesStep DEF IInv
<1> SUFFICES ASSUME overlaps' = 0 PROVE Solo'
  BY <1>1 DEF IInv
<1>2. CASE UNCHANGED vars
  BY <1>2 DEF IInv, vars, Solo, OneIdentity, Cleared, TokensAre, OwnSecrets, Flight, Resting, Working, OwnConn,
     Asked, RequestInv, Signing, Runs, JobInv, Told, ResultInv, Held, FrameInv, Kept, HasSecret, Leaving, At, Top
<1>3. CASE UserActs
  BY <1>1, <1>3, UserSolo DEF IInv
<1>4. CASE BrowserReturns
  BY <1>1, <1>4, BrowserSolo DEF IInv
<1>5. CASE ProgramActs
  <2>1. overlaps = 0
    BY <1>5 DEF ProgramActs, Deliver, TokensSaved, Persisted, TornDown, Purged, SecretRead, Start, Migrated, NoClick
  <2> QED  BY <1>1, <1>5, <2>1, DeliverSolo, TokensSavedSolo, PersistedSolo, TornDownSolo, PurgedSolo, SecretReadSolo,
           StartSolo, MigratedSolo DEF ProgramActs, IInv
<1>6. CASE Reply
  <2>1. PICK i \in DOMAIN requests : Exchanged(i) \/ Refreshed(i) \/ RequestFailed(i)
    BY <1>6 DEF Reply
  <2>2. overlaps = 0
    BY <2>1 DEF Exchanged, Refreshed, RequestFailed, NoClick
  <2> QED  BY <1>1, <2>1, <2>2, ReplySolo DEF IInv
<1>7. CASE Crash
  BY <1>1, <1>7, CrashSolo DEF IInv, Crash
<1>8. CASE \E i \in DOMAIN jobs : JobStep(i) \/ GoesSilent(i)
  <2>1. PICK i \in DOMAIN jobs : JobStep(i) \/ GoesSilent(i)
    BY <1>8
  <2> QED  BY <1>1, <2>1, JobStepSolo, GoesSilentSolo DEF IInv, JobStep, GoesSilent, NoClick
<1> QED  BY <1>2, <1>3, <1>4, <1>5, <1>6, <1>7, <1>8 DEF Next

(* OAuthManager and TokenStorage, for users who let one thing end before   *)
(* they begin the next: whatever accounts they sign in, switch to, refresh *)
(* and sign out of, and across crashes, what is stored under the key of an *)
(* account are that account's tokens.                                      *)
THEOREM TokensApartTheorem == Spec => []TokensApart
<1>1. IInv => TokensApart
  <2> SUFFICES ASSUME Solo, NEW a \in Account \cap DOMAIN disk.tokens
               PROVE  disk.tokens[a].access = a
    BY DEF IInv, TokensApart, TokensNeverMix
  <2>1. disk.tokens[a] = Secret(a)
    BY DEF Solo, OwnSecrets
  <2> QED  BY <2>1 DEF Secret
<1> QED  BY <1>1, IInvInit, IInvStep, PTL DEF Spec

(* SessionCoordinator, for the same users: when no handler is suspended,   *)
(* each account of the registry has the secret its method needs, unless    *)
(* the keychain refused a write or the program was cut short.              *)
THEOREM ResumableTheorem == Spec => []Resumable
<1>1. IInv => Resumable
  BY DEF IInv, Solo, Kept, HasSecret, Leaving, At, Resumable
<1> QED  BY <1>1, IInvInit, IInvStep, PTL DEF Spec

(* MainWindow, for the same users, while no refresh of a token fails: when *)
(* the main page is shown and nothing is under way, neither connection is  *)
(* another account's.                                                      *)
THEOREM OwnMailTheorem ==
  ASSUME "refresh" \notin Faults
  PROVE  Spec => []OwnMail
<1>1. IInv => OwnMail
  BY RestingIsAll DEF IInv, Solo, Busy, Resting, OwnConn, OwnMail, Clients
<1> QED  BY <1>1, IInvInit, IInvStep, PTL DEF Spec
=============================================================================
