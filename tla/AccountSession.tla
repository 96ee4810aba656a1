-------------------------- MODULE AccountSession --------------------------
(* Who is signed in. MainWindow, SessionCoordinator, OAuthManager and the  *)
(* stores of accounts and secrets on the Qt thread; token requests over    *)
(* HTTP; sign-ins and sends as coroutines of the io_context thread, on one *)
(* IMAP and one SMTP client. Every access to a secret waits for the        *)
(* keychain in a nested event loop, in which any other handler may run:    *)
(* `stack' holds the handlers so suspended. The program may crash anywhere *)
(* and is then started again.                                              *)
(*                                                                         *)
(* A token or a secret is the account it belongs to. OAuth is configured,  *)
(* and the id_token of an exchange names the account.                      *)
EXTENDS Naturals, FiniteSets, SequencesExt

CONSTANTS
  Account,
  None,        \* no account, no token, the empty string
  Legacy,      \* the storage key of installations with a single account
  MaxClicks,   \* bound on what the user does, and on crashes
  MaxOverlaps, \* bound on what is begun before the last is over
  Faults       \* what may go wrong: "exchange", "refresh", "server", "keychain",
               \* "silent"

ASSUME NoneAssumption == None \notin Account /\ Legacy \notin Account /\ Legacy # None
ASSUME AccountAssumption ==
  IsFiniteSet(Account) /\ Account # {} /\ Account \cap {"closed", "open", "silent"} = {}
ASSUME BoundsAssumption == {MaxClicks, MaxOverlaps} \subseteq Nat

VARIABLES
  window,     \* m_currentUser, m_currentAuthMethod, the page, setUIEnabled;
              \* page "start": the constructor of MainWindow runs
  oauth,      \* OAuthManager: tokens_, user_email_, the key of token_storage_
  disk,       \* what survives: tokens, passwords, registry, active account
  listening,  \* the redirect server waits for the browser
  requests,   \* HTTP requests to the token endpoint
  jobs,       \* coroutines that sign in or send
  conn,       \* each client's connection: "closed", "open", "silent" in the
              \* middle of the TLS handshake, or whose it is
  posted,     \* what the coroutines have queued for the Qt thread
  stack,      \* suspended handlers, the innermost last
  clicks,
  damaged,    \* history: the keychain failed, or the program crashed
  overlaps    \* history: how often something began before the last was over

vars == <<window, oauth, disk, listening, requests, jobs, conn, posted, stack,
          clicks, damaged, overlaps>>

-----------------------------------------------------------------------------
(* AccountRegistry: a list with one entry for each e-mail address.         *)
Entry(a, method) == [email |-> a, method |-> method]
Find(registry, a) == {i \in DOMAIN registry : registry[i].email = a}
Upsert(registry, e) ==
  IF Find(registry, e.email) = {} THEN Append(registry, e)
  ELSE [i \in DOMAIN registry |-> IF registry[i].email = e.email THEN e ELSE registry[i]]
Removed(registry, a) ==
  IF Find(registry, a) = {} THEN registry
  ELSE RemoveAt(registry, CHOOSE i \in Find(registry, a) : TRUE)

(* TokenStorage: one blob for each account key, and the legacy one.        *)
Blob(o) == [access |-> o.access, refresh |-> o.refresh, email |-> o.email]
StorageKey(o) == IF o.scope = None THEN Legacy ELSE o.scope
Store(key, blob) ==
  [disk EXCEPT !.tokens = [k \in DOMAIN @ \cup {key} |-> IF k = key THEN blob ELSE @[k]]]
Load(blob, o) ==
  [o EXCEPT !.access = blob.access, !.refresh = blob.refresh, !.email = blob.email]
Clear(key) == [disk EXCEPT !.tokens = Restrict(@, DOMAIN @ \ {key})]

(* PasswordCredentialsStorage, over the keychain as well.                  *)
SavePassword(d, a) == [d EXCEPT !.passwords = @ \cup {a}]
RemovePassword(d, a) == [d EXCEPT !.passwords = @ \ {a}]
PasswordOf(d, a) == IF a \in d.passwords THEN a ELSE None
TokensOf(d, key) == IF key \in DOMAIN d.tokens THEN d.tokens[key] ELSE None

ResetIdentity(w) == [w EXCEPT !.user = None, !.method = "None"]
ClearInMemorySession(o) == [o EXCEPT !.access = None, !.refresh = None, !.email = None]

-----------------------------------------------------------------------------
Working == jobs # <<>> \/ requests # <<>> \/ posted # <<>> \/ stack # <<>>
Busy == Working \/ listening
Overlap(busy) == overlaps' = overlaps + (IF busy THEN 1 ELSE 0) /\ overlaps' <= MaxOverlaps
Click == clicks < MaxClicks /\ clicks' = clicks + 1 /\ Overlap(Busy) /\ UNCHANGED damaged
NoClick == UNCHANGED <<clicks, damaged, overlaps>>

Frame(at, a, then) == [at |-> at, account |-> a, then |-> then]
Top == stack[Len(stack)]
At(at) == stack # <<>> /\ Top.at = at
Below == SubSeq(stack, 1, Len(stack) - 1)
Wait(frame) == Append(stack, frame)

(* QtKeychain runs its jobs in the order they were started, so a job takes *)
(* effect here when it is started, and the handler goes on some time later.*)
(* A refusal is logged and no more.                                        *)
KeychainWrites(d) ==
  \/ disk' = d /\ UNCHANGED damaged
  \/ "keychain" \in Faults /\ damaged' = TRUE /\ UNCHANGED disk
KeychainReads(secret) == {secret} \cup (IF "keychain" \in Faults THEN {None} ELSE {})

(* The coroutines, as the awaits on the clients they consist of.           *)
(* Mutated form of Script: the IMAP client is not closed first.            *)
ScriptKeepsImap == [signin |-> <<"smtpClose", "imapConnect", "imapAuth", "smtpConnect", "smtpAuth">>,
                    send |-> <<"smtpClose", "smtpConnect", "smtpAuth", "smtpMail">>]
Script == [signin |-> <<"smtpClose", "imapClose", "imapConnect", "imapAuth",
                        "smtpConnect", "smtpAuth">>,
           send |-> <<"smtpClose", "smtpConnect", "smtpAuth", "smtpMail">>]
Job(kind, user, token, method) ==
  [kind |-> kind, user |-> user, token |-> token, method |-> method,
   todo |-> Script[kind]]
Finish(job, ok) == [do |-> job.kind, user |-> job.user, method |-> job.method, ok |-> ok]
Resume == [do |-> "resume"]          \* oauthCompletionRequested, queued

(* Mutated form of GiveUp: the window is not enabled.                      *)
GiveUpQuietly(w, queue, kind) == window' = w /\ posted' = queue

(* No token: a sign-in enables the window, a send queues that.             *)
GiveUp(w, queue, kind) ==
  /\ window' = [w EXCEPT !.enabled = @ \/ kind = "signin"]
  /\ posted' = IF kind = "signin" THEN queue
               ELSE Append(queue, Finish(Job(kind, w.user, None, "OAuth"), FALSE))

(* ensureValidAccessToken and the callback of onOAuthAuthenticated or      *)
(* onSendButtonClicked: a token that has not expired is used, an expired   *)
(* one is refreshed first if it can be.                                    *)
EnsureValidAccessToken(w, queue, kind) ==
  \/ /\ oauth.access # None
     /\ jobs' = Append(jobs, Job(kind, w.user, oauth.access, "OAuth"))
     /\ window' = w /\ posted' = queue /\ UNCHANGED requests
  \/ /\ oauth.access # None /\ oauth.refresh # None
     /\ requests' = Append(requests, [kind |-> "refresh", of |-> oauth.refresh, then |-> kind])
     /\ window' = w /\ posted' = queue /\ UNCHANGED jobs
  \/ /\ oauth.access = None \/ oauth.refresh = None
     /\ GiveUp(w, queue, kind)
     /\ UNCHANGED <<requests, jobs>>

OnOAuthAuthenticated(queue) ==
  EnsureValidAccessToken([window EXCEPT !.user = oauth.email, !.enabled = FALSE], queue, "signin")

-----------------------------------------------------------------------------
(* Signing in from the login page.                                         *)

(* startAuthFlow: a new redirect server, a new PKCE session, the browser;  *)
(* the port or the browser may fail to open.                               *)
StartAuthFlow ==
  /\ Click /\ window.page = "login" /\ window.enabled
  /\ listening' \in {TRUE, FALSE}
  /\ UNCHANGED <<window, oauth, disk, requests, jobs, conn, posted, stack>>

(* The browser calls back, once: the server closes. A callback without a   *)
(* code is dropped; an error, or a wrong state, fails the sign-in.         *)
BrowserReturns ==
  /\ listening /\ listening' = FALSE
  /\ \/ /\ \E a \in Account :
             requests' = Append(requests, [kind |-> "exchange", of |-> a, then |-> "signin"])
        /\ Overlap(Working) /\ UNCHANGED <<window, clicks, damaged>>
     \/ NoClick /\ UNCHANGED <<window, requests>>
     \/ window' = [window EXCEPT !.enabled = TRUE] /\ NoClick /\ UNCHANGED requests
  /\ UNCHANGED <<oauth, disk, jobs, conn, posted, stack>>

(* The answers to token requests, in any order. An exchange scopes the     *)
(* storage to its account; a refresh saves under the scope of the moment,  *)
(* and may rotate the refresh token. saveTokens waits for the keychain.    *)
Answered(i) == requests' = RemoveAt(requests, i)

SaveTokens(o, at, then) ==
  /\ oauth' = o
  /\ KeychainWrites(Store(StorageKey(o), Blob(o)))
  /\ stack' = Wait(Frame(at, None, then))

(* Mutated form of Tokens: the storage stays with the account before.      *)
TokensUnscoped(a) == [access |-> a, refresh |-> a, email |-> a, scope |-> oauth.scope]
Tokens(a) == [access |-> a, refresh |-> a, email |-> a, scope |-> a]

Exchanged(i) ==
  /\ requests[i].kind = "exchange" /\ Answered(i)
  /\ SaveTokens(Tokens(requests[i].of), "exchanged", "signin")
  /\ UNCHANGED <<window, listening, jobs, conn, posted, clicks, overlaps>>

Refreshed(i) ==
  /\ requests[i].kind = "refresh" /\ Answered(i)
  /\ LET a == requests[i].of
     IN  \E kept \in {oauth.refresh, a} :
           SaveTokens([oauth EXCEPT !.access = a, !.refresh = kept], "refreshed", requests[i].then)
  /\ UNCHANGED <<window, listening, jobs, conn, posted, clicks, overlaps>>

RequestFailed(i) ==
  /\ requests[i].kind \in Faults /\ Answered(i)
  /\ GiveUp(window, posted, requests[i].then)
  /\ NoClick /\ UNCHANGED <<oauth, disk, listening, jobs, conn, stack>>

(* saveTokens returns to the handler of the answer.                        *)
TokensSaved ==
  /\ \/ At("exchanged") /\ OnOAuthAuthenticated(posted)
     \/ At("refreshed") /\ window' = window /\ posted' = posted /\ UNCHANGED requests
        /\ jobs' = Append(jobs, Job(Top.then, window.user, oauth.access, "OAuth"))
  /\ stack' = Below
  /\ NoClick /\ UNCHANGED <<oauth, disk, listening, conn>>

(* The sign-in button is disabled while a sign-in runs; pressing Enter in  *)
(* the form is not.                                                        *)
OnPasswordSignInClicked(a) ==
  /\ Click /\ window.page = "login"
  /\ window' = [window EXCEPT !.user = a, !.enabled = FALSE]
  /\ jobs' = Append(jobs, Job("signin", a, a, "Password"))
  /\ UNCHANGED <<oauth, disk, listening, requests, conn, posted, stack>>

OnSendButtonClicked ==
  /\ Click /\ window.page = "main" /\ window.enabled
  /\ EnsureValidAccessToken([window EXCEPT !.enabled = FALSE], posted, "send")
  /\ UNCHANGED <<oauth, disk, listening, conn, stack>>

-----------------------------------------------------------------------------
(* The coroutines. A connect fails unless the client is disconnected, and  *)
(* a failed one may leave it half open; a server takes one authentication, *)
(* of an account with its own secret. A TLS handshake the server leaves    *)
(* unanswered has no timer: it ends only when another coroutine closes the *)
(* connection under it.                                                    *)
Awaits(j, client, step) ==
  CASE step \in {"smtpClose", "imapClose"} -> {<<"closed", TRUE>>}
    [] step \in {"smtpConnect", "imapConnect"} ->
         IF conn[client] # "closed" THEN {<<conn[client], FALSE>>}
         ELSE {<<"open", TRUE>>} \cup
              (IF "server" \in Faults THEN {<<"closed", FALSE>>, <<"open", FALSE>>} ELSE {})
    [] step \in {"smtpAuth", "imapAuth"} ->
         IF conn[client] # "open" \/ j.token # j.user \/ j.user = None
         THEN {<<conn[client], FALSE>>}
         ELSE {<<j.user, TRUE>>} \cup
              (IF "server" \in Faults THEN {<<"open", FALSE>>} ELSE {})
    [] step = "smtpMail" -> {<<conn[client], conn[client] \in Account>>}
    [] step \in {"smtpTls", "imapTls"} ->
         IF conn[client] = "silent" THEN {} ELSE {<<conn[client], FALSE>>}

ClientOf(step) ==
  IF step \in {"imapClose", "imapConnect", "imapTls", "imapAuth"} THEN "imap" ELSE "smtp"

JobStep(i) ==
  /\ LET j == jobs[i]
         step == Head(j.todo)
         client == ClientOf(step)
     IN  \E outcome \in Awaits(j, client, step) :
           /\ conn' = [conn EXCEPT ![client] = outcome[1]]
           /\ IF outcome[2] /\ Len(j.todo) > 1
              THEN jobs' = [jobs EXCEPT ![i].todo = Tail(@)] /\ UNCHANGED posted
              ELSE /\ jobs' = RemoveAt(jobs, i)
                   /\ posted' = Append(posted, Finish(j, outcome[2]))
  /\ NoClick /\ UNCHANGED <<window, oauth, disk, listening, requests, stack>>

GoesSilent(i) ==
  /\ "silent" \in Faults
  /\ LET step == Head(jobs[i].todo)
         handshake == IF step = "imapConnect" THEN "imapTls" ELSE "smtpTls"
     IN  /\ step \in {"smtpConnect", "imapConnect"} /\ conn[ClientOf(step)] = "closed"
         /\ conn' = [conn EXCEPT ![ClientOf(step)] = "silent"]
         /\ jobs' = [jobs EXCEPT ![i].todo = <<handshake>> \o Tail(@)]
  /\ NoClick /\ UNCHANGED <<window, oauth, disk, listening, requests, posted, stack>>

(* A coroutine waits for a handshake that nobody ends.                     *)
SilentHandshake ==
  \E i \in DOMAIN jobs :
    Head(jobs[i].todo) \in {"smtpTls", "imapTls"} /\ conn[ClientOf(Head(jobs[i].todo))] = "silent"

(* Mutated form of RegisterActiveAccount: no early return for no user.     *)
RegisterAnyone(w) ==
  /\ disk' = [disk EXCEPT !.registry = Upsert(@, Entry(w.user, w.method)), !.active = w.user]
  /\ UNCHANGED oauth

RegisterActiveAccount(w) ==
  IF w.user = None \/ w.method = "None" THEN UNCHANGED <<disk, oauth>>
  ELSE /\ disk' = [disk EXCEPT !.registry = Upsert(@, Entry(w.user, w.method)),
                               !.active = w.user]
       /\ oauth' = IF w.method = "OAuth" THEN [oauth EXCEPT !.scope = w.user] ELSE oauth

(* completeMailAuthenticationUi(true).                                     *)
SignedIn(w) ==
  /\ window' = [w EXCEPT !.enabled = TRUE, !.page = "main"]
  /\ RegisterActiveAccount(w)

(* The head of the queue of the Qt thread.                                 *)
Deliver ==
  /\ posted # <<>> /\ window.page # "start"
  /\ LET e == Head(posted)
     IN  \/ /\ e.do = "resume"
            /\ OnOAuthAuthenticated(Tail(posted))
            /\ UNCHANGED <<oauth, disk, stack, damaged>>
         \/ /\ e.do = "send" \/ (e.do = "signin" /\ ~e.ok)
            /\ window' = [window EXCEPT !.enabled = TRUE]
            /\ posted' = Tail(posted)
            /\ UNCHANGED <<oauth, disk, requests, jobs, stack, damaged>>
         \/ /\ e.do = "signin" /\ e.ok /\ e.method = "OAuth"
            /\ SignedIn([window EXCEPT !.method = "OAuth"])
            /\ posted' = Tail(posted)
            /\ UNCHANGED <<requests, jobs, stack, damaged>>
         \/ /\ e.do = "signin" /\ e.ok /\ e.method = "Password"
            /\ KeychainWrites(SavePassword(disk, e.user))
            /\ stack' = Wait(Frame("persisted", e.user, "signin"))
            /\ posted' = Tail(posted)
            /\ UNCHANGED <<window, oauth, requests, jobs>>
  /\ UNCHANGED <<listening, conn, clicks, overlaps>>

Persisted ==
  /\ At("persisted") /\ stack' = Below
  /\ SignedIn([window EXCEPT !.method = "Password"])
  /\ NoClick /\ UNCHANGED <<listening, requests, jobs, conn, posted>>

-----------------------------------------------------------------------------
(* The account menu. teardownActiveSession stops polling and empties the   *)
(* cache, both in nested event loops, and then resets the identity.        *)
Teardown(then) ==
  /\ Click /\ window.page = "main"
  /\ stack' = Wait(Frame("tornDown", window.user, then))
  /\ UNCHANGED <<window, oauth, disk, listening, requests, jobs, conn, posted>>

OnAddAccountSelected == Teardown([do |-> "add"])
OnSignOutButtonClicked == Teardown([do |-> "signOut", method |-> window.method])
OnSwitchAccountSelected(i) ==
  disk.registry[i].email # window.user /\ Teardown([do |-> "switch", to |-> disk.registry[i]])

LoginPage(w) == [w EXCEPT !.page = "login"]

(* reconnectStoredAccount, up to the read of the account's secret.         *)
ReconnectStoredAccount(e, w, o, d, rest, then) ==
  /\ window' = [w EXCEPT !.user = e.email]
  /\ oauth' = IF e.method = "OAuth" THEN [ClearInMemorySession(o) EXCEPT !.scope = e.email]
           ELSE o
  /\ disk' = d
  /\ \E secret \in KeychainReads(IF e.method = "OAuth" THEN TokensOf(d, StorageKey(oauth'))
                                  ELSE PasswordOf(d, e.email)) :
       stack' = Append(rest, Frame("secret", e.email,
                                   [do |-> then, method |-> e.method, secret |-> secret]))

(* Mutated form of Unregister: the account stays registered.               *)
StaysRegistered(a, w, o, d, rest) ==
  window' = LoginPage(w) /\ oauth' = o /\ disk' = d /\ stack' = rest

(* The rest of signOutCurrentAccount, after the secret is purged.          *)
Unregister(a, w, o, d, rest) ==
  LET gone == [d EXCEPT !.registry = Removed(@, a), !.active = IF @ = a THEN None ELSE @]
  IN  IF gone.registry = <<>>
      THEN window' = LoginPage(w) /\ oauth' = o /\ disk' = gone /\ stack' = rest
      ELSE ReconnectStoredAccount(Head(gone.registry), w, o,
             [gone EXCEPT !.active = Head(gone.registry).email], rest, "signOut")

TornDown ==
  /\ At("tornDown")
  /\ LET w == ResetIdentity(window)
         o == ClearInMemorySession(oauth)
         a == Top.account
     IN  \/ /\ Top.then.do = "add"
            /\ window' = LoginPage(w) /\ oauth' = o /\ stack' = Below
            /\ UNCHANGED <<disk, damaged>>
         \/ /\ Top.then.do = "switch"
            /\ ReconnectStoredAccount(Top.then.to, w, o,
                 [disk EXCEPT !.active = Top.then.to.email], Below, "switch")
            /\ UNCHANGED damaged
         \/ /\ Top.then.do = "signOut" /\ (a = None \/ Top.then.method = "None")
            /\ Unregister(a, w, o, disk, Below)
            /\ UNCHANGED damaged
         \/ /\ Top.then.do = "signOut" /\ a # None /\ Top.then.method # "None"
            /\ window' = w
            /\ oauth' = IF Top.then.method = "OAuth" THEN [o EXCEPT !.scope = a] ELSE o
            /\ KeychainWrites(IF Top.then.method = "OAuth" THEN Clear(a)
                              ELSE RemovePassword(disk, a))
            /\ stack' = Append(Below, Frame("purged", a, o.refresh))
  /\ UNCHANGED <<listening, requests, jobs, conn, posted, clicks, overlaps>>

(* signOut has asked the provider to revoke the refresh token it found.    *)
Purged ==
  /\ At("purged")
  /\ Unregister(Top.account, window, oauth, disk, Below)
  /\ NoClick /\ UNCHANGED <<listening, requests, jobs, conn, posted>>

(* loadStoredTokens: an access token that may have expired is of no use    *)
(* without a refresh token.                                                *)
Stale(blob) == blob.refresh = None
MayBeExpired(then) == then.method = "OAuth" /\ then.secret # None /\ Stale(then.secret)

(* The secret is read: the sign-in begins, or the login page is shown. In  *)
(* the constructor there is no mail session yet, and a password sign-in    *)
(* gives up at once.                                                       *)
SecretRead ==
  /\ At("secret") /\ stack' = Below
  /\ LET a == Top.account
         then == Top.then
         started == window.page = "start"
         shown == IF started THEN LoginPage(window) ELSE window
     IN  \/ /\ then.secret = None \/ MayBeExpired(then)
            /\ window' = LoginPage(window)
            /\ disk' = IF started THEN disk ELSE [disk EXCEPT !.active = None]
            /\ oauth' = IF then.secret = None THEN oauth ELSE Load(then.secret, oauth)
            /\ UNCHANGED <<jobs, posted>>
         \/ /\ then.secret # None /\ then.method = "OAuth"
            /\ window' = shown
            /\ oauth' = Load(then.secret, oauth)
            /\ posted' = Append(posted, Resume)
            /\ UNCHANGED <<disk, jobs>>
         \/ /\ then.secret # None /\ then.method = "Password"
            /\ window' = [shown EXCEPT !.enabled = started]
            /\ jobs' = IF started THEN jobs
                       ELSE Append(jobs, Job("signin", a, then.secret, "Password"))
            /\ UNCHANGED <<oauth, disk, posted>>
  /\ NoClick /\ UNCHANGED <<listening, requests, conn>>

-----------------------------------------------------------------------------
(* Starting the program: tryAutoResume.                                    *)

(* The active account, if it is registered, or else the first one.         *)
ResumeTarget ==
  IF Find(disk.registry, disk.active) # {}
  THEN disk.registry[CHOOSE i \in Find(disk.registry, disk.active) : TRUE]
  ELSE Head(disk.registry)

Start ==
  /\ window.page = "start" /\ stack = <<>>
  /\ IF disk.registry # <<>>
     THEN /\ ReconnectStoredAccount(ResumeTarget, window, oauth, disk, stack, "start")
          /\ UNCHANGED damaged
     ELSE IF Legacy \notin DOMAIN disk.tokens
     THEN /\ window' = LoginPage(window)
          /\ UNCHANGED <<oauth, disk, stack, damaged>>
     ELSE LET blob == disk.tokens[Legacy]
          IN  \/ /\ blob.email = None \/ Stale(blob)
                 /\ window' = LoginPage(window) /\ oauth' = Load(blob, oauth)
                 /\ UNCHANGED <<disk, stack, damaged>>
              \/ /\ blob.email # None
                 /\ window' = [window EXCEPT !.user = blob.email]
                 /\ SaveTokens(Load(blob, [oauth EXCEPT !.scope = blob.email]), "migrated", "signin")
  /\ UNCHANGED <<listening, requests, jobs, conn, posted, clicks, overlaps>>

Migrated ==
  /\ At("migrated") /\ stack' = Below
  /\ window' = LoginPage(window)
  /\ posted' = Append(posted, Resume)
  /\ NoClick /\ UNCHANGED <<oauth, disk, listening, requests, jobs, conn>>

(* What the program keeps in memory only, when it starts.                  *)
NewWindow == [user |-> None, method |-> "None", page |-> "start", enabled |-> TRUE]
NewOAuth == [access |-> None, refresh |-> None, email |-> None, scope |-> None]
NewConn == [imap |-> "closed", smtp |-> "closed"]

(* What it may find on the disk: nothing, the tokens of an installation    *)
(* with one account, or accounts of an earlier session.                    *)
Secret(a) == [access |-> a, refresh |-> a, email |-> a]
NewDisk == [tokens |-> <<>>, passwords |-> {}, registry |-> <<>>, active |-> None]
LegacyDisk(a) == [NewDisk EXCEPT !.tokens = [k \in {Legacy} |-> Secret(a)]]
With(registry, method) == {e.email : e \in {f \in ToSet(registry) : f.method = method}}
UsedDisk(registry) ==
  [tokens |-> [a \in With(registry, "OAuth") |-> Secret(a)],
   passwords |-> With(registry, "Password"),
   registry |-> registry, active |-> Head(registry).email]
Registries ==
  {[i \in DOMAIN order |-> Entry(order[i], method[order[i]])] :
     order \in SetToSeqs(Account), method \in [Account -> {"OAuth", "Password"}]}

Init ==
  /\ window = NewWindow /\ oauth = NewOAuth /\ conn = NewConn
  /\ listening = FALSE /\ requests = <<>> /\ jobs = <<>> /\ posted = <<>> /\ stack = <<>>
  /\ disk \in {NewDisk} \cup {LegacyDisk(a) : a \in Account} \cup
              {UsedDisk(registry) : registry \in Registries}
  /\ clicks = 0 /\ damaged = FALSE /\ overlaps = 0

Crash ==
  /\ clicks < MaxClicks /\ clicks' = clicks + 1 /\ window.page # "start"
  /\ window' = NewWindow /\ oauth' = NewOAuth /\ conn' = NewConn
  /\ listening' = FALSE /\ requests' = <<>> /\ jobs' = <<>> /\ posted' = <<>> /\ stack' = <<>>
  /\ damaged' = TRUE
  /\ UNCHANGED <<disk, overlaps>>

UserActs ==
  \/ StartAuthFlow \/ OnSendButtonClicked \/ OnAddAccountSelected \/ OnSignOutButtonClicked
  \/ \E a \in Account : OnPasswordSignInClicked(a)
  \/ \E i \in DOMAIN disk.registry : OnSwitchAccountSelected(i)

ProgramActs ==
  \/ Deliver \/ TokensSaved \/ Persisted \/ TornDown \/ Purged \/ SecretRead
  \/ Start \/ Migrated

Reply == \E i \in DOMAIN requests : Exchanged(i) \/ Refreshed(i) \/ RequestFailed(i)

Next ==
  \/ UserActs \/ ProgramActs \/ BrowserReturns \/ Reply \/ Crash
  \/ \E i \in DOMAIN jobs : JobStep(i) \/ GoesSilent(i)

(* The Qt thread and the io_context thread run what they have; every token *)
(* request is answered or fails, and every await of a coroutine ends but    *)
(* for a TLS handshake. Nothing is assumed of the user.                    *)
Spec ==
  /\ Init /\ [][Next]_vars
  /\ WF_vars(ProgramActs) /\ WF_vars(Reply)
  /\ WF_vars(\E i \in DOMAIN jobs : JobStep(i))

-----------------------------------------------------------------------------
Who == Account \cup {None}
BlobOf == [access : Who, refresh : Who, email : Who]

(* Every variable holds a value the program can give it; in particular the *)
(* active account is set, and a blob stored, only for an account or under  *)
(* the legacy key, and the registry has one entry for an address           *)
(* (AccountRegistry::upsert).                                              *)
TypeOK ==
  /\ window \in [user : Who, method : {"None", "OAuth", "Password"},
                 page : {"start", "login", "main"}, enabled : BOOLEAN]
  /\ oauth \in [access : Who, refresh : Who, email : Who, scope : Who]
  /\ DOMAIN disk.tokens \subseteq Account \cup {Legacy}
  /\ \A k \in DOMAIN disk.tokens : disk.tokens[k] \in BlobOf /\ disk.tokens[k].access # None
  /\ disk.passwords \subseteq Account /\ disk.active \in Who
  /\ \A i \in DOMAIN disk.registry :
       /\ disk.registry[i] \in [email : Account, method : {"OAuth", "Password"}]
       /\ Find(disk.registry, disk.registry[i].email) = {i}
  /\ \A c \in {"imap", "smtp"} : conn[c] \in Account \cup {"closed", "open", "silent"}
  /\ \A i \in DOMAIN jobs : jobs[i].todo # <<>>
  /\ listening \in BOOLEAN /\ damaged \in BOOLEAN /\ overlaps \in 0..MaxOverlaps

(* When the main page is shown and nothing is under way, the connections   *)
(* are not another account's: what is fetched next is filed, and shown, as *)
(* the current user's (MainWindow::completeMailAuthenticationUi). It is    *)
(* said of users who let one thing end before they begin the next.         *)
OwnMail ==
  overlaps = 0 /\ ~Busy /\ window.page = "main"
  => \A c \in {"imap", "smtp"} : conn[c] \notin Account \ {window.user}

(* What is stored under an account's key are that account's tokens         *)
(* (OAuthManager.cpp:204, signing in a second account "does not overwrite  *)
(* the tokens of the first one").                                          *)
TokensNeverMix == \A a \in Account \cap DOMAIN disk.tokens : disk.tokens[a].access = a

(* The same of users who let one thing end before they begin the next,     *)
(* whatever accounts they sign in, switch to and refresh, and across       *)
(* restarts.                                                               *)
TokensApart == overlaps = 0 => TokensNeverMix

(* Every account in the registry has the secret its method needs, so that  *)
(* switching to it can succeed, unless the keychain failed or the program  *)
(* was cut short: SessionCoordinator purges and registers in this order.   *)
Resumable ==
  overlaps = 0 /\ ~damaged /\ stack = <<>>
  => \A i \in DOMAIN disk.registry :
       disk.registry[i].email \in
         (IF disk.registry[i].method = "OAuth" THEN DOMAIN disk.tokens ELSE disk.passwords)

(* Whatever a sign-in or a send ends with, the window is enabled again,    *)
(* unless the coroutine sits in a TLS handshake the server leaves          *)
(* unanswered: nothing ends that one (BaseProtocolClient.cpp:544), and the *)
(* window stays disabled for as long as the server likes.                  *)
UiComesBack == ~window.enabled ~> (window.enabled \/ SilentHandshake)

(* Signing out of an account that has a refresh token asks the provider to *)
(* revoke it (OAuthManager.cpp:361, "Capture the refresh token BEFORE      *)
(* local cleanup so we can ask the provider to invalidate it").            *)
SignOutRevokes ==
  [][TornDown /\ Top.then.do = "signOut" /\ Top.then.method = "OAuth" /\ oauth.refresh # None
     => stack'[Len(stack')].then # None]_vars

(* A start that finds a usable secret of the account begins a sign-in      *)
(* (SessionCoordinator.hpp:121, "true when a resume path is in progress"). *)
ResumeBegins ==
  [][SecretRead /\ window.page = "start" /\ Top.then.secret # None
       /\ ~MayBeExpired(Top.then)
     => jobs' # jobs \/ posted' # posted]_vars
=============================================================================
