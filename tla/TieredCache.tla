---------------------------- MODULE TieredCache ----------------------------
(* TieredMessageCache as MainWindow uses it: the in-memory tier over one   *)
(* encrypted SQLite file per account, each under a key kept in the system  *)
(* keychain. All calls come from the Qt thread. Those that ask the         *)
(* keychain (attaching the second tier, signing out) wait in a nested      *)
(* event loop, in which the Qt thread runs other handlers to their end:    *)
(* `stack' holds the calls so suspended. The program may crash anywhere.   *)
EXTENDS MemoryCache, Sequences

CONSTANTS
  Account,
  NoAccount,       \* nobody is signed in: m_currentUser is empty
  MaxDiskBytes,    \* PersistentMessageCache::maxBytes_
  EvictionBatch,   \* rows deleted at a time, 32 in the code
  MaxCiphers,      \* bound on keys generated
  MaxCalls,        \* bound on calls, sign-ins and crashes
  Faults           \* what may fail: "keychain", "open", "insert"

ASSUME AccountAssumption == NoAccount \notin Account
ASSUME DiskAssumption == /\ MaxDiskBytes \in Nat \ {0}
                         /\ EvictionBatch \in Nat \ {0}
                         /\ MaxCiphers \in Nat /\ MaxCalls \in Nat

VARIABLES
  user,       \* m_currentUser
  memory,     \* the memory tier
  tier,       \* persistent_: for each attached account the key it seals with
  disk,       \* for each account with a file its rows
  keychain,   \* the stored key of each account that has one
  ciphers,    \* how many keys have been generated
  stack,      \* suspended calls, the innermost last
  event,      \* history: the last call that returned
  calls       \* how many calls, sign-ins and crashes there have been

vars == <<user, memory, tier, disk, keychain, ciphers, stack, event, calls>>

KeysOf(a) == {k \in Key : k.account = a}

(* Handlers are told apart by time, which cached_at and the recency list   *)
(* order entries by.                                                       *)
now == calls + 1

-----------------------------------------------------------------------------
(* The file of an account: its rows by key.                                *)

(* Mutated form of EnforceBudget: it stops a batch early.                  *)
EnforceBudgetLess(rows) ==
  LET batch(k) == Cardinality({j \in DOMAIN rows : rows[j].at < rows[k].at})
                    \div EvictionBatch
      upTo(k) == {j \in DOMAIN rows : batch(j) <= batch(k)}
  IN  Restrict(rows, {k \in DOMAIN rows :
                        Bytes(DOMAIN rows \ upTo(k)) <= MaxDiskBytes})

(* The oldest rows are deleted in batches until what was freed makes up    *)
(* for what was over: a row stays if the batches before its own do.        *)
EnforceBudget(rows) ==
  LET batch(k) == Cardinality({j \in DOMAIN rows : rows[j].at < rows[k].at})
                    \div EvictionBatch
      before(k) == {j \in DOMAIN rows : batch(j) < batch(k)}
  IN  Restrict(rows, {k \in DOMAIN rows :
                        Bytes(DOMAIN rows \ before(k)) <= MaxDiskBytes})

(* A message sealed under a key, and whether a row opens under one:        *)
(* AES-GCM refuses any other.                                              *)
Sealed(cipher) == [cipher |-> cipher, at |-> now]
Opens(row, cipher) == row.cipher = cipher

(* INSERT ... ON CONFLICT DO UPDATE: a row written again becomes the       *)
(* newest.                                                                 *)
Upsert(rows, k, cipher) == EnforceBudget(Assign(rows, k, Sealed(cipher)))

DeleteRows(a, keys) == [disk EXCEPT ![a] = Restrict(@, DOMAIN @ \ keys)]

(* The file is created if there is none; and unlinked.                     *)
OpenFile(a) == IF a \in DOMAIN disk THEN disk ELSE Assign(disk, a, <<>>)
Destroy(a) == Restrict(disk, DOMAIN disk \ {a})

(* What a lookup can find, and the rows no tier is open for or whose key   *)
(* is not the tier's.                                                      *)
Readable(a) == {k \in DOMAIN disk[a] \cap KeysOf(a) : Opens(disk[a][k], tier[a])}
OnDisk == UNION {Readable(a) : a \in DOMAIN tier}
Held == DOMAIN memory \cup OnDisk
OutOfReach == (UNION {DOMAIN disk[a] : a \in DOMAIN disk}) \ OnDisk

Cache == INSTANCE MessageCache WITH stored <- Held, beyond <- OutOfReach

-----------------------------------------------------------------------------
Frame(op, a, at, cipher) == [op |-> op, account |-> a, at |-> at, cipher |-> cipher]
Top == stack[Len(stack)]
Suspended(op) == \E i \in DOMAIN stack : stack[i].op = op
Goto(at, cipher) == stack' = [stack EXCEPT ![Len(stack)].at = at, ![Len(stack)].cipher = cipher]
Return == stack' = SubSeq(stack, 1, Len(stack) - 1)

(* A handler runs at top level, or in the event loop of a keychain call.   *)
Handler == calls < MaxCalls /\ calls' = calls + 1

Init == /\ user = NoAccount
        /\ memory = <<>>
        /\ tier = <<>> /\ disk = <<>> /\ keychain = <<>>
        /\ ciphers = 0
        /\ stack = <<>>
        /\ event = Cache!Event("opened", {})
        /\ calls = 0

SignIn(a) ==
  /\ Handler /\ user = NoAccount /\ ~Suspended("signout")
  /\ user' = a
  /\ UNCHANGED <<memory, tier, disk, keychain, ciphers, stack, event>>

(* tryGet: memory; then the account's second tier, if there is one. A row  *)
(* that does not open under the tier's key is dropped; one that does is    *)
(* promoted.                                                               *)
LookupInMemory(k) ==
  /\ Handler /\ k.account = user
  /\ k \in DOMAIN memory
  /\ memory' = Touch(memory, k, now)
  /\ event' = Cache!Event("hit", {k})
  /\ UNCHANGED <<user, tier, disk, keychain, ciphers, stack>>

LookupOnDisk(k) ==
  /\ Handler /\ k.account = user
  /\ k \notin DOMAIN memory /\ user \in DOMAIN tier
  /\ IF k \in Readable(user)
     THEN /\ memory' = Insert(memory, k, now)
          /\ event' = Cache!Event("hit", {k})
          /\ UNCHANGED disk
     ELSE /\ disk' = DeleteRows(user, {k})
          /\ event' = Cache!Event("miss", {k})
          /\ UNCHANGED memory
  /\ UNCHANGED <<user, tier, keychain, ciphers, stack>>

LookupMissed(k) ==
  /\ Handler /\ k.account = user
  /\ k \notin DOMAIN memory /\ user \notin DOMAIN tier
  /\ event' = Cache!Event("miss", {k})
  /\ UNCHANGED <<user, memory, tier, disk, keychain, ciphers, stack>>

(* Bodies are put and messages invalidated when an operation completes,    *)
(* which none does while the listing of another is being applied.          *)
Completion == Handler /\ ~Suspended("ensure")

(* put: the row first, which may fail, then memory.                        *)
Put(k) ==
  /\ Completion /\ k.account = user
  /\ \/ user \in DOMAIN tier /\ disk' = [disk EXCEPT ![user] = Upsert(@, k, tier[user])]
     \/ user \in DOMAIN tier /\ "insert" \in Faults /\ UNCHANGED disk
     \/ user \notin DOMAIN tier /\ UNCHANGED disk
  /\ memory' = Insert(memory, k, now)
  /\ event' = Cache!Event("put", {k})
  /\ UNCHANGED <<user, tier, keychain, ciphers, stack>>

(* Mutated form of Invalidate: it does not reach the second tier.          *)
InvalidateMemory(keys) ==
  /\ Completion /\ keys # {}
  /\ \A k \in keys : k.account = user
  /\ memory' = Erase(memory, keys)
  /\ event' = Cache!Event("forgot", keys)
  /\ UNCHANGED <<user, tier, disk, keychain, ciphers, stack>>

(* invalidate and invalidateMailbox: memory, then the second tier.         *)
Invalidate(keys) ==
  /\ Completion /\ keys # {}
  /\ \A k \in keys : k.account = user
  /\ memory' = Erase(memory, keys)
  /\ disk' = IF user \in DOMAIN tier THEN DeleteRows(user, keys)
                                     ELSE disk
  /\ event' = Cache!Event("forgot", keys)
  /\ UNCHANGED <<user, tier, keychain, ciphers, stack>>

InvalidateMailbox(m) == Invalidate({k \in KeysOf(user) : k.mailbox = m})

(* teardownActiveSession(false): another account is switched to or added.  *)
UnloadAccount ==
  /\ Handler /\ user # NoAccount /\ ~Suspended("signout")
  /\ memory' = Erase(memory, KeysOf(user))
  /\ tier' = Restrict(tier, DOMAIN tier \ {user})
  /\ user' = NoAccount
  /\ event' = Cache!Event("closed", KeysOf(user))
  /\ UNCHANGED <<disk, keychain, ciphers, stack>>

(* Mutated form of SignOut: the destroyed tier stays in the map.           *)
SignOutKeepsTier ==
  /\ Handler /\ user # NoAccount /\ ~Suspended("signout")
  /\ memory' = Erase(memory, KeysOf(user))
  /\ event' = Cache!Event("forgot", KeysOf(user))
  /\ disk' = Destroy(user)
  /\ user' = NoAccount
  /\ UNCHANGED <<tier, keychain, ciphers, stack>>

(* teardownActiveSession(true). invalidateAccount takes the tier out of    *)
(* the map, destroys its file, then asks the keychain to remove the key;   *)
(* without a tier it does neither. resetIdentity comes last.               *)
SignOut ==
  /\ Handler /\ user # NoAccount /\ ~Suspended("signout")
  /\ memory' = Erase(memory, KeysOf(user))
  /\ tier' = Restrict(tier, DOMAIN tier \ {user})
  /\ event' = Cache!Event("forgot", KeysOf(user))
  /\ IF user \in DOMAIN tier
     THEN /\ disk' = Destroy(user)
          /\ stack' = Append(stack, Frame("signout", user, "remove", 0))
          /\ UNCHANGED user
     ELSE /\ user' = NoAccount
          /\ UNCHANGED <<disk, stack>>
  /\ UNCHANGED <<keychain, ciphers>>

KeyRemoved ==
  /\ stack # <<>> /\ Top.at = "remove"
  /\ \/ keychain' = Restrict(keychain, DOMAIN keychain \ {Top.account})
     \/ "keychain" \in Faults /\ UNCHANGED keychain
  /\ user' = NoAccount
  /\ Return
  /\ UNCHANGED <<memory, tier, disk, ciphers, event, calls>>

(* ensureMessageCacheForCurrentAccount, when a listing is applied. The     *)
(* keychain is asked for the key of the account then signed in; the tier   *)
(* is attached for the one signed in when it has answered.                 *)
Ensure ==
  /\ Handler /\ user # NoAccount /\ user \notin DOMAIN tier
  /\ ~Suspended("ensure")
  /\ stack' = Append(stack, Frame("ensure", user, "retrieve", 0))
  /\ UNCHANGED <<user, memory, tier, disk, keychain, ciphers, event>>

KeyFound ==
  /\ stack # <<>> /\ Top.at = "retrieve"
  /\ Top.account \in DOMAIN keychain
  /\ Goto("attach", keychain[Top.account])
  /\ UNCHANGED <<user, memory, tier, disk, keychain, ciphers, event, calls>>

(* No key, or the keychain refuses: retrieve returns an empty string in    *)
(* both cases. A fresh key is generated and stored.                        *)
KeyGenerated ==
  /\ stack # <<>> /\ Top.at = "retrieve"
  /\ Top.account \in DOMAIN keychain => "keychain" \in Faults
  /\ ciphers < MaxCiphers
  /\ ciphers' = ciphers + 1
  /\ Goto("store", ciphers + 1)
  /\ UNCHANGED <<user, memory, tier, disk, keychain, event, calls>>

KeyStored ==
  /\ stack # <<>> /\ Top.at = "store"
  /\ \/ keychain' = Assign(keychain, Top.account, Top.cipher)
     \/ "keychain" \in Faults /\ UNCHANGED keychain
  /\ Goto("attach", Top.cipher)
  /\ UNCHANGED <<user, memory, tier, disk, ciphers, event, calls>>

Attach ==
  /\ stack # <<>> /\ Top.at = "attach"
  /\ disk' = OpenFile(user)
  /\ tier' = Assign(tier, user, Top.cipher)
  /\ event' = Cache!Event("opened", {})
  /\ Return
  /\ UNCHANGED <<user, memory, keychain, ciphers, calls>>

(* No key could be generated, or the database not be opened, or a newer    *)
(* build has written it: the account stays without a second tier.          *)
AttachFailed ==
  /\ "open" \in Faults
  /\ stack # <<>> /\ Top.at \in {"retrieve", "attach"}
  /\ Return
  /\ UNCHANGED <<user, memory, tier, disk, keychain, ciphers, event, calls>>

(* A crash or an exit: files and keychain stay.                            *)
Crash ==
  /\ Handler
  /\ user' = NoAccount /\ memory' = <<>> /\ tier' = <<>> /\ stack' = <<>>
  /\ event' = Cache!Event("closed", Key)
  /\ UNCHANGED <<disk, keychain, ciphers>>

Next ==
  \/ \E a \in Account : SignIn(a)
  \/ \E k \in Key : LookupInMemory(k) \/ LookupOnDisk(k) \/ LookupMissed(k)
                      \/ Put(k) \/ Invalidate({k}) \/ InvalidateMailbox(k.mailbox)
  \/ UnloadAccount \/ SignOut \/ KeyRemoved
  \/ Ensure \/ KeyFound \/ KeyGenerated \/ KeyStored \/ Attach \/ AttachFailed
  \/ Crash

Spec == Init /\ [][Next]_vars

-----------------------------------------------------------------------------
Partial(f, S, T) == DOMAIN f \subseteq S /\ f \in [DOMAIN f -> T]
Row == [cipher : 1 .. MaxCiphers, at : 1 .. MaxCalls]

(* The types; and an attached tier has its file.                           *)
TypeOK ==
  /\ user \in Account \cup {NoAccount}
  /\ Partial(memory, Key, 1 .. MaxCalls)
  /\ Partial(tier, Account \cup {NoAccount}, 1 .. MaxCiphers)
  /\ DOMAIN disk \subseteq Account \cup {NoAccount}
  /\ \A a \in DOMAIN disk : Partial(disk[a], KeysOf(a), Row)
  /\ Partial(keychain, Account, 1 .. MaxCiphers)
  /\ ciphers \in 0 .. MaxCiphers
  /\ calls \in 0 .. MaxCalls
  /\ stack \in Seq([op : {"ensure", "signout"}, account : Account,
                    at : {"retrieve", "store", "attach", "remove"},
                    cipher : 0 .. MaxCiphers])
  /\ DOMAIN tier \subseteq DOMAIN disk

(* The two budgets of the memory tier and that of each file hold whenever  *)
(* no handler runs: MemoryMessageCache and PersistentMessageCache enforce  *)
(* them at the end of every put and of every promotion.                    *)
BudgetsHold ==
  /\ WithinBudget(DOMAIN memory)
  /\ \A a \in DOMAIN disk : Bytes(DOMAIN disk[a]) <= MaxDiskBytes

(* The cache keeps the promise of IMessageCache, whatever fails and        *)
(* whatever runs in a nested event loop: no lookup answers with a message  *)
(* invalidated since it was put, or of an account signed out, except for   *)
(* rows that were out of reach at the time.                                *)
KeepsPromise == Cache!Spec

(* IMessageCache.hpp on sign-out: the on-disk state of the account is      *)
(* destroyed, and MainWindow.cpp: so is its key. When the user is signed   *)
(* out neither is left.                                                    *)
SignOutDestroysDisk ==
  [][SignOut \/ KeyRemoved =>
       (user' = NoAccount => user \notin DOMAIN disk' \cup DOMAIN keychain')]_vars
=============================================================================
