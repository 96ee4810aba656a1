------------------------ MODULE TieredCache_proofs ------------------------
(***************************************************************************)
(* Proofs about TieredCache, for any accounts, keys, sizes, budgets and    *)
(* faults: the two tiers implement the promise of MessageCache, and keep   *)
(* within their budgets.                                                   *)
(***************************************************************************)
EXTENDS TieredCache, FiniteSetTheorems, WellFoundedInduction, NaturalsInduction, TLAPS

(* Files hold rows of their own account only, and an attached tier has its *)
(* file: without the first, a row of one account could keep a message in   *)
(* reach that another account's call has forgotten.                        *)
FilesInv ==
  /\ DOMAIN tier \subseteq DOMAIN disk
  /\ \A a \in DOMAIN disk : DOMAIN disk[a] \subseteq KeysOf(a)

-----------------------------------------------------------------------------
(* What the operators on files and on the memory tier do to the keys.      *)

LEMMA EnforceBudgetDrops ==
  ASSUME NEW rows
  PROVE  /\ DOMAIN EnforceBudget(rows) \subseteq DOMAIN rows
         /\ \A k \in DOMAIN EnforceBudget(rows) : EnforceBudget(rows)[k] = rows[k]
BY DEF EnforceBudget, Restrict

LEMMA UpsertDomain ==
  ASSUME NEW rows, NEW k, NEW cipher
  PROVE  /\ DOMAIN Upsert(rows, k, cipher) \subseteq DOMAIN rows \cup {k}
         /\ \A j \in DOMAIN Upsert(rows, k, cipher) :
              j # k => Upsert(rows, k, cipher)[j] = rows[j]
<1> DEFINE all == Assign(rows, k, Sealed(cipher))
<1>1. DOMAIN all = DOMAIN rows \cup {k} /\ \A j \in DOMAIN rows : j # k => all[j] = rows[j]
  BY DEF Assign
<1> QED  BY <1>1, EnforceBudgetDrops DEF Upsert

LEMMA InsertDomain ==
  ASSUME NEW m, NEW k, NEW t
  PROVE  /\ DOMAIN Touch(m, k, t) = DOMAIN m \cup {k}
         /\ DOMAIN Insert(m, k, t) \subseteq DOMAIN m \cup {k}
<1>1. DOMAIN Touch(m, k, t) = DOMAIN m \cup {k}
  BY DEF Touch, Assign
<1> QED  BY <1>1 DEF Insert, EvictUntilWithinBudget, Restrict

LEMMA EraseDomain ==
  ASSUME NEW m, NEW keys
  PROVE  DOMAIN Erase(m, keys) = DOMAIN m \ keys
BY DEF Erase, Restrict

LEMMA DeleteRowsDomain ==
  ASSUME NEW a \in DOMAIN disk, NEW keys
  PROVE  /\ DOMAIN DeleteRows(a, keys) = DOMAIN disk
         /\ \A b \in DOMAIN disk : b # a => DeleteRows(a, keys)[b] = disk[b]
         /\ DOMAIN DeleteRows(a, keys)[a] = DOMAIN disk[a] \ keys
         /\ \A k \in DOMAIN disk[a] \ keys : DeleteRows(a, keys)[a][k] = disk[a][k]
BY DEF DeleteRows, Restrict

-----------------------------------------------------------------------------
(* What is in reach, key by key, now and after a step.                     *)

LEMMA Reach ==
  ASSUME NEW k
  PROVE  /\ k \in OnDisk <=> \E a \in DOMAIN tier : k \in Readable(a)
         /\ k \in Held <=> k \in DOMAIN memory \/ k \in OnDisk
         /\ k \in OutOfReach <=> (\E a \in DOMAIN disk : k \in DOMAIN disk[a]) /\ k \notin OnDisk
BY DEF OnDisk, Held, OutOfReach

LEMMA ReachNext ==
  ASSUME NEW k
  PROVE  /\ k \in OnDisk' <=> \E a \in DOMAIN tier' : k \in Readable(a)'
         /\ k \in Held' <=> k \in DOMAIN memory' \/ k \in OnDisk'
         /\ k \in OutOfReach' <=> (\E a \in DOMAIN disk' : k \in DOMAIN disk'[a]) /\ k \notin OnDisk'
BY DEF OnDisk, Held, OutOfReach

(* Rows of one account are deleted, or one is written under the tier's     *)
(* key; the other accounts' files stay. Nothing else comes into reach or   *)
(* goes out of it without being deleted.                                   *)
LEMMA FileChanges ==
  ASSUME FilesInv, NEW u \in DOMAIN tier, NEW written \in SUBSET KeysOf(u),
         UNCHANGED tier, DOMAIN disk' = DOMAIN disk,
         \A a \in DOMAIN disk : a # u => disk'[a] = disk[a],
         DOMAIN disk'[u] \subseteq DOMAIN disk[u] \cup written,
         \A k \in DOMAIN disk'[u] \ written : disk'[u][k] = disk[u][k],
         \A k \in DOMAIN disk'[u] \cap written : Opens(disk'[u][k], tier[u])
  PROVE  /\ FilesInv'
         /\ OnDisk' \subseteq OnDisk \cup written
         /\ \A k \in OnDisk' \ written : k \in KeysOf(u) => k \in DOMAIN disk'[u]
         /\ OutOfReach' \subseteq OutOfReach
<1>1. FilesInv'
  BY DEF FilesInv, KeysOf
<1>2. OnDisk' \subseteq OnDisk \cup written
  <2> SUFFICES ASSUME NEW k \in OnDisk', k \notin written PROVE k \in OnDisk
    OBVIOUS
  <2>1. PICK a \in DOMAIN tier : k \in Readable(a)'
    BY ReachNext
  <2>2. k \in Readable(a)
    BY <2>1 DEF Readable, KeysOf, Opens, FilesInv
  <2> QED  BY <2>2, Reach
<1>3. ASSUME NEW k \in OnDisk', k \in KeysOf(u) PROVE k \in DOMAIN disk'[u]
  <2>1. PICK a \in DOMAIN tier : k \in Readable(a)'
    BY ReachNext
  <2> QED  BY <1>3, <2>1 DEF Readable, KeysOf
<1>4. OutOfReach' \subseteq OutOfReach
  <2> SUFFICES ASSUME NEW k \in OutOfReach' PROVE k \in OutOfReach
    OBVIOUS
  <2>1. PICK a \in DOMAIN disk' : k \in DOMAIN disk'[a]
    BY ReachNext
  <2>2. k \notin OnDisk' /\ k \in KeysOf(a)
    BY <1>1, <2>1, ReachNext DEF FilesInv, KeysOf
  <2>3. k \notin written
    <3> SUFFICES ASSUME k \in written PROVE FALSE
      OBVIOUS
    <3>1. a = u
      BY <2>2 DEF KeysOf
    <3>2. k \in Readable(u)'
      BY <2>1, <2>2, <3>1 DEF Readable, KeysOf
    <3> QED  BY <2>2, <3>2, ReachNext
  <2>4. k \in DOMAIN disk[a]
    BY <2>1, <2>3
  <2>5. k \notin OnDisk
    <3> SUFFICES ASSUME NEW b \in DOMAIN tier, k \in Readable(b) PROVE FALSE
      BY Reach
    <3>1. b = a
      BY <2>2 DEF Readable, KeysOf
    <3>2. k \in Readable(b)'
      BY <2>1, <2>3, <3>1 DEF Readable, KeysOf, Opens
    <3> QED  BY <2>2, <3>2, ReachNext
  <2> QED  BY <2>4, <2>5, Reach
<1> QED  BY <1>1, <1>2, <1>3, <1>4

-----------------------------------------------------------------------------
(* Each step of the tiers is a step of the promise.                        *)

Kept == FilesInv' /\ [Cache!Next]_(Cache!vars)

LEMMA FilesUnchanged ==
  ASSUME FilesInv, UNCHANGED <<tier, disk>>
  PROVE  FilesInv' /\ OnDisk' = OnDisk /\ OutOfReach' = OutOfReach
BY DEF FilesInv, OnDisk, OutOfReach, Readable

LEMMA OffTheCache ==
  ASSUME FilesInv, UNCHANGED <<memory, tier, disk, event>>
  PROVE  Kept
BY FilesUnchanged DEF Kept, Cache!vars, Held

LEMMA LookupInMemoryStep ==
  ASSUME FilesInv, NEW k \in Key, LookupInMemory(k)
  PROVE  Kept
<1>1. FilesInv' /\ OnDisk' = OnDisk /\ OutOfReach' = OutOfReach
  BY FilesUnchanged DEF LookupInMemory
<1>2. DOMAIN memory' = DOMAIN memory
  <2>1. DOMAIN memory' = DOMAIN memory \cup {k}
    BY InsertDomain DEF LookupInMemory
  <2> QED  BY <2>1 DEF LookupInMemory
<1>3. Cache!Hit(k)
  BY <1>1, <1>2 DEF LookupInMemory, Cache!Hit, Held
<1> QED  BY <1>1, <1>3 DEF Kept, Cache!Next

LEMMA LookupOnDiskStep ==
  ASSUME FilesInv, NEW k \in Key, LookupOnDisk(k)
  PROVE  Kept
<1>1. CASE k \in Readable(user)
  <2>1. FilesInv' /\ OnDisk' = OnDisk /\ OutOfReach' = OutOfReach
    BY <1>1, FilesUnchanged DEF LookupOnDisk
  <2>2. DOMAIN memory' \subseteq DOMAIN memory \cup {k}
    BY <1>1, InsertDomain DEF LookupOnDisk
  <2>3. k \in OnDisk
    BY <1>1, Reach DEF LookupOnDisk
  <2>4. Cache!Hit(k)
    BY <1>1, <2>1, <2>2, <2>3 DEF LookupOnDisk, Cache!Hit, Held
  <2> QED  BY <2>1, <2>4 DEF Kept, Cache!Next
<1>2. CASE k \notin Readable(user)
  <2>1. disk' = DeleteRows(user, {k}) /\ user \in DOMAIN tier /\ UNCHANGED <<memory, tier>>
    BY <1>2 DEF LookupOnDisk
  <2>2. FilesInv' /\ OnDisk' \subseteq OnDisk /\ OutOfReach' \subseteq OutOfReach
    <3> DEFINE none == {}
    <3>1. none \in SUBSET KeysOf(user) /\ user \in DOMAIN disk
      BY <2>1 DEF FilesInv
    <3>2. /\ DOMAIN disk' = DOMAIN disk
          /\ \A a \in DOMAIN disk : a # user => disk'[a] = disk[a]
          /\ DOMAIN disk'[user] \subseteq DOMAIN disk[user] \cup none
          /\ \A j \in DOMAIN disk'[user] \ none : disk'[user][j] = disk[user][j]
      BY <2>1, <3>1, DeleteRowsDomain
    <3>3. \A j \in DOMAIN disk'[user] \cap none : Opens(disk'[user][j], tier[user])
      OBVIOUS
    <3> HIDE DEF none
    <3>4. FilesInv' /\ OnDisk' \subseteq OnDisk \cup none /\ OutOfReach' \subseteq OutOfReach
      BY <2>1, <3>1, <3>2, <3>3, FileChanges
    <3> QED  BY <3>4 DEF none
  <2>3. Cache!Miss(k)
    BY <1>2, <2>1, <2>2 DEF LookupOnDisk, Cache!Miss, Held
  <2> QED  BY <2>2, <2>3 DEF Kept, Cache!Next
<1> QED  BY <1>1, <1>2

LEMMA LookupMissedStep ==
  ASSUME FilesInv, NEW k \in Key, LookupMissed(k)
  PROVE  Kept
<1>1. FilesInv' /\ OnDisk' = OnDisk /\ OutOfReach' = OutOfReach
  BY FilesUnchanged DEF LookupMissed
<1>2. Cache!Miss(k)
  BY <1>1 DEF LookupMissed, Cache!Miss, Held
<1> QED  BY <1>1, <1>2 DEF Kept, Cache!Next

LEMMA PutStep ==
  ASSUME FilesInv, NEW k \in Key, Put(k)
  PROVE  Kept
<1>1. DOMAIN memory' \subseteq DOMAIN memory \cup {k}
  BY InsertDomain DEF Put
<1>2. FilesInv' /\ OnDisk' \subseteq OnDisk \cup {k} /\ OutOfReach' \subseteq OutOfReach
  <2>1. CASE UNCHANGED disk
    BY <2>1, FilesUnchanged DEF Put
  <2>2. CASE user \in DOMAIN tier /\ disk' = [disk EXCEPT ![user] = Upsert(@, k, tier[user])]
    <3> DEFINE written == {k}
    <3>1. written \in SUBSET KeysOf(user) /\ user \in DOMAIN disk
      BY <2>2 DEF Put, FilesInv, KeysOf
    <3>2. disk'[user] = Upsert(disk[user], k, tier[user])
      BY <2>2, <3>1
    <3>3. \A j \in DOMAIN disk'[user] \cap written : Opens(disk'[user][j], tier[user])
      BY <3>2, EnforceBudgetDrops DEF Upsert, Assign, Sealed, Opens
    <3>4. /\ DOMAIN disk' = DOMAIN disk /\ UNCHANGED tier
          /\ \A a \in DOMAIN disk : a # user => disk'[a] = disk[a]
      BY <2>2 DEF Put
    <3>5. /\ DOMAIN disk'[user] \subseteq DOMAIN disk[user] \cup written
          /\ \A j \in DOMAIN disk'[user] \ written : disk'[user][j] = disk[user][j]
      BY <3>2, UpsertDomain
    <3> HIDE DEF written
    <3>6. FilesInv' /\ OnDisk' \subseteq OnDisk \cup written /\ OutOfReach' \subseteq OutOfReach
      BY <2>2, <3>1, <3>3, <3>4, <3>5, FileChanges
    <3> QED  BY <3>6 DEF written
  <2> QED  BY <2>1, <2>2 DEF Put
<1>3. Cache!Put(k)
  BY <1>1, <1>2 DEF Put, Cache!Put, Held
<1> QED  BY <1>2, <1>3 DEF Kept, Cache!Next

LEMMA InvalidateStep ==
  ASSUME FilesInv, NEW keys \in SUBSET Key, Invalidate(keys)
  PROVE  Kept
<1>1. keys \in SUBSET KeysOf(user) /\ UNCHANGED tier /\ DOMAIN memory' = DOMAIN memory \ keys
  BY EraseDomain DEF Invalidate, KeysOf
<1>2. /\ FilesInv' /\ OutOfReach' \subseteq OutOfReach
      /\ OnDisk' \subseteq OnDisk \ keys
  <2>1. CASE user \in DOMAIN tier
    <3> DEFINE none == {}
    <3>1. none \in SUBSET KeysOf(user) /\ user \in DOMAIN disk /\ disk' = DeleteRows(user, keys)
      BY <2>1 DEF FilesInv, Invalidate
    <3>2. /\ DOMAIN disk' = DOMAIN disk
          /\ \A a \in DOMAIN disk : a # user => disk'[a] = disk[a]
          /\ DOMAIN disk'[user] = DOMAIN disk[user] \ keys
          /\ \A j \in DOMAIN disk'[user] \ none : disk'[user][j] = disk[user][j]
      BY <3>1, DeleteRowsDomain
    <3>3. \A j \in DOMAIN disk'[user] \cap none : Opens(disk'[user][j], tier[user])
      OBVIOUS
    <3>4. DOMAIN disk'[user] \subseteq DOMAIN disk[user] \cup none
      BY <3>2
    <3> HIDE DEF none
    <3>5. /\ FilesInv' /\ OnDisk' \subseteq OnDisk \cup none /\ OutOfReach' \subseteq OutOfReach
          /\ \A k \in OnDisk' \ none : k \in KeysOf(user) => k \in DOMAIN disk'[user]
      BY <1>1, <2>1, <3>1, <3>2, <3>3, <3>4, FileChanges
    <3> QED  BY <1>1, <3>2, <3>5 DEF none
  <2>2. CASE user \notin DOMAIN tier
    <3>1. FilesInv' /\ OnDisk' = OnDisk /\ OutOfReach' = OutOfReach
      BY <2>2, FilesUnchanged DEF Invalidate
    <3>2. ASSUME NEW k \in OnDisk PROVE k \notin keys
      <4>1. PICK a \in DOMAIN tier : k \in Readable(a)
        BY Reach
      <4> QED  BY <1>1, <2>2, <4>1 DEF Readable, KeysOf
    <3> QED  BY <3>1, <3>2
  <2> QED  BY <2>1, <2>2
<1>3. Cache!Forget(keys)
  BY <1>1, <1>2 DEF Invalidate, Cache!Forget, Held
<1> QED  BY <1>2, <1>3 DEF Kept, Cache!Next

(* The user's tier leaves the map; its file stays or is destroyed.         *)
LEMMA TierLeaves ==
  ASSUME FilesInv,
         tier' = Restrict(tier, DOMAIN tier \ {user}),
         DOMAIN disk' \subseteq DOMAIN disk, DOMAIN disk \ {user} \subseteq DOMAIN disk',
         \A a \in DOMAIN disk' : disk'[a] = disk[a]
  PROVE  /\ FilesInv'
         /\ OnDisk' \subseteq OnDisk \ KeysOf(user)
         /\ OutOfReach' \subseteq OutOfReach \cup KeysOf(user)
         /\ (user \in DOMAIN tier => user \notin DOMAIN disk') => OutOfReach' \subseteq OutOfReach
<1>1. DOMAIN tier' = DOMAIN tier \ {user} /\ \A a \in DOMAIN tier' : tier'[a] = tier[a]
  BY DEF Restrict
<1>2. FilesInv'
  BY <1>1 DEF FilesInv, KeysOf
<1>3. ASSUME NEW a \in DOMAIN tier' PROVE Readable(a)' = Readable(a)
  BY <1>1, <1>2 DEF Readable, KeysOf, FilesInv
<1>4. OnDisk' \subseteq OnDisk \ KeysOf(user)
  <2> SUFFICES ASSUME NEW k \in OnDisk' PROVE k \in OnDisk /\ k \notin KeysOf(user)
    OBVIOUS
  <2>1. PICK a \in DOMAIN tier' : k \in Readable(a)'
    BY ReachNext
  <2>2. k \in Readable(a) /\ a \in DOMAIN tier /\ a # user
    BY <1>1, <1>3, <2>1
  <2> QED  BY <2>2, Reach DEF Readable, KeysOf
<1>5. ASSUME NEW k \in OutOfReach', k \notin OutOfReach
      PROVE  k \in KeysOf(user) /\ user \in DOMAIN tier /\ user \in DOMAIN disk'
  <2>1. PICK a \in DOMAIN disk' : k \in DOMAIN disk'[a]
    BY ReachNext
  <2>2. k \in DOMAIN disk[a] /\ a \in DOMAIN disk /\ k \in KeysOf(a) /\ k \notin OnDisk'
    BY <1>5, <2>1, ReachNext DEF FilesInv
  <2>3. PICK b \in DOMAIN tier : k \in Readable(b)
    BY <1>5, <2>2, Reach
  <2>4. b = a
    BY <2>2, <2>3 DEF Readable, KeysOf
  <2>5. b = user
    BY <1>1, <1>3, <2>2, <2>3, ReachNext
  <2> QED  BY <2>1, <2>2, <2>3, <2>4, <2>5
<1> QED  BY <1>2, <1>4, <1>5

LEMMA UnloadStep ==
  ASSUME FilesInv, UnloadAccount
  PROVE  Kept
<1>1. /\ FilesInv' /\ OnDisk' \subseteq OnDisk \ KeysOf(user)
      /\ OutOfReach' \subseteq OutOfReach \cup KeysOf(user)
  BY TierLeaves DEF UnloadAccount
<1>2. DOMAIN memory' = DOMAIN memory \ KeysOf(user)
  BY EraseDomain DEF UnloadAccount
<1>3. Cache!Close(KeysOf(user))
  BY <1>1, <1>2 DEF UnloadAccount, Cache!Close, Held
<1>4. KeysOf(user) \in SUBSET Key
  BY DEF KeysOf
<1> QED  BY <1>1, <1>3, <1>4 DEF Kept, Cache!Next

LEMMA SignOutStep ==
  ASSUME FilesInv, SignOut
  PROVE  Kept
<1>1. /\ DOMAIN disk' \subseteq DOMAIN disk /\ DOMAIN disk \ {user} \subseteq DOMAIN disk'
      /\ \A a \in DOMAIN disk' : disk'[a] = disk[a]
      /\ user \in DOMAIN tier => user \notin DOMAIN disk'
  BY DEF SignOut, Destroy, Restrict
<1>2. FilesInv' /\ OnDisk' \subseteq OnDisk \ KeysOf(user) /\ OutOfReach' \subseteq OutOfReach
  BY <1>1, TierLeaves DEF SignOut
<1>3. DOMAIN memory' = DOMAIN memory \ KeysOf(user)
  BY EraseDomain DEF SignOut
<1>4. Cache!Forget(KeysOf(user))
  BY <1>2, <1>3 DEF SignOut, Cache!Forget, Held
<1>5. KeysOf(user) \in SUBSET Key
  BY DEF KeysOf
<1> QED  BY <1>2, <1>4, <1>5 DEF Kept, Cache!Next

(* Attaching adds no row: what comes into reach was out of it before.      *)
LEMMA AttachStep ==
  ASSUME FilesInv, Attach
  PROVE  Kept
<1>1. /\ DOMAIN disk' = DOMAIN disk \cup {user}
      /\ \A a \in DOMAIN disk : disk'[a] = disk[a]
      /\ user \notin DOMAIN disk => DOMAIN disk'[user] = {}
  BY DEF Attach, OpenFile, Assign
<1>2. FilesInv'
  BY <1>1 DEF Attach, Assign, FilesInv, KeysOf
<1>3. ASSUME NEW k, k \in OnDisk' \/ k \in OutOfReach' PROVE k \in OnDisk \/ k \in OutOfReach
  <2>1. \E a \in DOMAIN disk' : k \in DOMAIN disk'[a]
    BY <1>2, <1>3, ReachNext DEF Readable, FilesInv
  <2>2. \E a \in DOMAIN disk : k \in DOMAIN disk[a]
    BY <1>1, <2>1
  <2> QED  BY <2>2, Reach
<1>4. UNCHANGED memory
  BY DEF Attach
<1>5. Cache!Open
  BY <1>3, <1>4 DEF Attach, Cache!Open, Held
<1> QED  BY <1>2, <1>5 DEF Kept, Cache!Next

LEMMA CrashStep ==
  ASSUME FilesInv, Crash
  PROVE  Kept
<1>1. DOMAIN tier' = {} /\ DOMAIN memory' = {} /\ UNCHANGED disk
  BY DEF Crash
<1>2. FilesInv'
  BY <1>1 DEF FilesInv, KeysOf
<1>3. Held' = {}
  BY <1>1, ReachNext
<1>4. OutOfReach' \subseteq OutOfReach \cup Key
  <2> SUFFICES ASSUME NEW k \in OutOfReach', k \notin Key PROVE k \in OutOfReach
    OBVIOUS
  <2>1. \E a \in DOMAIN disk : k \in DOMAIN disk[a]
    BY <1>1, ReachNext
  <2>2. k \notin OnDisk
    BY Reach DEF Readable, KeysOf
  <2> QED  BY <2>1, <2>2, Reach
<1>5. Cache!Close(Key)
  BY <1>3, <1>4 DEF Crash, Cache!Close
<1> QED  BY <1>2, <1>5 DEF Kept, Cache!Next

LEMMA KeepsStep ==
  ASSUME FilesInv, [Next]_vars
  PROVE  Kept
<1>1. CASE UNCHANGED vars
  BY <1>1, OffTheCache DEF vars
<1>2. ASSUME NEW a \in Account, SignIn(a) PROVE Kept
  BY <1>2, OffTheCache DEF SignIn
<1>3. ASSUME NEW k \in Key,
             LookupInMemory(k) \/ LookupOnDisk(k) \/ LookupMissed(k) \/ Put(k)
      PROVE  Kept
  BY <1>3, LookupInMemoryStep, LookupOnDiskStep, LookupMissedStep, PutStep
<1>4. ASSUME NEW k \in Key, Invalidate({k}) \/ InvalidateMailbox(k.mailbox) PROVE Kept
  BY <1>4, InvalidateStep DEF InvalidateMailbox, KeysOf
<1>5. CASE UnloadAccount
  BY <1>5, UnloadStep
<1>6. CASE SignOut
  BY <1>6, SignOutStep
<1>7. CASE KeyRemoved
  BY <1>7, OffTheCache DEF KeyRemoved
<1>8. CASE Ensure
  BY <1>8, OffTheCache DEF Ensure
<1>9. CASE KeyFound
  BY <1>9, OffTheCache DEF KeyFound
<1>10. CASE KeyGenerated
  BY <1>10, OffTheCache DEF KeyGenerated
<1>11. CASE KeyStored
  BY <1>11, OffTheCache DEF KeyStored
<1>12. CASE Attach
  BY <1>12, AttachStep
<1>13. CASE AttachFailed
  BY <1>13, OffTheCache DEF AttachFailed
<1>14. CASE Crash
  BY <1>14, CrashStep
<1> QED
  BY <1>1, <1>2, <1>3, <1>4, <1>5, <1>6, <1>7, <1>8, <1>9, <1>10, <1>11, <1>12, <1>13, <1>14
  DEF Next

(* Whatever fails and whatever runs in a nested event loop, the tiers keep *)
(* the promise of IMessageCache: TieredMessageCache over any accounts,     *)
(* keys, sizes and budgets implements MessageCache.                        *)
THEOREM PromiseTheorem == Spec => KeepsPromise
<1>1. Init => FilesInv /\ Cache!Init
  <2> SUFFICES ASSUME Init PROVE FilesInv /\ Cache!Init
    OBVIOUS
  <2>1. DOMAIN tier = {} /\ DOMAIN disk = {} /\ DOMAIN memory = {}
    BY DEF Init
  <2>2. Held = {} /\ OutOfReach = {}
    BY <2>1, Reach
  <2> QED  BY <2>1, <2>2 DEF Init, FilesInv, Cache!Init
<1>2. FilesInv /\ [Next]_vars => FilesInv' /\ [Cache!Next]_(Cache!vars)
  BY KeepsStep DEF Kept
<1> QED  BY <1>1, <1>2, PTL DEF Spec, KeepsPromise, Cache!Spec

-----------------------------------------------------------------------------
(* The types.                                                              *)

Frames == [op : {"ensure", "signout"}, account : Account,
           at : {"retrieve", "store", "attach", "remove"}, cipher : 0 .. MaxCiphers]

(* A call that is about to store a key, or to attach a tier under it, has  *)
(* one: without this a tier could be attached under no key at all.         *)
FramesInv == \A i \in DOMAIN stack : stack[i].at \in {"store", "attach"} => stack[i].cipher # 0

(* TypeOK but for the files, which have a lemma of their own.              *)
StateType ==
  /\ user \in Account \cup {NoAccount}
  /\ Partial(memory, Key, 1 .. MaxCalls)
  /\ Partial(tier, Account \cup {NoAccount}, 1 .. MaxCiphers)
  /\ Partial(keychain, Account, 1 .. MaxCiphers)
  /\ ciphers \in 0 .. MaxCiphers
  /\ calls \in 0 .. MaxCalls

StackType == stack \in Seq(Frames) /\ FramesInv

FilesType ==
  /\ DOMAIN disk \subseteq Account \cup {NoAccount}
  /\ \A a \in DOMAIN disk : Partial(disk[a], KeysOf(a), Row)
  /\ DOMAIN tier \subseteq DOMAIN disk

LEMMA PartialAssign ==
  ASSUME NEW S, NEW T, NEW f, Partial(f, S, T), NEW k \in S, NEW v \in T
  PROVE  Partial(Assign(f, k, v), S, T)
BY DEF Partial, Assign

LEMMA PartialRestrict ==
  ASSUME NEW S, NEW T, NEW f, Partial(f, S, T), NEW U \in SUBSET DOMAIN f
  PROVE  Partial(Restrict(f, U), S, T)
BY DEF Partial, Restrict

LEMMA PartialInsert ==
  ASSUME NEW S, NEW T, NEW f, Partial(f, S, T), NEW k \in S, NEW v \in T
  PROVE  Partial(Touch(f, k, v), S, T) /\ Partial(Insert(f, k, v), S, T)
<1>1. Partial(Touch(f, k, v), S, T)
  BY PartialAssign DEF Touch
<1> DEFINE touched == Touch(f, k, v)
           U == {j \in DOMAIN touched : WithinBudget({i \in DOMAIN touched : touched[i] >= touched[j]})}
<1>2. Insert(f, k, v) = Restrict(touched, U) /\ U \in SUBSET DOMAIN touched
  BY DEF Insert, EvictUntilWithinBudget
<1> QED  BY <1>1, <1>2, PartialRestrict

LEMMA PartialUpsert ==
  ASSUME NEW S, NEW rows, Partial(rows, S, Row), NEW k \in S, NEW cipher \in 1 .. MaxCiphers,
         now \in 1 .. MaxCalls
  PROVE  Partial(Upsert(rows, k, cipher), S, Row)
<1> DEFINE all == Assign(rows, k, Sealed(cipher))
<1>1. Sealed(cipher) \in Row
  BY DEF Sealed, Row
<1>2. Partial(all, S, Row)
  BY <1>1, PartialAssign
<1> HIDE DEF all
<1>3. \E U \in SUBSET DOMAIN all : EnforceBudget(all) = Restrict(all, U)
  BY DEF EnforceBudget
<1>4. Partial(EnforceBudget(all), S, Row)
  BY <1>2, <1>3, PartialRestrict
<1> QED  BY <1>4 DEF Upsert, all

(* A handler that runs is counted within the bound.                        *)
LEMMA HandlerType ==
  ASSUME calls \in 0 .. MaxCalls, Handler
  PROVE  now \in 1 .. MaxCalls /\ calls' \in 0 .. MaxCalls
BY DiskAssumption DEF Handler, now

LEMMA TopType ==
  ASSUME StackType, stack # <<>>
  PROVE  /\ Top \in Frames
         /\ Top.at \in {"store", "attach"} => Top.cipher \in 1 .. MaxCiphers
<1>1. Len(stack) \in DOMAIN stack /\ Top \in Frames
  BY DEF StackType, Top
<1>2. Top.at \in {"store", "attach"} => Top.cipher # 0
  BY <1>1 DEF StackType, FramesInv, Top
<1> QED  BY <1>1, <1>2, DiskAssumption DEF Frames

LEMMA ReturnType ==
  ASSUME StackType, stack # <<>>, Return
  PROVE  StackType'
BY DEF StackType, FramesInv, Return

LEMMA CallType ==
  ASSUME StackType, NEW op \in {"ensure", "signout"}, NEW a \in Account,
         NEW at \in {"retrieve", "remove"}, stack' = Append(stack, Frame(op, a, at, 0))
  PROVE  StackType'
<1>1. Frame(op, a, at, 0) \in Frames /\ Frame(op, a, at, 0).at = at
  BY DiskAssumption DEF Frame, Frames
<1> QED  BY <1>1 DEF StackType, FramesInv

LEMMA GotoType ==
  ASSUME StackType, stack # <<>>, NEW at \in {"store", "attach"},
         NEW cipher \in 1 .. MaxCiphers, Goto(at, cipher)
  PROVE  StackType'
<1> DEFINE n == Len(stack)
           Updated(f) == [f EXCEPT !.at = at, !.cipher = cipher]
           frame == Updated(stack[n])
<1>1. n \in 1 .. Len(stack) /\ stack[n] \in Frames
  BY DEF StackType
<1>2. \A f \in Frames : Updated(f) \in Frames /\ Updated(f).at = at /\ Updated(f).cipher = cipher
  <2>1. cipher \in 0 .. MaxCiphers
    BY DiskAssumption
  <2> QED  BY <2>1 DEF Frames
<1>3. stack' = [stack EXCEPT ![n] = frame]
  BY <1>1 DEF Goto, StackType
<1> HIDE DEF Updated
<1>4. frame \in Frames /\ frame.at = at /\ frame.cipher = cipher
  BY <1>1, <1>2
<1> HIDE DEF frame
<1>5. stack' \in Seq(Frames) /\ DOMAIN stack' = DOMAIN stack
  BY <1>1, <1>3, <1>4 DEF StackType
<1>6. ASSUME NEW i \in DOMAIN stack', stack'[i].at \in {"store", "attach"}
      PROVE  stack'[i].cipher # 0
  BY <1>1, <1>3, <1>4, <1>5, <1>6 DEF StackType, FramesInv
<1> QED  BY <1>5, <1>6 DEF StackType, FramesInv

TypesInv == StateType /\ StackType /\ FilesType

LEMMA StackStep ==
  ASSUME TypesInv, [Next]_vars
  PROVE  StackType'
<1> USE DEF TypesInv
<1>1. CASE UNCHANGED stack
  BY <1>1 DEF StackType, FramesInv
<1>2. CASE SignOut
  <2>1. user \in Account
    BY <1>2 DEF SignOut, StateType
  <2> QED  BY <1>1, <1>2, <2>1, CallType DEF SignOut
<1>3. CASE Ensure
  <2>1. user \in Account
    BY <1>3 DEF Ensure, StateType
  <2> QED  BY <1>3, <2>1, CallType DEF Ensure
<1>4. CASE KeyRemoved \/ Attach \/ AttachFailed
  BY <1>4, ReturnType DEF KeyRemoved, Attach, AttachFailed
<1>5. CASE KeyFound
  <2>1. keychain[Top.account] \in 1 .. MaxCiphers
    BY <1>5 DEF KeyFound, StateType, Partial
  <2> QED  BY <1>5, <2>1, GotoType DEF KeyFound
<1>6. CASE KeyGenerated
  <2>1. ciphers + 1 \in 1 .. MaxCiphers
    BY <1>6, DiskAssumption DEF KeyGenerated, StateType
  <2> QED  BY <1>6, <2>1, GotoType DEF KeyGenerated
<1>7. CASE KeyStored
  BY <1>7, TopType, GotoType DEF KeyStored
<1>8. CASE Crash
  BY <1>8 DEF Crash, StackType, FramesInv
<1> QED
  BY <1>1, <1>2, <1>3, <1>4, <1>5, <1>6, <1>7, <1>8
  DEF Next, vars, SignIn, LookupInMemory, LookupOnDisk, LookupMissed, Put, Invalidate,
      InvalidateMailbox, UnloadAccount

LEMMA StateStep ==
  ASSUME TypesInv, [Next]_vars
  PROVE  StateType'
<1> USE DEF TypesInv
<1>1. CASE UNCHANGED vars
  BY <1>1 DEF vars, StateType
<1>2. ASSUME NEW a \in Account, SignIn(a) PROVE StateType'
  BY <1>2, HandlerType DEF SignIn, StateType
<1>3. ASSUME NEW k \in Key, LookupInMemory(k) PROVE StateType'
  BY <1>3, HandlerType, PartialInsert DEF LookupInMemory, StateType
<1>4. ASSUME NEW k \in Key, LookupOnDisk(k) PROVE StateType'
  BY <1>4, HandlerType, PartialInsert DEF LookupOnDisk, StateType
<1>5. ASSUME NEW k \in Key, LookupMissed(k) PROVE StateType'
  BY <1>5, HandlerType DEF LookupMissed, StateType
<1>6. ASSUME NEW k \in Key, Put(k) PROVE StateType'
  BY <1>6, HandlerType, PartialInsert DEF Put, Completion, StateType
<1>7. ASSUME NEW keys, Invalidate(keys) PROVE StateType'
  <2>1. Partial(memory', Key, 1 .. MaxCalls)
    BY <1>7, PartialRestrict DEF Invalidate, Erase, StateType
  <2> QED  BY <1>7, <2>1, HandlerType DEF Invalidate, Completion, StateType
<1>8. CASE UnloadAccount \/ SignOut
  <2>1. Partial(memory', Key, 1 .. MaxCalls)
    BY <1>8, PartialRestrict DEF UnloadAccount, SignOut, Erase, StateType
  <2>2. Partial(tier', Account \cup {NoAccount}, 1 .. MaxCiphers)
    BY <1>8, PartialRestrict DEF UnloadAccount, SignOut, StateType
  <2> QED  BY <1>8, <2>1, <2>2, HandlerType DEF UnloadAccount, SignOut, StateType
<1>9. CASE KeyRemoved
  <2>1. Partial(keychain', Account, 1 .. MaxCiphers)
    BY <1>9, PartialRestrict DEF KeyRemoved, StateType
  <2> QED  BY <1>9, <2>1 DEF KeyRemoved, StateType
<1>10. CASE Ensure
  BY <1>10, HandlerType DEF Ensure, StateType
<1>11. CASE KeyFound \/ AttachFailed
  BY <1>11 DEF KeyFound, AttachFailed, StateType
<1>12. CASE KeyGenerated
  BY <1>12, DiskAssumption DEF KeyGenerated, StateType
<1>13. CASE KeyStored
  <2>1. Top.account \in Account /\ Top.cipher \in 1 .. MaxCiphers
    BY <1>13, TopType DEF KeyStored, Frames
  <2>2. Partial(keychain', Account, 1 .. MaxCiphers)
    BY <1>13, <2>1, PartialAssign DEF KeyStored, StateType
  <2> QED  BY <1>13, <2>2 DEF KeyStored, StateType
<1>14. CASE Attach
  <2>1. Top.cipher \in 1 .. MaxCiphers
    BY <1>14, TopType DEF Attach
  <2>2. Partial(tier', Account \cup {NoAccount}, 1 .. MaxCiphers)
    BY <1>14, <2>1, PartialAssign DEF Attach, StateType
  <2> QED  BY <1>14, <2>2 DEF Attach, StateType
<1>15. CASE Crash
  BY <1>15, HandlerType DEF Crash, StateType, Partial
<1> QED
  BY <1>1, <1>2, <1>3, <1>4, <1>5, <1>6, <1>7, <1>8, <1>9, <1>10, <1>11, <1>12, <1>13, <1>14, <1>15
  DEF Next, InvalidateMailbox

(* Deleting rows leaves every file a file.                                 *)
LEMMA DeleteRowsType ==
  ASSUME FilesType, NEW a \in DOMAIN disk, NEW keys
  PROVE  \A b \in DOMAIN disk : Partial(DeleteRows(a, keys)[b], KeysOf(b), Row)
<1>1. DeleteRows(a, keys)[a] = Restrict(disk[a], DOMAIN disk[a] \ keys)
  BY DEF DeleteRows
<1>2. Partial(disk[a], KeysOf(a), Row)
  BY DEF FilesType
<1>3. Partial(DeleteRows(a, keys)[a], KeysOf(a), Row)
  BY <1>1, <1>2, PartialRestrict
<1> QED  BY <1>3, DeleteRowsDomain DEF FilesType

LEMMA FilesStep ==
  ASSUME TypesInv, [Next]_vars
  PROVE  FilesType'
<1> USE DEF TypesInv
<1>1. CASE UNCHANGED <<tier, disk>>
  BY <1>1 DEF FilesType, KeysOf, Partial, Row
<1>2. ASSUME NEW k \in Key, LookupOnDisk(k) PROVE FilesType'
  <2>1. CASE UNCHANGED disk
    BY <1>1, <1>2, <2>1 DEF LookupOnDisk
  <2>2. CASE disk' = DeleteRows(user, {k})
    <3>1. user \in DOMAIN disk /\ UNCHANGED tier
      BY <1>2 DEF LookupOnDisk, FilesType
    <3>2. \A b \in DOMAIN disk : Partial(disk'[b], KeysOf(b), Row)
      BY <2>2, <3>1, DeleteRowsType
    <3>3. DOMAIN disk' = DOMAIN disk
      BY <2>2, <3>1, DeleteRowsDomain
    <3> QED  BY <3>1, <3>2, <3>3 DEF FilesType, KeysOf, Partial, Row
  <2> QED  BY <1>2, <2>1, <2>2 DEF LookupOnDisk
<1>3. ASSUME NEW k \in Key, Put(k) PROVE FilesType'
  <2>1. CASE UNCHANGED disk
    BY <1>1, <1>3, <2>1 DEF Put
  <2>2. CASE user \in DOMAIN tier /\ disk' = [disk EXCEPT ![user] = Upsert(@, k, tier[user])]
    <3>1. user \in DOMAIN disk /\ UNCHANGED tier /\ DOMAIN disk' = DOMAIN disk
      BY <1>3, <2>2 DEF Put, FilesType
    <3>2. now \in 1 .. MaxCalls
      BY <1>3, HandlerType DEF Put, Completion, StateType
    <3>3. tier[user] \in 1 .. MaxCiphers /\ k \in KeysOf(user) /\ Partial(disk[user], KeysOf(user), Row)
      BY <1>3, <2>2, <3>1 DEF Put, StateType, FilesType, Partial, KeysOf
    <3>4. Partial(Upsert(disk[user], k, tier[user]), KeysOf(user), Row)
      BY <3>2, <3>3, PartialUpsert
    <3>5. \A b \in DOMAIN disk : Partial(disk'[b], KeysOf(b), Row)
      BY <2>2, <3>1, <3>4 DEF FilesType
    <3> QED  BY <3>1, <3>5 DEF FilesType, KeysOf, Partial, Row
  <2> QED  BY <1>3, <2>1, <2>2 DEF Put
<1>4. ASSUME NEW keys, Invalidate(keys) PROVE FilesType'
  <2>1. CASE user \in DOMAIN tier
    <3>1. user \in DOMAIN disk /\ UNCHANGED tier /\ disk' = DeleteRows(user, keys)
      BY <1>4, <2>1 DEF Invalidate, FilesType
    <3>2. \A b \in DOMAIN disk : Partial(disk'[b], KeysOf(b), Row)
      BY <3>1, DeleteRowsType
    <3>3. DOMAIN disk' = DOMAIN disk
      BY <3>1, DeleteRowsDomain
    <3> QED  BY <3>1, <3>2, <3>3 DEF FilesType, KeysOf, Partial, Row
  <2>2. CASE user \notin DOMAIN tier
    BY <1>1, <1>4, <2>2 DEF Invalidate
  <2> QED  BY <2>1, <2>2
<1>5. CASE UnloadAccount \/ SignOut
  <2>1. /\ DOMAIN tier' = DOMAIN tier \ {user}
        /\ DOMAIN disk' \subseteq DOMAIN disk /\ DOMAIN disk \ {user} \subseteq DOMAIN disk'
        /\ \A a \in DOMAIN disk' : disk'[a] = disk[a]
    BY <1>5 DEF UnloadAccount, SignOut, Destroy, Restrict
  <2> QED  BY <2>1 DEF FilesType, KeysOf, Partial, Row
<1>6. CASE Attach
  <2>1. /\ DOMAIN disk' = DOMAIN disk \cup {user} /\ DOMAIN tier' = DOMAIN tier \cup {user}
        /\ \A a \in DOMAIN disk : disk'[a] = disk[a]
        /\ user \notin DOMAIN disk => disk'[user] = <<>>
    BY <1>6 DEF Attach, OpenFile, Assign
  <2>2. Partial(<<>>, KeysOf(user), Row)
    BY DEF Partial
  <2>3. user \in Account \cup {NoAccount}
    BY DEF StateType
  <2>4. \A a \in DOMAIN disk' : Partial(disk'[a], KeysOf(a), Row)
    BY <2>1, <2>2 DEF FilesType
  <2> QED  BY <2>1, <2>3, <2>4 DEF FilesType, KeysOf, Partial, Row
<1>7. CASE Crash
  BY <1>7 DEF Crash, FilesType, KeysOf, Partial, Row
<1> QED
  BY <1>1, <1>2, <1>3, <1>4, <1>5, <1>6, <1>7
  DEF Next, vars, SignIn, LookupInMemory, LookupMissed, InvalidateMailbox, KeyRemoved, Ensure,
      KeyFound, KeyGenerated, KeyStored, AttachFailed

(* The types of the two tiers, the files, the keychain and the suspended   *)
(* calls; in particular an attached tier has its file and seals under a    *)
(* key that was generated.                                                 *)
THEOREM CacheTypes == Spec => []TypeOK
<1>1. Init => TypesInv
  BY DiskAssumption DEF Init, TypesInv, StateType, StackType, FramesInv, FilesType, Partial
<1>2. TypesInv /\ [Next]_vars => TypesInv'
  BY StackStep, StateStep, FilesStep DEF TypesInv
<1>3. TypesInv => TypeOK
  BY DEF TypesInv, StateType, StackType, FilesType, TypeOK, Frames
<1> QED  BY <1>1, <1>2, <1>3, PTL DEF Spec

-----------------------------------------------------------------------------
(* The sum of the sizes. It is defined by recursion over the set, and the  *)
(* prover knows nothing about it; counting unit cells, as many for each    *)
(* key as its message has bytes, gives the same.                           *)

Cells(keys) == UNION {{k} \X (1 .. Size[k]) : k \in keys}

LEMMA CellsFinite ==
  ASSUME NEW keys \in SUBSET Key, IsFiniteSet(keys)
  PROVE  IsFiniteSet(Cells(keys)) /\ Cardinality(Cells(keys)) \in Nat
<1> DEFINE column == [k \in keys |-> {k} \X (1 .. Size[k])]
           columns == {{k} \X (1 .. Size[k]) : k \in keys}
<1>1. column \in Surjection(keys, columns)
  BY DEF Surjection
<1>2. IsFiniteSet(columns)
  <2> HIDE DEF column, columns
  <2> QED  BY <1>1, FS_Surjection
<1>3. ASSUME NEW C \in columns PROVE IsFiniteSet(C)
  <2>1. PICK k \in keys : C = {k} \X (1 .. Size[k])
    OBVIOUS
  <2>2. Size[k] \in Int
    BY SizeAssumption
  <2>3. IsFiniteSet({k}) /\ IsFiniteSet(1 .. Size[k])
    <3>1. IsFiniteSet({k})
      BY FS_Singleton
    <3>2. IsFiniteSet(1 .. Size[k])
      BY <2>2, FS_Interval
    <3> QED  BY <3>1, <3>2
  <2>4. IsFiniteSet({k} \X (1 .. Size[k]))
    BY <2>3, FS_Product
  <2> QED  BY <2>1, <2>4
<1>4. IsFiniteSet(UNION columns)
  <2> HIDE DEF columns
  <2> QED  BY <1>2, <1>3, FS_UNION
<1> QED  BY <1>4, FS_CardinalityType DEF Cells

LEMMA CellsOfOneMore ==
  ASSUME NEW keys \in SUBSET Key, IsFiniteSet(keys), NEW x \in keys
  PROVE  Cardinality(Cells(keys)) = Size[x] + Cardinality(Cells(keys \ {x}))
<1> DEFINE column == {x} \X (1 .. Size[x])
           rest   == Cells(keys \ {x})
<1>1. Size[x] \in Nat
  BY SizeAssumption
<1>2. IsFiniteSet(column) /\ Cardinality(column) = Size[x]
  <2>1. IsFiniteSet({x}) /\ Cardinality({x}) = 1
    BY FS_Singleton
  <2>2. IsFiniteSet(1 .. Size[x]) /\ Cardinality(1 .. Size[x]) = Size[x]
    BY <1>1, FS_Interval
  <2>3. IsFiniteSet(column) /\ Cardinality(column) = Cardinality({x}) * Cardinality(1 .. Size[x])
    BY <2>1, <2>2, FS_Product
  <2>4. Cardinality(column) = 1 * Size[x]
    BY <2>1, <2>2, <2>3
  <2> QED  BY <1>1, <2>3, <2>4
<1>3. IsFiniteSet(keys \ {x}) /\ keys \ {x} \in SUBSET Key
  BY FS_RemoveElement
<1>4. IsFiniteSet(rest) /\ Cardinality(rest) \in Nat
  BY <1>3, CellsFinite
<1>5. Cells(keys) = column \cup rest
  BY DEF Cells
<1>6. column \cap rest = {}
  BY DEF Cells
<1>7. Cardinality(column \cap rest) = 0
  BY <1>6, FS_EmptySet
<1> HIDE DEF column, rest
<1>8. Cardinality(column \cup rest) = Cardinality(column) + Cardinality(rest) - Cardinality(column \cap rest)
  BY <1>2, <1>4, FS_Union
<1> QED  BY <1>1, <1>2, <1>4, <1>5, <1>7, <1>8 DEF rest

LEMMA BytesAreCells ==
  ASSUME NEW keys \in SUBSET Key, IsFiniteSet(keys)
  PROVE  Bytes(keys) = Cardinality(Cells(keys))
<1> DEFINE pick(s) == CHOOSE x \in s : TRUE
           Sums(g) == [s \in SUBSET keys |->
                         IF s = {} THEN 0 ELSE Size[pick(s)] + g[s \ {pick(s)}]]
           sum == CHOOSE g : g = Sums(g)
           count == [s \in SUBSET keys |-> Cardinality(Cells(s))]
<1>1. Bytes(keys) = sum[keys]
  BY DEF Bytes, MapThenSumSet, MapThenFoldSet
<1>2. ASSUME NEW s \in SUBSET keys, s # {}
      PROVE  /\ pick(s) \in s /\ s \ {pick(s)} \in SUBSET keys
             /\ count[s] = Size[pick(s)] + count[s \ {pick(s)}]
  <2>1. pick(s) \in s
    BY <1>2
  <2>2. IsFiniteSet(s) /\ s \in SUBSET Key
    BY FS_Subset
  <2> HIDE DEF pick
  <2>3. Cardinality(Cells(s)) = Size[pick(s)] + Cardinality(Cells(s \ {pick(s)}))
    BY <2>1, <2>2, CellsOfOneMore
  <2> QED  BY <2>1, <2>3
<1>3. count[{}] = 0
  <2>1. Cells({}) = {}
    BY DEF Cells
  <2> QED  BY <2>1, FS_EmptySet
<1>4. count = Sums(count)
  <2> SUFFICES ASSUME NEW s \in SUBSET keys PROVE count[s] = Sums(count)[s]
    OBVIOUS
  <2> HIDE DEF count, pick
  <2> QED  BY <1>2, <1>3
<1>5. sum = Sums(sum)
  <2> HIDE DEF count, Sums
  <2> QED  BY <1>4, Zenon
<1> HIDE DEF sum, count, pick
<1> DEFINE wrong == {s \in SUBSET keys : sum[s] # count[s]}
<1>6. wrong = {}
  <2> SUFFICES ASSUME wrong # {} PROVE FALSE
    OBVIOUS
  <2>1. wrong \in SUBSET FiniteSubsetsOf(keys)
    BY FS_FiniteSubsetsOfFinite
  <2>2. \E s \in wrong : \A t \in wrong : <<t, s>> \notin StrictSubsetOrdering(keys)
    <3> HIDE DEF wrong
    <3> QED  BY <2>1, FS_StrictSubsetOrderingWellFounded, WFMin, Zenon
  <2>3. PICK s \in wrong : \A t \in wrong : <<t, s>> \notin StrictSubsetOrdering(keys)
    BY <2>2
  <2>4. s # {}
    BY <1>3, <1>5
  <2> DEFINE t == s \ {pick(s)}
  <2>5. pick(s) \in s /\ t \in SUBSET keys /\ count[s] = Size[pick(s)] + count[t]
    BY <1>2, <2>4
  <2>6. <<t, s>> \in StrictSubsetOrdering(keys)
    BY <2>5 DEF StrictSubsetOrdering
  <2>7. sum[t] = count[t]
    BY <2>3, <2>5, <2>6
  <2>8. sum[s] = Size[pick(s)] + sum[t]
    BY <1>5, <2>4
  <2> QED  BY <2>5, <2>7, <2>8
<1>7. sum[keys] = count[keys]
  BY <1>6
<1> QED  BY <1>1, <1>7 DEF count

LEMMA BytesMonotone ==
  ASSUME NEW keys \in SUBSET Key, IsFiniteSet(keys), NEW some \in SUBSET keys
  PROVE  /\ Bytes(some) \in Nat /\ Bytes(keys) \in Nat
         /\ Bytes(some) <= Bytes(keys)
<1>1. IsFiniteSet(some) /\ some \in SUBSET Key
  BY FS_Subset
<1>2. Cells(some) \in SUBSET Cells(keys)
  BY DEF Cells
<1>3. IsFiniteSet(Cells(keys)) /\ Cardinality(Cells(keys)) \in Nat /\ Cardinality(Cells(some)) \in Nat
  BY <1>1, CellsFinite
<1>4. Cardinality(Cells(some)) <= Cardinality(Cells(keys))
  BY <1>2, <1>3, FS_Subset
<1> QED  BY <1>1, <1>3, <1>4, BytesAreCells

LEMMA BytesOfNone == Bytes({}) = 0
<1>1. Cells({}) = {} /\ {} \in SUBSET Key
  BY DEF Cells
<1>2. IsFiniteSet({}) /\ Cardinality({}) = 0
  BY FS_EmptySet
<1> QED  BY <1>1, <1>2, BytesAreCells

-----------------------------------------------------------------------------
(* Both tiers end every put within their budgets: of the keys that stay,   *)
(* take the one that would have gone first. It stays because all that come *)
(* after it fit, and the others that stay are among these.                 *)

LEMMA LeastOf ==
  ASSUME NEW K, K # {}, NEW f \in [K -> Nat]
  PROVE  \E k \in K : \A j \in K : f[k] <= f[j]
<1> DEFINE R == {p \in Nat \X Nat : p[1] < p[2]}
           T == {f[k] : k \in K}
<1>1. IsWellFoundedOn(R, Nat)
  BY NatLessThanWellFounded DEF OpToRel
<1>2. T \in SUBSET Nat /\ T # {}
  OBVIOUS
<1>3. \E x \in T : \A y \in T : <<y, x>> \notin R
  <2> HIDE DEF R, T
  <2> QED  BY <1>1, <1>2, WFMin, Zenon
<1>4. PICK k \in K : \A y \in T : <<y, f[k]>> \notin R
  BY <1>3
<1>5. ASSUME NEW j \in K PROVE f[k] <= f[j]
  <2>1. f[j] \in T /\ f[j] \in Nat /\ f[k] \in Nat
    OBVIOUS
  <2>2. <<f[j], f[k]>> \notin R
    BY <1>4, <2>1
  <2> QED  BY <2>1, <2>2
<1> QED  BY <1>5

LEMMA EvictFits ==
  ASSUME NEW m, DOMAIN m \in SUBSET Key, IsFiniteSet(DOMAIN m), m \in [DOMAIN m -> Nat]
  PROVE  WithinBudget(DOMAIN EvictUntilWithinBudget(m))
<1> DEFINE later(k) == {j \in DOMAIN m : m[j] >= m[k]}
           stay == {k \in DOMAIN m : WithinBudget(later(k))}
<1>1. DOMAIN EvictUntilWithinBudget(m) = stay
  BY DEF EvictUntilWithinBudget, Restrict
<1>2. CASE stay = {}
  <2>1. Cardinality({}) = 0 /\ Bytes({}) = 0
    BY FS_EmptySet, BytesOfNone
  <2> HIDE DEF stay
  <2> QED  BY <1>1, <1>2, <2>1, BudgetAssumption DEF WithinBudget
<1>3. CASE stay # {}
  <2> DEFINE used == [k \in stay |-> m[k]]
  <2>1. used \in [stay -> Nat]
    OBVIOUS
  <2>2. \E k \in stay : \A j \in stay : used[k] <= used[j]
    <3> HIDE DEF used, stay
    <3> QED  BY <1>3, <2>1, LeastOf
  <2>3. PICK k \in stay : \A j \in stay : used[k] <= used[j]
    BY <2>2
  <2> DEFINE fit == later(k)
  <2>4. WithinBudget(fit) /\ fit \in SUBSET DOMAIN m
    OBVIOUS
  <2>5. stay \in SUBSET fit
    <3> SUFFICES ASSUME NEW j \in stay PROVE j \in fit
      OBVIOUS
    <3>1. m[k] <= m[j] /\ m[k] \in Nat /\ m[j] \in Nat
      BY <2>3
    <3> QED  BY <3>1
  <2> HIDE DEF fit, stay
  <2>6. IsFiniteSet(fit) /\ fit \in SUBSET Key
    BY <2>4, FS_Subset
  <2>7. Cardinality(fit) \in Nat
    BY <2>6, FS_CardinalityType
  <2>8. IsFiniteSet(stay) /\ Cardinality(stay) <= Cardinality(fit)
    BY <2>5, <2>6, FS_Subset
  <2>9. Cardinality(stay) \in Nat
    BY <2>8, FS_CardinalityType
  <2>10. Bytes(stay) \in Nat /\ Bytes(fit) \in Nat /\ Bytes(stay) <= Bytes(fit)
    BY <2>5, <2>6, BytesMonotone
  <2>11. Cardinality(fit) <= MaxEntries /\ Bytes(fit) <= MaxBytes
    BY <2>4 DEF WithinBudget
  <2>12. Cardinality(stay) <= MaxEntries /\ Bytes(stay) <= MaxBytes
    BY <2>7, <2>8, <2>9, <2>10, <2>11, BudgetAssumption
  <2> QED  BY <1>1, <2>12 DEF WithinBudget
<1> QED  BY <1>2, <1>3

LEMMA EnforceFits ==
  ASSUME NEW rows, DOMAIN rows \in SUBSET Key, IsFiniteSet(DOMAIN rows)
  PROVE  Bytes(DOMAIN EnforceBudget(rows)) <= MaxDiskBytes
<1> DEFINE older(k) == {j \in DOMAIN rows : rows[j].at < rows[k].at}
           batch(k) == Cardinality(older(k)) \div EvictionBatch
           left(k) == DOMAIN rows \ {j \in DOMAIN rows : batch(j) < batch(k)}
           stay == {k \in DOMAIN rows : Bytes(left(k)) <= MaxDiskBytes}
<1>1. DOMAIN EnforceBudget(rows) = stay
  BY DEF EnforceBudget, Restrict
<1>2. CASE stay = {}
  <2> HIDE DEF stay
  <2> QED  BY <1>1, <1>2, BytesOfNone, DiskAssumption
<1>3. CASE stay # {}
  <2>1. ASSUME NEW k \in DOMAIN rows PROVE batch(k) \in Nat
    <3>1. IsFiniteSet(older(k))
      BY FS_Subset
    <3>2. Cardinality(older(k)) \in Nat
      BY <3>1, FS_CardinalityType
    <3> HIDE DEF older
    <3> QED  BY <3>2, DiskAssumption
  <2> DEFINE number == [k \in stay |-> batch(k)]
  <2>2. number \in [stay -> Nat]
    BY <2>1
  <2>3. \E k \in stay : \A j \in stay : number[k] <= number[j]
    <3> HIDE DEF number, stay
    <3> QED  BY <1>3, <2>2, LeastOf
  <2>4. PICK k \in stay : \A j \in stay : number[k] <= number[j]
    BY <2>3
  <2> DEFINE fit == left(k)
  <2>5. Bytes(fit) <= MaxDiskBytes /\ fit \in SUBSET DOMAIN rows
    OBVIOUS
  <2>6. stay \in SUBSET fit
    <3> SUFFICES ASSUME NEW j \in stay PROVE j \in fit
      OBVIOUS
    <3>1. number[k] = batch(k) /\ number[j] = batch(j) /\ number[k] <= number[j]
      BY <2>4
    <3>2. batch(k) \in Nat /\ batch(j) \in Nat
      BY <2>1
    <3> HIDE DEF batch, number
    <3>3. ~(batch(j) < batch(k))
      BY <3>1, <3>2
    <3> QED  BY <3>3
  <2> HIDE DEF fit, stay
  <2>7. IsFiniteSet(fit) /\ fit \in SUBSET Key
    BY <2>5, FS_Subset
  <2>8. Bytes(stay) \in Nat /\ Bytes(fit) \in Nat /\ Bytes(stay) <= Bytes(fit)
    BY <2>6, <2>7, BytesMonotone
  <2> QED  BY <1>1, <2>5, <2>8, DiskAssumption
<1> QED  BY <1>2, <1>3

-----------------------------------------------------------------------------
(* The budgets through every step. That the tiers hold finitely many keys  *)
(* is part of the invariant: of an infinite set no sum is known.           *)

MemoryFits(m) == IsFiniteSet(DOMAIN m) /\ WithinBudget(DOMAIN m)
FileFits(rows) == IsFiniteSet(DOMAIN rows) /\ Bytes(DOMAIN rows) <= MaxDiskBytes
Fit == MemoryFits(memory) /\ \A a \in DOMAIN disk : FileFits(disk[a])

LEMMA FewerFit ==
  ASSUME NEW f, DOMAIN f \in SUBSET Key, NEW U \in SUBSET DOMAIN f
  PROVE  /\ MemoryFits(f) => MemoryFits(Restrict(f, U))
         /\ FileFits(f) => FileFits(Restrict(f, U))
<1>1. DOMAIN Restrict(f, U) = U
  BY DEF Restrict
<1>2. ASSUME IsFiniteSet(DOMAIN f)
      PROVE  /\ IsFiniteSet(U)
             /\ Cardinality(U) \in Nat /\ Cardinality(DOMAIN f) \in Nat
             /\ Cardinality(U) <= Cardinality(DOMAIN f)
             /\ Bytes(U) \in Nat /\ Bytes(DOMAIN f) \in Nat
             /\ Bytes(U) <= Bytes(DOMAIN f)
  <2>1. IsFiniteSet(U) /\ Cardinality(U) <= Cardinality(DOMAIN f)
    BY <1>2, FS_Subset
  <2>2. Cardinality(U) \in Nat /\ Cardinality(DOMAIN f) \in Nat
    BY <1>2, <2>1, FS_CardinalityType
  <2>3. Bytes(U) \in Nat /\ Bytes(DOMAIN f) \in Nat /\ Bytes(U) <= Bytes(DOMAIN f)
    BY <1>2, BytesMonotone
  <2> QED  BY <2>1, <2>2, <2>3
<1>3. ASSUME MemoryFits(f) PROVE MemoryFits(Restrict(f, U))
  <2>1. IsFiniteSet(DOMAIN f) /\ Cardinality(DOMAIN f) <= MaxEntries /\ Bytes(DOMAIN f) <= MaxBytes
    BY <1>3 DEF MemoryFits, WithinBudget
  <2>2. IsFiniteSet(U) /\ Cardinality(U) <= MaxEntries /\ Bytes(U) <= MaxBytes
    BY <1>2, <2>1, BudgetAssumption
  <2> QED  BY <1>1, <2>2 DEF MemoryFits, WithinBudget
<1>4. ASSUME FileFits(f) PROVE FileFits(Restrict(f, U))
  <2>1. IsFiniteSet(DOMAIN f) /\ Bytes(DOMAIN f) <= MaxDiskBytes
    BY <1>4 DEF FileFits
  <2>2. IsFiniteSet(U) /\ Bytes(U) <= MaxDiskBytes
    BY <1>2, <2>1, DiskAssumption
  <2> QED  BY <1>1, <2>2 DEF FileFits
<1> QED  BY <1>3, <1>4

LEMMA NoneFit ==
  ASSUME NEW f, DOMAIN f = {}
  PROVE  MemoryFits(f) /\ FileFits(f)
<1>1. IsFiniteSet({}) /\ Cardinality({}) = 0 /\ Bytes({}) = 0
  BY FS_EmptySet, BytesOfNone
<1> QED  BY <1>1, BudgetAssumption, DiskAssumption DEF MemoryFits, FileFits, WithinBudget

LEMMA TouchFits ==
  ASSUME NEW m, NEW k \in DOMAIN m, NEW t, MemoryFits(m)
  PROVE  MemoryFits(Touch(m, k, t))
<1>1. DOMAIN Touch(m, k, t) = DOMAIN m \cup {k}
  BY InsertDomain
<1>2. DOMAIN Touch(m, k, t) = DOMAIN m
  BY <1>1
<1> QED  BY <1>2 DEF MemoryFits

LEMMA InsertFits ==
  ASSUME NEW m, Partial(m, Key, 1 .. MaxCalls), NEW k \in Key, NEW t \in 1 .. MaxCalls,
         IsFiniteSet(DOMAIN m)
  PROVE  MemoryFits(Insert(m, k, t))
<1> DEFINE touched == Touch(m, k, t)
<1>1. DOMAIN touched = DOMAIN m \cup {k}
  BY InsertDomain
<1>2. IsFiniteSet(DOMAIN touched)
  <2>1. IsFiniteSet(DOMAIN m \cup {k})
    BY FS_AddElement
  <2> QED  BY <1>1, <2>1
<1>3. Partial(touched, Key, 1 .. MaxCalls)
  BY PartialInsert
<1> HIDE DEF touched
<1>4. DOMAIN touched \in SUBSET Key /\ touched \in [DOMAIN touched -> Nat]
  <2>1. 1 .. MaxCalls \subseteq Nat
    BY DiskAssumption
  <2> QED  BY <1>3, <2>1 DEF Partial
<1>5. WithinBudget(DOMAIN EvictUntilWithinBudget(touched))
  BY <1>2, <1>4, EvictFits
<1>6. DOMAIN EvictUntilWithinBudget(touched) \in SUBSET DOMAIN touched
  BY DEF EvictUntilWithinBudget, Restrict
<1>7. IsFiniteSet(DOMAIN EvictUntilWithinBudget(touched))
  BY <1>2, <1>6, FS_Subset
<1>8. Insert(m, k, t) = EvictUntilWithinBudget(touched)
  BY DEF Insert, touched
<1> QED  BY <1>5, <1>7, <1>8 DEF MemoryFits

LEMMA UpsertFits ==
  ASSUME NEW rows, DOMAIN rows \in SUBSET Key, NEW k \in Key, NEW cipher,
         IsFiniteSet(DOMAIN rows)
  PROVE  FileFits(Upsert(rows, k, cipher))
<1> DEFINE all == Assign(rows, k, Sealed(cipher))
<1>1. DOMAIN all = DOMAIN rows \cup {k}
  BY DEF Assign
<1>2. IsFiniteSet(DOMAIN all) /\ DOMAIN all \in SUBSET Key
  <2>1. IsFiniteSet(DOMAIN rows \cup {k})
    BY FS_AddElement
  <2> QED  BY <1>1, <2>1
<1>3. Upsert(rows, k, cipher) = EnforceBudget(all)
  BY DEF Upsert
<1> HIDE DEF all
<1>4. DOMAIN EnforceBudget(all) \in SUBSET DOMAIN all
  BY EnforceBudgetDrops
<1>5. IsFiniteSet(DOMAIN EnforceBudget(all))
  BY <1>2, <1>4, FS_Subset
<1>6. Bytes(DOMAIN EnforceBudget(all)) <= MaxDiskBytes
  BY <1>2, EnforceFits
<1> QED  BY <1>3, <1>5, <1>6 DEF FileFits

LEMMA DeleteRowsFit ==
  ASSUME FilesType, \A b \in DOMAIN disk : FileFits(disk[b]), NEW a \in DOMAIN disk, NEW keys
  PROVE  \A b \in DOMAIN DeleteRows(a, keys) : FileFits(DeleteRows(a, keys)[b])
<1>1. DeleteRows(a, keys)[a] = Restrict(disk[a], DOMAIN disk[a] \ keys)
  BY DEF DeleteRows
<1>2. DOMAIN disk[a] \in SUBSET Key
  BY DEF FilesType, Partial, KeysOf
<1>3. FileFits(DeleteRows(a, keys)[a])
  BY <1>1, <1>2, FewerFit
<1> QED  BY <1>3, DeleteRowsDomain

LEMMA BudgetsStep ==
  ASSUME TypesInv, Fit, [Next]_vars
  PROVE  Fit'
<1>1. MemoryFits(memory) /\ IsFiniteSet(DOMAIN memory) /\ \A a \in DOMAIN disk : FileFits(disk[a])
  BY DEF Fit, MemoryFits
<1>2. FilesType /\ Partial(memory, Key, 1 .. MaxCalls) /\ calls \in 0 .. MaxCalls
  BY DEF TypesInv, StateType
<1>3. DOMAIN memory \in SUBSET Key /\ \A a \in DOMAIN disk : DOMAIN disk[a] \in SUBSET Key
  BY <1>2 DEF FilesType, Partial, KeysOf
<1>4. CASE UNCHANGED <<memory, disk>>
  BY <1>1, <1>4 DEF Fit
<1>5. ASSUME MemoryFits(memory'), \A a \in DOMAIN disk' : FileFits(disk'[a]) PROVE Fit'
  BY <1>5 DEF Fit
<1>6. ASSUME NEW keys PROVE MemoryFits(Erase(memory, keys))
  BY <1>1, <1>3, FewerFit DEF Erase
<1>7. ASSUME NEW k \in Key, LookupInMemory(k) PROVE Fit'
  BY <1>1, <1>5, <1>7, TouchFits DEF LookupInMemory
<1>8. ASSUME NEW k \in Key, LookupOnDisk(k) PROVE Fit'
  <2>1. now \in 1 .. MaxCalls
    BY <1>2, <1>8, HandlerType DEF LookupOnDisk
  <2>2. CASE memory' = Insert(memory, k, now) /\ UNCHANGED disk
    BY <1>1, <1>2, <1>5, <2>1, <2>2, InsertFits
  <2>3. CASE disk' = DeleteRows(user, {k}) /\ UNCHANGED memory
    <3>1. user \in DOMAIN disk
      BY <1>2, <1>8 DEF LookupOnDisk, FilesType
    <3> QED  BY <1>1, <1>2, <1>5, <2>3, <3>1, DeleteRowsFit
  <2> QED  BY <1>8, <2>2, <2>3 DEF LookupOnDisk
<1>9. ASSUME NEW k \in Key, Put(k) PROVE Fit'
  <2>1. now \in 1 .. MaxCalls
    BY <1>2, <1>9, HandlerType DEF Put, Completion
  <2>2. MemoryFits(memory')
    BY <1>1, <1>2, <1>9, <2>1, InsertFits DEF Put
  <2>3. CASE UNCHANGED disk
    BY <1>1, <1>5, <2>2, <2>3
  <2>4. CASE user \in DOMAIN tier /\ disk' = [disk EXCEPT ![user] = Upsert(@, k, tier[user])]
    <3>1. user \in DOMAIN disk
      BY <1>2, <2>4 DEF FilesType
    <3>2. FileFits(Upsert(disk[user], k, tier[user]))
      BY <1>1, <1>3, <3>1, UpsertFits DEF FileFits
    <3>3. \A a \in DOMAIN disk' : FileFits(disk'[a])
      BY <1>1, <2>4, <3>1, <3>2
    <3> QED  BY <1>5, <2>2, <3>3
  <2> QED  BY <1>9, <2>3, <2>4 DEF Put
<1>10. ASSUME NEW keys, Invalidate(keys) PROVE Fit'
  <2>1. MemoryFits(memory')
    BY <1>6, <1>10 DEF Invalidate
  <2>2. CASE user \in DOMAIN tier
    <3>1. user \in DOMAIN disk /\ disk' = DeleteRows(user, keys)
      BY <1>2, <1>10, <2>2 DEF Invalidate, FilesType
    <3> QED  BY <1>1, <1>2, <1>5, <2>1, <3>1, DeleteRowsFit
  <2>3. CASE user \notin DOMAIN tier
    BY <1>1, <1>5, <1>10, <2>1, <2>3 DEF Invalidate
  <2> QED  BY <2>2, <2>3
<1>11. CASE UnloadAccount \/ SignOut
  <2>1. MemoryFits(memory')
    BY <1>6, <1>11 DEF UnloadAccount, SignOut
  <2>2. disk' = disk \/ disk' = Destroy(user)
    BY <1>11 DEF UnloadAccount, SignOut
  <2>3. \A a \in DOMAIN disk' : a \in DOMAIN disk /\ disk'[a] = disk[a]
    BY <2>2 DEF Destroy, Restrict
  <2> QED  BY <1>1, <1>5, <2>1, <2>3
<1>12. CASE Attach
  <2>1. /\ DOMAIN disk' = DOMAIN disk \cup {user}
        /\ \A a \in DOMAIN disk : disk'[a] = disk[a]
        /\ user \notin DOMAIN disk => DOMAIN disk'[user] = {}
    BY <1>12 DEF Attach, OpenFile, Assign
  <2>2. \A a \in DOMAIN disk' : FileFits(disk'[a])
    BY <1>1, <2>1, NoneFit
  <2> QED  BY <1>1, <1>5, <1>12, <2>2 DEF Attach
<1>13. CASE Crash
  <2>1. DOMAIN memory' = {} /\ UNCHANGED disk
    BY <1>13 DEF Crash
  <2> QED  BY <1>1, <1>5, <2>1, NoneFit
<1> QED
  BY <1>4, <1>7, <1>8, <1>9, <1>10, <1>11, <1>12, <1>13
  DEF Next, vars, SignIn, LookupMissed, InvalidateMailbox, KeyRemoved, Ensure,
      KeyFound, KeyGenerated, KeyStored, AttachFailed

(* Whatever is put, promoted, deleted or attached, and whatever fails, the *)
(* memory tier ends every handler within both its budgets and every file   *)
(* within its own: for any sizes, also of a message larger than a budget,  *)
(* and any batch of rows deleted at a time.                                *)
THEOREM BudgetsTheorem == Spec => []BudgetsHold
<1>1. Init => TypesInv /\ Fit
  <2> SUFFICES ASSUME Init PROVE TypesInv /\ Fit
    OBVIOUS
  <2>1. TypesInv
    BY DiskAssumption DEF Init, TypesInv, StateType, StackType, FramesInv, FilesType, Partial
  <2>2. DOMAIN memory = {} /\ DOMAIN disk = {}
    BY DEF Init
  <2> QED  BY <2>1, <2>2, NoneFit DEF Fit
<1>2. TypesInv /\ Fit /\ [Next]_vars => TypesInv' /\ Fit'
  BY StackStep, StateStep, FilesStep, BudgetsStep DEF TypesInv
<1>3. Fit => BudgetsHold
  BY DEF Fit, MemoryFits, FileFits, BudgetsHold
<1> QED  BY <1>1, <1>2, <1>3, PTL DEF Spec
=============================================================================
