----------------------------- MODULE SyncCache -----------------------------
(***************************************************************************)
(* The engine's InMemoryMessageCache: what the command line client keeps   *)
(* of one mailbox between commands and sessions.  The operators are pure:  *)
(* each takes the state of a mailbox and gives the state after the call.   *)
(* An absent state and the empty state behave alike and are one value.     *)
(***************************************************************************)
EXTENDS Naturals, FiniteSets, Sequences, SequencesExt, Functions

NoState == [validity |-> 0, modseq |-> 0, next |-> 0, msgs |-> <<>>]

\* A message without a body; seen stands for its flags, env for its envelope.
\* of names the mailbox and the UIDVALIDITY the message was fetched under.
Entry(mod, seen, env, of) == [mod |-> mod, seen |-> seen, env |-> env, body |-> <<>>, of |-> of]

\* Mutant: the messages survive a change of UIDVALIDITY.
KeepMessages(c, validity, modseq) == [c EXCEPT !.validity = validity, !.modseq = modseq]

\* setMailboxState: a known, different UIDVALIDITY empties the mailbox.
SetMailboxState(c, validity, modseq) ==
  LET kept == IF c.validity # 0 /\ c.validity # validity THEN NoState ELSE c
  IN  [kept EXCEPT !.validity = validity, !.modseq = modseq]

IsValidForQresync(c) == c.validity > 0 /\ c.modseq > 0 /\ c.msgs # <<>>

\* addMessage(s): an entry is replaced as a whole, its body and envelope too.
AddMessages(c, new) ==
  [c EXCEPT !.msgs = [u \in DOMAIN c.msgs \cup DOMAIN new |-> IF u \in DOMAIN new THEN new[u] ELSE c.msgs[u]],
            !.modseq = CHOOSE h \in {c.modseq} \cup {new[u].mod : u \in DOMAIN new} :
                         h >= c.modseq /\ \A u \in DOMAIN new : h >= new[u].mod]

\* Mutant: nothing is removed.
KeepAll(c, uids) == c

RemoveMessages(c, uids) == [c EXCEPT !.msgs = Restrict(@, DOMAIN @ \ uids)]

\* updateFlags, of each of uids and without a MODSEQ: the one there stays.
UpdateFlags(c, uids, seen) ==
  [c EXCEPT !.msgs = [u \in DOMAIN @ |-> IF u \in uids THEN [@[u] EXCEPT !.seen = seen] ELSE @[u]]]

\* setMessageBody: only of a message that is cached.
SetMessageBody(c, uid, body) == IF uid \in DOMAIN c.msgs THEN [c EXCEPT !.msgs[uid].body = body] ELSE c

HasBody(c, uid) == uid \in DOMAIN c.msgs /\ c.msgs[uid].body # <<>>

SetUidNext(c, next) == [c EXCEPT !.next = next]

\* clearAll forgets the mailboxes.
ClearAll(c) == NoState

\* getCachedUids, and sorted: the k-th is the one up to which there are k.
GetCachedUids(c) ==
  LET uids == DOMAIN c.msgs
  IN  [k \in 1..Cardinality(uids) |-> CHOOSE u \in uids : Cardinality({v \in uids : v <= u}) = k]

\* getKnownUidRanges: one pass that extends the current range or starts one.
Extended(ranges, uid) ==
  IF ranges # <<>> /\ uid = Last(ranges)[2] + 1 THEN [ranges EXCEPT ![Len(ranges)][2] = uid]
                                                ELSE Append(ranges, <<uid, uid>>)

\* Mutant: the range that is open at the end is not written.
WithoutLast(c) == LET all == FoldLeft(Extended, <<>>, GetCachedUids(c))
                  IN  IF Len(all) > 1 THEN Front(all) ELSE all

KnownUidRanges(c) == FoldLeft(Extended, <<>>, GetCachedUids(c))

\* The UIDs a list of ranges stands for.
Covered(ranges) == UNION {ranges[i][1]..ranges[i][2] : i \in DOMAIN ranges}
=============================================================================
