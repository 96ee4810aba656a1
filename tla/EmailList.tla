----------------------------- MODULE EmailList -----------------------------
(***************************************************************************)
(* EmailListManager: the rows on display, the selected row, the counts the *)
(* pagination is computed from and a listing remembered for each mailbox.  *)
(* It lives on the Qt thread and every method runs to its end, so each is  *)
(* a function of the manager's state: a record with one field for each     *)
(* member.  A message is a record of its mailbox, the mailbox's            *)
(* UIDVALIDITY when the message got its UID, and the UID.                  *)
(***************************************************************************)
EXTENDS Integers, Sequences, FiniteSets

CONSTANTS
  Mailbox,    \* the mailboxes of the account
  NoMailbox,  \* "no mailbox"
  MaxUid      \* bound: UIDs the server gives out in a mailbox

ASSUME MailboxAssumption == NoMailbox \notin Mailbox /\ MaxUid \in Nat

Uid == 1..MaxUid

\* MessageKey{}: no message.
NoKey == [mailbox |-> NoMailbox, validity |-> 0, uid |-> 0]

NoRows  == [u \in Uid |-> NoKey]
NoEntry == [valid |-> FALSE, emails |-> <<>>, count |-> 0]

\* The manager when the main page is first shown.  items is m_emailItems, the
\* row each UID is mapped to; chosen is the row of m_selectedEmailUid; more
\* tells whether the "Load More" button is on display.
NewList(m) ==
  [mailbox |-> m, items |-> NoRows, chosen |-> NoKey, count |-> 0,
   oldest |-> 0, more |-> FALSE, cache |-> [b \in Mailbox |-> NoEntry]]

UpdateLoadMore(l) == [l EXCEPT !.more = l.oldest > 1]

\* The button is hidden, the selection cleared.
ClearEmailList(l) == [l EXCEPT !.items = NoRows, !.chosen = NoKey, !.more = FALSE]

SetCurrentMailbox(l, m)      == [l EXCEPT !.mailbox = m]
SetMessageCount(l, n)        == [l EXCEPT !.count = n]
HasValidCache(l, m)          == l.cache[m].valid
InvalidateMailboxCache(l, m) == [l EXCEPT !.cache[m] = NoEntry]
Select(l, row)               == [l EXCEPT !.chosen = row]

\* The rows left when emails are added one after the other: the last one with
\* a UID keeps it.
AddRows(items, emails) ==
  [u \in Uid |->
     IF \E i \in DOMAIN emails : emails[i].uid = u
     THEN emails[CHOOSE i \in DOMAIN emails :
                   /\ emails[i].uid = u
                   /\ \A j \in DOMAIN emails : emails[j].uid = u => j <= i]
     ELSE items[u]]

Backwards(s) == [i \in 1..Len(s) |-> s[Len(s) + 1 - i]]

\* The remembered listing is newest first and is walked from its end.
DisplayCachedEmails(l, m) ==
  LET entry  == l.cache[m]
      loaded == Len(entry.emails)
  IN UpdateLoadMore(
       [ClearEmailList(l) EXCEPT
          !.mailbox = m,
          !.items   = AddRows(NoRows, Backwards(entry.emails)),
          !.count   = entry.count,
          !.oldest  = IF entry.count > loaded THEN entry.count - loaded + 1 ELSE 1])

\* updateCache, then the rows; emails is oldest first.
ApplyFetchResults(l, emails, append, n, startSeq) ==
  LET kept   == IF append THEN l.cache[l.mailbox].emails ELSE <<>>
      rows   == IF append THEN l ELSE ClearEmailList(l)
      adding == IF append THEN Backwards(emails) ELSE emails
  IN UpdateLoadMore(
       [rows EXCEPT
          !.cache[l.mailbox] = [valid  |-> TRUE,
                                emails |-> kept \o Backwards(emails),
                                count  |-> n],
          !.items  = AddRows(rows.items, adding),
          !.count  = n,
          !.oldest = startSeq])

\* Mutated form of OneLess: the count goes below zero.
OneLessUnchecked(n) == n - 1

OneLess(n) == IF n > 0 THEN n - 1 ELSE 0

\* erase and remove_if: the emails with another UID, in order.
WithoutUid(emails, u) ==
  LET kept == {i \in DOMAIN emails : emails[i].uid # u}
  IN [k \in 1..Cardinality(kept) |->
        emails[CHOOSE i \in kept : Cardinality({j \in kept : j <= i}) = k]]

RemoveEmail(l, u) ==
  LET entry == l.cache[l.mailbox]
  IN UpdateLoadMore(
       [l EXCEPT
          !.items  = [@ EXCEPT ![u] = NoKey],
          !.cache[l.mailbox] =
             [entry EXCEPT !.emails = WithoutUid(@, u),
                           !.count  = OneLess(@)],
          !.count  = OneLess(@),
          !.chosen = IF @.uid = u THEN NoKey ELSE @])

=============================================================================
