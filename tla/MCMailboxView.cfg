CONSTANTS
  a = a
  b = b
  Inbox = a
  Sent = b
  Mailbox = {a, b}
  NoMailbox = NoMailbox
  MaxUid = 3
  PageSize = 1
  InitialMail = 2
  MaxValidity = 2
  MaxClicks = 3
  MaxChanges = 1
SPECIFICATION Spec
INVARIANTS TypeOK QuiescentView CachedBodyIsItsKeys ReaderMatchesKey RunsInItsMailbox
CHECK_DEADLOCK FALSE
