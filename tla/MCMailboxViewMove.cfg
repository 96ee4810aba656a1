CONSTANTS
  a = a
  b = b
  Inbox = a
  Sent = b
  Mailbox = {a, b}
  NoMailbox = NoMailbox
  MaxUid = 3
  PageSize = 1
  InitialMail = 2
  MaxValidity = 1
  MaxClicks = 3
  MaxChanges = 0
SPECIFICATION Spec
INVARIANTS MovedHasLeft
CHECK_DEADLOCK FALSE
